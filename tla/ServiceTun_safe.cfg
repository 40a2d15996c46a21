SPECIFICATION FairSpec
CONSTANTS
    Profiles = {a, b}
    NoProfile = NoProfile
    MaxCandidates = 2
    Faults = {"disk", "api", "foreign", "crash", "hang", "probe"}
INVARIANTS SessionRecorded StatusHonest
PROPERTIES SpawnsWithoutTun ForgottenWhenUndone LocksReleased
