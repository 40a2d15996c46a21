\* By hand: each of these is violated.
SPECIFICATION Spec
CONSTANTS
    Profiles = {a}
    NoProfile = NoProfile
    MaxCandidates = 2
    Faults = {"disk", "hang", "probe"}
PROPERTY AlwaysUndone
\* PROPERTY NeverSpawnsTun
\* INVARIANT AlwaysEnds
