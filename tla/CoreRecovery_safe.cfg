SPECIFICATION FairSpec
CONSTANTS
    MaxFailures = 3
    RetryDelays <- ShortDelays
    FailureWindow = 4
    HealthyReset = 2
    ControllerGrace = 2
    MaxCandidates = 2
    Pids = {p1}
    NoPid = NoPid
    MaxTime = 5
    MaxDeaths = 2
    Faults = {"crash"}
INVARIANT RestartsBounded
PROPERTIES BudgetSpec LockReleased
