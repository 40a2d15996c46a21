SPECIFICATION Spec
CONSTANTS
    MaxFailures = 2
    RetryDelays <- ShortDelays
    FailureWindow = 3
    HealthyReset = 1
    ControllerGrace = 1
    MaxCandidates = 2
    Pids = {p1, p2}
    NoPid = NoPid
    MaxTime = 2
    MaxDeaths = 2
    Faults = {"cleanup"}
INVARIANT RestartsBounded
