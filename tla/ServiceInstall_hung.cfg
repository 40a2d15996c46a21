\* By hand: each of these is violated.
SPECIFICATION InstallFairSpec
CONSTANTS
    LastRelease = 1
    MaxAttempts = 1
    Restarts = 1
    InstallFaults = {"cleanup"}
PROPERTY FailureIsSeen
\* PROPERTY StopNeverStalls
CHECK_DEADLOCK FALSE
