\* By hand: each of these is violated.
SPECIFICATION InstallSpec
CONSTANTS
    LastRelease = 2
    MaxAttempts = 2
    Restarts = 1
    InstallFaults = {"crash", "cleanup"}
INVARIANT ExactBinaries
\* INVARIANT KeptForCleanup
\* PROPERTY StoppedStays
CHECK_DEADLOCK FALSE
