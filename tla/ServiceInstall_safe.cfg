SPECIFICATION InstallFairSpec
CONSTANTS
    LastRelease = 2
    MaxAttempts = 2
    Restarts = 1
    InstallFaults = {"step", "crash", "cleanup", "power", "swap"}
INVARIANT OneRelease
PROPERTIES DeletedOnlyClean InstallCompletes StopHonoured
CHECK_DEADLOCK FALSE
