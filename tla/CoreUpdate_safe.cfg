CONSTANTS
    Builds = {1, 2, 3}
    First = 1
    Foreign = 1
    MaxQueue = 1
    Faults = {"net", "disk", "health", "tun", "exit", "foreign", "crash", "timeout"}
SPECIFICATION FairSpec
INVARIANTS
    CompletedMeansCommitted
PROPERTIES
    SwapImplemented
    InstallEnds
CHECK_DEADLOCK FALSE
