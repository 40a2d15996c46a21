SPECIFICATION GuiFairSpec
CONSTANTS
    p1 = p1
    p2 = p2
    NoPid = NoPid
    Pids <- MCPids
    GuiFaults = {"exit", "spawn", "api", "disk", "crash"}
INVARIANTS CoreStaysOwned SessionRecorded OffMeansOff
PROPERTIES ExitsHandled
CHECK_DEADLOCK FALSE
