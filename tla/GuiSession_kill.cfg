SPECIFICATION GuiSpec
CONSTANTS
    p1 = p1
    p2 = p2
    NoPid = NoPid
    Pids <- MCPids
    GuiFaults = {"kill"}
INVARIANTS CoreStaysOwned
CHECK_DEADLOCK FALSE
