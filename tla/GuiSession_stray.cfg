SPECIFICATION GuiSpec
CONSTANTS
    p1 = p1
    p2 = p2
    NoPid = NoPid
    Pids <- MCPids
    GuiFaults = {"crash"}
INVARIANT OffEverywhere
CHECK_DEADLOCK FALSE
