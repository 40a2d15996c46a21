CONSTANTS
    Builds = {1, 2}
    First = 1
    Foreign = 1
    MaxQueue = 1
    Faults = {"timeout"}
SPECIFICATION Spec
INVARIANTS
    ProxyOffWhileStopped
CHECK_DEADLOCK FALSE
