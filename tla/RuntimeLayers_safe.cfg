CONSTANTS
    MaxPort = 2
    Candidates = 2
    Servers = {"user"}
SPECIFICATION Spec
INVARIANTS PortReported TunLeavesNothing
PROPERTIES InterfaceFollows
