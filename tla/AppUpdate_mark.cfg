SPECIFICATION FairSpec
CONSTANTS
    LastVersion = 2
    Faults = {"step", "record"}
PROPERTIES UpdateAlwaysEnds
CHECK_DEADLOCK FALSE
