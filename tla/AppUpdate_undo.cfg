SPECIFICATION Spec
CONSTANTS
    LastVersion = 2
    Faults = {"step"}
INVARIANTS UndoKept
CHECK_DEADLOCK FALSE
