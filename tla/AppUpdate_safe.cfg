SPECIFICATION FairSpec
CONSTANTS
    LastVersion = 2
    Faults = {"step", "installer", "crash", "restart", "takeover", "hasty", "record"}
PROPERTIES InstallerAlone AsFound UpdateEnds
CHECK_DEADLOCK FALSE
