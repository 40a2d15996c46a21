SPECIFICATION FairSpec
CONSTANTS
    Faults <- Delivery
    MaxFaults = 1
    MaxCommands = 3
PROPERTIES
    MutationsAreWanted
    LateSwitchIsCorrected
    DroppedWhenReached
    IntentsEnd
