SPECIFICATION FairSpec
CONSTANTS
    Faults <- Failing
    MaxFaults = 1
    MaxCommands = 1
PROPERTY IntentsEnd
