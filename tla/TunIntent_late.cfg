SPECIFICATION Spec
CONSTANTS
    Faults <- Delivery
    MaxFaults = 1
    MaxCommands = 2
PROPERTY NewestIsSent
