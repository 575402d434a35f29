SPECIFICATION FairSpec
CONSTANTS
    Capacity = 3
    PerEvent = 2
    MaxEvents = 2
    MaxTicks = 1
    MaxCommands = 0
    MaxOutages = 1
PROPERTY ResubscribesAfterReconnect
CHECK_DEADLOCK FALSE
