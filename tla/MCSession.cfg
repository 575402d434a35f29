SPECIFICATION FairSpec
CONSTANTS
    Keys <- MCKeys
    PanelKey = 1
    ConfiguredKey = 0
    DiscoverCode = TRUE
    MaxRetries = 2
    CryptTries = 3
    ClockLimit = 3
    MaxFaults = 4
    MaxRefusals = 1
    Limit <- MCLimit
    Installed <- MCInstalled
INVARIANTS
    TypeOK
    RightKey
    DevicesFound
PROPERTIES
    NoSpuriousReconnect
    ListsKept
    SessionComesBack
CHECK_DEADLOCK FALSE
