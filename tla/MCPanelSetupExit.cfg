SPECIFICATION Spec
CHECK_DEADLOCK FALSE
CONSTANTS
    Settings <- MCSettings
    TakenForRight <- MCTakenForRight
    Configured <- MCConfigured
    Hardware <- MCHardware
    Versions <- MCVersions
    DisableCloud = TRUE
    MaxAttempts = 2
    MaxLost = 2
    MaxRefusals = 1
    MaxLinks = 1
    MaxConnects = 1
INVARIANT ProgModeExited
