SPECIFICATION FairSpec
CHECK_DEADLOCK FALSE
CONSTANTS
    Settings <- MCSettings
    TakenForRight <- MCTakenForRight
    Configured <- MCConfigured
    Hardware <- MCHardware
    Versions <- MCVersions
    DisableCloud = TRUE
    MaxAttempts = 2
    MaxLost = 2
    MaxRefusals = 1
    MaxLinks = 1
    MaxConnects = 1
INVARIANTS TypeOK ProgModeLeft SettingsCorrected LimitsOfThePanel
PROPERTIES ProgrammedOnlyWhenNeeded SetupEnds
