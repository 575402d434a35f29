SPECIFICATION FairSpec
CONSTANTS
    z1 = z1
    z2 = z2
    unknown = unknown
    Zones = {z1, z2}
    ZoneIds = {z1, z2, unknown}
    Commands <- AllCommands
    MaxAttempts = 2
    RxCapacity = 2
    MaxCommands = 1
    MaxKeypad = 2
    MaxPushes = 2
    MaxPolls = 1
    MaxDrops = 1
INVARIANTS
    TypeOK
    NoMissedReady
PROPERTIES
    OkIsTrue
    ReportListsBypassed
    ReadyIsSeen
CHECK_DEADLOCK FALSE
