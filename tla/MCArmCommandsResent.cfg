SPECIFICATION Spec
CONSTANTS
    z1 = z1
    z2 = z2
    unknown = unknown
    Zones = {z1, z2}
    ZoneIds = {z1, z2, unknown}
    Commands <- ExcludeZone
    MaxAttempts = 2
    RxCapacity = 2
    MaxCommands = 1
    MaxKeypad = 0
    MaxPushes = 4
    MaxPolls = 0
    MaxDrops = 0
PROPERTY AlwaysExcludedAreBypassed
CHECK_DEADLOCK FALSE
