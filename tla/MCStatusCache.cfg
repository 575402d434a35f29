SPECIFICATION FairSpec
CONSTANTS
    Devices <- MCDevices
    Batches <- MCBatches
    FirstOf <- MCFirstOf
    Statuses <- MCStatuses
    SetTold <- MCSetTold
    UnsetTold <- MCUnsetTold
    ErrorStatus <- MCErrorStatus
    BusCapacity = 3
    MaxWire = 1
    MaxChanges = 2
    MaxFaults = 1
INVARIANTS
 TypeOK
 SnapshotIsPolled
 SubscriberFollowsCache
PROPERTIES
    EventuallyTrue
CHECK_DEADLOCK FALSE
