SPECIFICATION FairSpec
CONSTANTS
    Ids <- MCIds
    NoId = NoId
    IdOf <- MCIdOf
    BadCrcLimit = 2
    MaxMessages = 5
    MaxFrames = 4
INVARIANTS
    DeliveryInv
PROPERTIES
    DeliveredInOrder
    EventuallyAcknowledged
CHECK_DEADLOCK FALSE
