SPECIFICATION LifecycleFairSpec
CONSTANTS
    Capacity = 3
    PerEvent = 1
    MaxEvents = 1
    MaxTicks = 1
    MaxCommands = 1
    MaxOutages = 1
    Flaws = {"none", "mqtt"}
    MaxActions = 2
INVARIANTS
    TypeOK
    ConfigInUse
    SubscriptionKept
PROPERTIES
    PollsAgain
    SubscribedAgain
    SignalsObeyed
CHECK_DEADLOCK FALSE
