SPECIFICATION Spec
CONSTANTS
    Keys <- OneKey
    Topics <- CoverageTopics
    Filters <- FilterIdle
    States = {"Working", "Idle"}
    Capacity = 2
    MaxWrites = 3
    MaxFrames = 3
    MaxInbox = 1
    Keepalive = FALSE
    PongTicks = 2
INVARIANTS
    CoverageHolds
    FinalStateBeforeClose
PROPERTIES
    SubscribeHeals
