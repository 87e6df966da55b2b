SPECIFICATION Spec
CONSTANTS
    Keys <- OneKey
    Topics <- LagTopics
    Filters <- FilterIdle
    States = {"Working", "Idle"}
    Capacity = 2
    MaxWrites = 6
    MaxFrames = 1
    MaxInbox = 1
    Keepalive = FALSE
    PongTicks = 2
INVARIANTS
    EveryLossAccounted
