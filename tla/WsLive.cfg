SPECIFICATION FairSpec
CONSTANTS
    Keys <- OneKey
    Topics <- StateTopic
    Filters <- NoFilter
    States = {"Working", "Idle"}
    Capacity = 2
    MaxWrites = 1
    MaxFrames = 2
    MaxInbox = 1
    Keepalive = TRUE
    PongTicks = 2
PROPERTIES
    CoveredConverges
    DeadPeerIsClosed
