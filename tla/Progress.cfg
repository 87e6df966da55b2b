SPECIFICATION FairSpec
CONSTANTS
    s1 = s1
    s2 = s2
    p1 = p1
    p2 = p2
    Sessions = {s1, s2}
    Daemon = Daemon
    Pids = {p1}
    NoPid = NoPid
    NoRow = NoRow
    StaleWorkingMs = 1
    Inputs <- RolloverInputs
    Clock = {0}
    Capacity = 2
    MaxAccepted = 2
    MaxBoots = 1
    MaxFaults = 1
PROPERTIES
    AcceptedSettles
    GhostsEnd
    ShutdownCompletes
CHECK_DEADLOCK FALSE
