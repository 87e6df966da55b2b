SPECIFICATION Spec
CONSTANTS
    s1 = s1
    s2 = s2
    p1 = p1
    p2 = p2
    Sessions = {s1, s2}
    Daemon = Daemon
    Pids = {p1}
    NoPid = NoPid
    NoRow = NoRow
    StaleWorkingMs = 1
    Inputs <- RolloverInputs
    Clock = {0}
    Capacity = 2
    MaxAccepted = 3
    MaxBoots = 1
    MaxFaults = 0
INVARIANTS
    OneHolderPerPid
    EndsAreJustified
PROPERTIES
    PublicationFollowsLog
SYMMETRY Symmetric
CHECK_DEADLOCK FALSE
