SPECIFICATION Spec
CONSTANTS
    s1 = s1
    s2 = s2
    p1 = p1
    p2 = p2
    Sessions = {s1}
    Daemon = Daemon
    Pids = {p1, p2}
    NoPid = NoPid
    NoRow = NoRow
    StaleWorkingMs = 1
    Inputs <- ResumeInputs
    Clock = {0, 2}
    Capacity = 1
    MaxAccepted = 3
    MaxBoots = 1
    MaxFaults = 0
INVARIANTS
    PublishedStateIsStored
PROPERTIES
    EndNamesBinding
CHECK_DEADLOCK FALSE
