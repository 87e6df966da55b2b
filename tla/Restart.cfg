SPECIFICATION Spec
CONSTANTS
    s1 = s1
    s2 = s2
    p1 = p1
    p2 = p2
    Sessions = {s1, s2}
    Daemon = Daemon
    Pids = {p1}
    NoPid = NoPid
    NoRow = NoRow
    StaleWorkingMs = 1
    Inputs <- RestartInputs
    Clock = {0}
    Capacity = 1
    MaxAccepted = 3
    MaxBoots = 2
    MaxFaults = 1
INVARIANTS
    RowsReflectLog
    RecordingsTellGaps
PROPERTIES
    ImplementsEventLog
CHECK_DEADLOCK FALSE
