SPECIFICATION Spec
CONSTANTS
    s1 = s1
    p1 = p1
    Sessions = {s1}
    Daemon = Daemon
    Pids = {p1}
    NoPid = NoPid
    NoRow = NoRow
    StaleWorkingMs = 1
    Inputs <- PromptInputs
    Clock = {0}
    Capacity = 2
    MaxAccepted = 2
    MaxBoots = 1
    MaxFaults = 0
INVARIANTS
    HookBeatsProbe
CHECK_DEADLOCK FALSE
