SPECIFICATION SessionsSpec
CONSTANTS
    Observers = {"m", "h"}
    Beats = {"h"}
    ExitCodes = {0, 1}
    MaxPolls = 2
    GracePolls = 1
    Times = {"t1"}
    Evals = {"e1", "e2", "e3"}
    IdOf <- EvalIds
    Workers = 2
    NewFiles = {"f"}
    InitWait = 1
    PostResult = 1
    PtyTimeout = 4
    MaxPrinted = 3
INVARIANTS
    VerdictsAreTrue
    EvalsAccounted
    TranscriptIsPrinted
PROPERTIES
    EverythingReturns
CHECK_DEADLOCK FALSE
