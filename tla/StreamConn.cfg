CONSTANTS
    Callers = {a, b}
    NoOne = NoOne
    Parts = 2
    Capacity = 2
    MaxCalls = 2
    MaxConns = 2
SPECIFICATION FairSpec
INVARIANTS
    FramesWhole
    OkMeansWritten
PROPERTIES
    FailsOnce
    SendReturns
CHECK_DEADLOCK FALSE
