CONSTANTS
    Clients = {c1}
    ConnectionLimits = {1}
    U32Max = 1
    MaxSends = 1
    Signals = {}
    Terminate = TRUE
SPECIFICATION FairDaemonSpec
PROPERTY ExhaustionEnds
CHECK_DEADLOCK FALSE
