CONSTANTS
    Clients = {c1, c2}
    ConnectionLimits = {1, 2}
    U32Max = 1
    MaxSends = 2
    Signals = {"TERM", "INT"}
    Terminate = TRUE
SPECIFICATION FairDaemonSpec
INVARIANTS PermitsConserved AtMostOneLateSession DrainComplete
PROPERTIES ImplementsListener SigTermEnds QueuedIsServed
CHECK_DEADLOCK FALSE
