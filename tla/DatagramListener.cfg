CONSTANTS
    NumWorkers = 2
    ChannelCap = 1
    MaxDatagrams = 6
SPECIFICATION FairSpec
INVARIANTS OnePlace RoundRobin DrainComplete
PROPERTY ShutdownEnds
CHECK_DEADLOCK FALSE
