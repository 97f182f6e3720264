CONSTANTS
    NumWorkers = 2
    ChannelCap = 1
    MaxDatagrams = 5
SPECIFICATION LoopFairSpec
PROPERTY ShutdownEnds
CHECK_DEADLOCK FALSE
