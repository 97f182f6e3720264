CONSTANTS
    MaxSize = 3
    MaxDigits = 2
    Messages <- MCMessages
    Chunk = 3
    MaxSent = 3
SPECIFICATION FairSpec
INVARIANTS
    InOrder
    OnlyBufferLost
    NeverMixed
    BufferBounded
PROPERTY SessionEnds
CHECK_DEADLOCK FALSE
