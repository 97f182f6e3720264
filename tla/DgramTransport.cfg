CONSTANTS
    Callers = {c1, c2}
    NoOne = NoOne
    Capacity = 1
    Limits = {0, 1, 3}
    AttemptCap = 28
    Bits = 24
SPECIFICATION FairSpec
INVARIANTS AtMostOneCopy ExhaustedExactly
PROPERTIES TokenOnlyOnExhaustion BackoffGrows CallsReturn
