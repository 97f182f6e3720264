CONSTANTS
    s1 = s1
    s2 = s2
    Schemas = {s1, s2}
    Tags = {}
    NoTag = NoTag
    Tasks = {t1, t2}
    Readers = {stats}
    Inputs <- MCInputs
    Configs <- MCConfigs
    MaxReceived = 2
    MaxGenerations = 2
SPECIFICATION MonitorSpec
INVARIANTS
    ForwardedPassedInspection
    DroppedFailedInspection
    CountersTruthful
    Accounted
    SnapshotBracket
PROPERTY ImplementsMetrics
CHECK_DEADLOCK FALSE
