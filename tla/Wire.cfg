CONSTANTS
    Schemas = {s1}
    Tags = {a}
    NoTag = NoTag
    Inputs <- MCInputs
    Configs <- MCConfigs
    MaxHops = 2
    Values <- MCValues
    Structured <- MCStructured
    Valid <- MCValid
    Priorities <- MCPriorities
    MaxSetters = 2
    StartYears = {2000, 2100}
    Seconds = {86399}
    BusyDays = {10957}
SPECIFICATION WireSpec
INVARIANTS
    NoLateRejection CrossingMessage
    HeaderIntact WellFormedPasses CivilIsCalendar StampsAccepted
CHECK_DEADLOCK FALSE
