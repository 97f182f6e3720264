CONSTANTS
    Schemas = {s1, s2}
    Tags = {a}
    NoTag = NoTag
    Inputs <- MCInputs
    Configs <- ValidatorConfig
    MaxHops = 1
SPECIFICATION Spec
INVARIANT StrictMatchesASchema
CHECK_DEADLOCK FALSE
