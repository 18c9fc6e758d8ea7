SPECIFICATION Spec
CONSTANTS
    Caller = {a}
    MaxCalls = 1
    MaxOpens = 1
    None = None
CHECK_DEADLOCK FALSE
PROPERTIES CallEnds
