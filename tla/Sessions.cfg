CONSTANTS
    Key = {k1, k2}
    Request = {r1, r2}
    Earlier = Earlier
    Window = 4
    Keep = 2
    MaxSid = 2
    MaxCompactions = 1
    MaxCrashes = 1
    None = None
SPECIFICATION Spec
SYMMETRY Symmetry
CHECK_DEADLOCK FALSE
INVARIANTS StoreDurable
PROPERTIES PastIsRemembered
