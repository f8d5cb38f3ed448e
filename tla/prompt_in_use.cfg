SPECIFICATION Spec
CONSTANTS
    Prompts = {p1}
    Builtin = Builtin
    Cases = {c1}
    Jobs = {j1}
    None = None
    MaxEdits = 1
    MaxCrashes = 0
PROPERTIES
    InUseUntilReplaced
CHECK_DEADLOCK FALSE
