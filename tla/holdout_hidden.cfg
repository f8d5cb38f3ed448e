SPECIFICATION Spec
CONSTANTS
    None = None
    Feedbacks = {f1}
    Cases = {c1}
    Jobs = {j1}
    Candidates = {v1}
    Builtin = builtin
    Admins = {a1}
PROPERTY HoldoutHidden
CHECK_DEADLOCK FALSE
