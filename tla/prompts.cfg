SPECIFICATION Spec
CONSTANTS
    Prompts = {p1}
    Builtin = Builtin
    Cases = {c1}
    Jobs = {j1, j2}
    None = None
    MaxEdits = 2
    MaxCrashes = 1
SYMMETRY Symmetry
INVARIANTS
    ReleasedAsEvaluated
    ProductionWasTested
    OneInUse
    
CHECK_DEADLOCK FALSE
