SPECIFICATION Spec
CONSTANTS
    None = None
    f2 = f2
    f3 = f3
    c1 = c1
    c2 = c2
    t1 = t1
    Feedbacks = {f1, f2, f3}
    Cases = {c1, c2}
    Examples = {e1, e2}
    Trials = {trial1}
    Requests = {r1}
    Tenants = {t1, t2}
    Owner <- OwnerOfFeedback
    LabFeedbacks = {g1}
    LabCases = {d1}
    Jobs = {j1, j2}
    Candidates = {v1}
    Builtin = builtin
    Admins = {a1}
SYMMETRY Symmetry
INVARIANTS
    UsedWasValidated
    ContentStaysWithTenant
    SentIsOnRecord
CHECK_DEADLOCK FALSE
