INIT Init
NEXT Next
CONSTANTS
    t1 = t1
    t2 = t2
    w1 = w1
    w2 = w2
    m1 = m1
    m2 = m2
    m3 = m3
    Tasks = {t1, t2}
    Workers = {w1, w2}
    Messages = {m1, m2}
    NoTask = NoTask
    NoMessage = NoMessage
    Limit = 1
    MaxCrashes = 1
    MaxLosses = 0
    MaxCopies = 1
SYMMETRY Symmetry
INVARIANTS
    WithinLimitUnlessCopied
    OneRunner
