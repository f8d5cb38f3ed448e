SPECIFICATION Spec
CONSTANTS
    t1 = t1
    t2 = t2
    a1 = a1
    a2 = a2
    a3 = a3
    r1 = r1
    r2 = r2
    r3 = r3
    Tasks = {t1, t2}
    NoTask = NoTask
    Prices = {1, 2}
    RechargeAmounts = {2}
    MaxBalance = 5
    InitBalance = 3
    MaxRecharges = 1
    Attempts = {a1, a2}
    Requests = {r1, r2}
    RequestOf <- OwnRequests
    Admins = {m1, m2}
    NoOwner = NoOwner
    SingleDelivery = FALSE
    LeaseOutlivesAttempt = FALSE
SYMMETRY Symmetry
INVARIANTS
    LedgerChained
    HoldsAreFunded
    ChargeMatchesLedger
    RefundMatchesDeduction
    SuccessIsCharged
PROPERTY
    BillingPromised
