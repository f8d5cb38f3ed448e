SPECIFICATION Spec
CONSTANTS
    NoTask = NoTask
    None = None
    Nobody = Nobody
    Admin = Admin
    NoEmail = NoEmail
    Requests = {r1, r2}
    MaxPending = 1
    InitBalance = 2
    MaxFaults = 1
    Submitters = {s1, s2}
    Reviewers = {a1, a2}
    Corrections = {c1, c2}
    Versions = {v1, v2}
    MaxAttempts = 2
    Openings = {o1, o2, o3}
    Names = {n1, n2}
    Emails = {m1}
    MaxKills = 1
    Tenants = {t1, t2}
    Keys = {k1, k2}
    TokenTTL = 7
    Window = 2
    Limit = 2
INVARIANTS
    SameKeySameTask
    HoldPerOpenTask
    FilesFollowTasks
    ReviewIsOneUnit
    OneTrialPerEmail
    SessionOutlivesIdle
PROPERTIES
    DecisionStands
    
    RequestsEnd
    WindowEnds
CHECK_DEADLOCK FALSE
