SPECIFICATION Spec
CONSTANTS
    None = None
    Other = Other
    k1 = k1
    Tasks = {t1, t2}
    Tenants = {k1}
    TenantOf <- TenantOfTask
    Workers = {w1, w2}
    Limit = 1
    MaxDeaths = 1
    MaxRetries = 1
    Models = {"main", "other"}
    MaxFiles = 2
    PagesPerScan = 1
    MaxImages = 2
    Retries = 1
    Jobs = {j1, j2}
    MaxCrashes = 1
    MaxPosts = 2
INVARIANTS
    CountedWithinLimit
    
    AskedWithinBounds
    CallbackTruthful
PROPERTIES
    OpenTasksSettle
    ExtractionEnds
    
CHECK_DEADLOCK FALSE
