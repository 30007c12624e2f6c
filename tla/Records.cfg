SPECIFICATION FairMCSpec
CONSTANTS
    None = None
    Tenants = {emerald, liffey}
    Events = {e1, e2}
    Writers = {v1, v2}
    MaxId = 3
    Requests = {q1, q2, q3}
    PoolSize = 3
    Rows = {"alert"}
    Trails = {"emerald"}
    TrailOf <- MCTrailOf
    MaxEvents = 1
INVARIANTS
    ChainsVerify
    TamperEvident
    NeverAllWaiting
PROPERTIES
    AppendOnly
    RecordsEnd
    RequestsEnd
CHECK_DEADLOCK FALSE
