SPECIFICATION Spec
CONSTANTS
    a1 = a1  a2 = a2  c1 = c1  ivy = ivy  mia = mia  max = max
    None = None
    Alerts = {a1}
    Customers = {c1}
    CustomerOf <- MCCustomerOf
    Users = {ivy, mia}
    RoleOf <- MCRoleOf
    Keys = {k1}
    Requests = {q1, q2}
    Workers = {w1, w2}
    Modes = {"QUEUED"}
    Proposals = {"ESCALATE_STR"}
    Cases <- OnlyClean
    MaxRuns = 2
SYMMETRY RequestSymmetry
INVARIANTS
    OneRunPerKey
PROPERTIES
    NoLostUpdate
    ExecutedOnce
CHECK_DEADLOCK FALSE
