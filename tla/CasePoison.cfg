SPECIFICATION FairSpec
CONSTANTS
    a1 = a1  a2 = a2  c1 = c1  ivy = ivy  mia = mia  max = max
    None = None
    Alerts = {a1}
    Customers = {c1}
    CustomerOf <- MCCustomerOf
    Users = {ivy, mia}
    RoleOf <- MCRoleOf
    Keys = {}
    Requests = {q1}
    Workers = {w1}
    Modes = {"QUEUED"}
    Proposals = {"CLOSE_FALSE_POSITIVE"}
    Cases <- OnlyClean
    MaxRuns = 1
PROPERTIES
    EveryExecutionEnds
CHECK_DEADLOCK FALSE
