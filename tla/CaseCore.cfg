SPECIFICATION Spec
CONSTANTS
    a1 = a1  a2 = a2  c1 = c1  ivy = ivy  mia = mia  max = max
    None = None
    Alerts = {a1}
    Customers = {c1}
    CustomerOf <- MCCustomerOf
    Users = {ivy, mia}
    RoleOf <- MCRoleOf
    Keys = {}
    Requests = {q1}
    Workers = {w1}
    Modes = {"QUEUED", "RUNNING"}
    Proposals = {"CLOSE_FALSE_POSITIVE", "ENHANCED_MONITORING", "RESTRICT_ACCOUNT"}
    Cases <- BothCases
    MaxRuns = 2
INVARIANTS
    TerminalAlertExplained
    NoOrphanedAlert
    RunRecApprovalAgree
    OutcomesAudited
    SevereOutcomesAuthorised
    NothingFailsOpen
CHECK_DEADLOCK FALSE
