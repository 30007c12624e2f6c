SPECIFICATION MonitoringSpec
CONSTANTS
    mary = mary  sean = sean  acc1 = acc1  acc2 = acc2  emerald = emerald  liffey = liffey
    t1 = t1  t2 = t2  t3 = t3  t4 = t4  t5 = t5
    job = job
    None = None
    Ids = {t1, t2, t3, t4, t5}
    Customers = {mary, sean}
    Accounts = {acc1, acc2}
    Tenants = {emerald, liffey}
    CustomerOf <- MCCustomerOf
    TenantOf <- MCTenantOf
    Rows <- MCRows
    Files <- MCFiles
    Requests = {u1, u2}
    RequestTenant <- MCRequestTenant
    Job = job
    Directory <- MCDirectory
    MaxRejectRate = 400
    MaxMissingCountryRate = 500
    MaxDuplicateRate = 500
    MaxBatches = 3
    Scanners = {s1, s2}
    Dates = {60, 74, 88}
    OnboardedOn <- MCOnboardedOn
    Sme = {}
    SuppressionDays = 28
SYMMETRY ScanSymmetry
CONSTRAINT LoadsOverlapBetweenScans
INVARIANTS
    LineageExact
    EveryFireCovered
