SPECIFICATION MCSpec
CONSTANTS
    guide = guide  sop = sop
    short = short  long = long  flagged = flagged
    adam = adam  maeve = maeve  liam = liam
    emerald = emerald  liffey = liffey
    Global = Global  Repository = Repository  None = None
    Docs = {guide}
    Texts = {short, long, flagged}
    Pieces <- MCPieces
    Level <- MCLevel
    Flagged = {flagged}
    Tenants = {emerald, liffey}
    Users = {adam, maeve, liam}
    TenantOf <- MCTenantOf
    RoleOf <- MCRoleOf
    Files <- MCFiles
    Requests = {q1, q2}
    Pipeline = Pipeline
    MaxRevisions = 4
    good = good  weak = weak  stage1 = stage1  stage2 = stage2
    h1 = h1  h2 = h2  browser = browser
    Data = {good, weak}
    Metrics <- MCMetrics
    Trainers = {trainer1, trainer2}
    Threads = {r1, stage1, stage2}
    Scorers = {stage1, stage2}
    ProcessOf <- MCProcessOf
    Alerts = {a1}
    MaxSecond = 3
    MaxModels = 3
    MaxLock = 3
    Clients = {browser}
    Usernames = {"alice", "bob"}
    Servers = {"uvicorn"}
    Handlers = {h1, h2}
    ServerOf <- MCServerOf
    LoginLimit = 2
    Window = 1
    MaxFailed = 2
    MaxTime = 3
SYMMETRY ServingSymmetry
INVARIANTS
    ReviewedUnlessMixed
    AnswersReviewed
    ProductionUnlessOverlap
    ServedVerified
    ScoresTraceable
    WindowLimited
    LockoutUnlessOverlapped
    LoginsAudited
PROPERTIES
    TenantPinned
    StaysServed
