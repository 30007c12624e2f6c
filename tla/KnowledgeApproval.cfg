SPECIFICATION KnowledgeSpec
CONSTANTS
    guide = guide  sop = sop
    short = short  long = long  flagged = flagged
    adam = adam  maeve = maeve  liam = liam
    emerald = emerald  liffey = liffey
    Global = Global  Repository = Repository  None = None
    Docs = {guide, sop}
    Texts = {short, long, flagged}
    Pieces <- MCPieces
    Level <- MCLevel
    Flagged = {flagged}
    Tenants = {emerald, liffey}
    Users = {adam, maeve, liam}
    TenantOf <- MCTenantOf
    RoleOf <- MCRoleOf
    Files <- MCFiles
    Requests = {q1, q2}
    Pipeline = Pipeline
    MaxRevisions = 3
SYMMETRY RequestSymmetry
INVARIANTS
    OnlyReviewedRetrievable
