SPECIFICATION MCSpec
CONSTANTS
    procedure = procedure  redFlags = redFlags  closure = closure
    None = None
    Tenants <- MCTenants
    Risks <- MCRisks
    Anomalies <- MCAnomalies
    Shares <- MCShares
    Lines <- MCLines
    Title = "Title"
    MaxLines = 5
    Target = 4
    Overlap = 2
    Shortest = 3
    Loadable <- MCLoadable
    Histories <- MCHistories
    AsOfs = {149, 150}
    Starts = {0, 89, 90, 91}
    Refs <- MCRefs
    Calls <- MCCalls
    Discloses <- MCDiscloses
    Suspicious <- MCSuspicious
    Chunks <- MCChunks
    Level <- MCLevel
    RefSets = {}
    ChunkSets = {}
    Cases <- MCCases
    MaxToolSteps = 8
    DecisionRetries = 1
    Ledger <- MCLedger
    PriorAlerts = {"earlier"}
    Relevance <- MCRelevance
    Dossiers <- MCDossiers
    MaxListed = 3
    MaxEvidence = 2
INVARIANTS
    AutomaticOnlyWithinSop
    ChunksFaithful
    FeaturesExact
PROPERTIES
    NeverWaived
    ReferenceRecommends
CHECK_DEADLOCK FALSE
