SPECIFICATION FairMCSpec
CONSTANTS
    tx = tx  feature = feature  invented = invented
    listTx = listTx  getFeatures = getFeatures  badArguments = badArguments
    procedure = procedure  liaison = liaison
    None = None
    Refs <- MCRefs
    Calls <- MCCalls
    Discloses <- MCDiscloses
    Suspicious = {tx}
    Chunks <- MCChunks
    Level <- MCLevel
    RefSets <- MCRefSets
    ChunkSets <- MCChunkSets
    Cases <- MCCases
    MaxToolSteps = 2
    DecisionRetries = 1
    Models = {reasoning, fast}
    MaxRetries = 2
    Threshold = 3
    Reset = 2
INVARIANTS
    VerifiedIsGrounded
    CitationsCleared
    FlaggedNeverAutomatic
    FailsFast
    OutageRemembered
PROPERTIES
    ImplementsExecution
    NothingHangs
CHECK_DEADLOCK FALSE
