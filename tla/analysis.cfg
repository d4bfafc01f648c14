SPECIFICATION AnalysisSpec
CONSTANTS
    CheckIDs <- MCCheckIDs
    CheckIds = {"a1", "a2", "r1"}
    RootIds = {"r1"}
    UserItems <- MCUser
    SyncedLists <- MCLists
    CheckConcurrency = 2
    MaxEdits = 3
    Hosts = {"h1"}
    Rules <- MCRules
    TacticOf <- MCTacticOf
    Transitions <- MCTransitions
    CausalRules <- MCCausal
    Groups <- MCGroups
    Seen = {"T1071", "T1041"}
    Peers = {"h2"}
    AnomalyScores = {400, 900}
    IocConfidences = {800}
    MaxKept = 2
    MaxSteps = 4
    TacticList <- MCTactics
    KillStages <- MCStages
    TechIDs = {"T1", "T3"}
    MappedChecks = {"c1", "c2"}
    Catalogue0 <- MCCatalogue
    Mappings <- MCMappings
    Matrix <- MCMatrix
    GroupProfiles <- MCProfiles
    Mitigated = {"T1"}
    RuleTechs = {"T1"}
    FiredByWord = {"T1", "T3"}
    MaxResults = 2
    MaxHistory = 2
    MaxEditsOfCatalogue = 1
    CheckOf <- MCCheckOf
    WeightOf <- MCWeightOf
    BuiltinOf <- MCBuiltin
    CustomOf <- MCCustom
    DefaultTrigger <- MCTrigger
    Scenarios <- MCScenarios
    MaxDays = 2
    MaxChanges = 2
    Neighbours <- MCNeighbours
    NeighbourScores = {40}
    Transmission = 30
    ExpNeg <- MCExpNeg
    Pow <- MCPow
    Documents <- MCDocuments
    MaxHistoryKept = 2
    MaxDeliveries = 2
    MaxReports = 1
    MaxSwitches = 1
    SourceConfidence = 7
    Pulses <- MCPulses
    Events <- MCEvents
    OtxOn = TRUE
    MispOn = TRUE
    PageLimit = 1
    Day = 4
    MaxClock = 6
  
PROPERTIES    FixingHelps ScoreFollowsRisk
CHECK_DEADLOCK FALSE
