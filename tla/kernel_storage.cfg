SPECIFICATION StorageSpec
CONSTANTS
    NumVaults = 2
    Passwords = {p1, p2}
    Keys = {k1, k2}
    Entries = {e1}
    NoFile = NoFile
    MaxFaults = 2
    FaultKinds = {"before", "after"}
    Crashes = TRUE
    Datasets = {"assessments", "agents"}
    Messages = {"small", "large"}
    SizeOf <- MCSizeOf
    BufferRecords = 1
    DaysOfYear = 3
    MaxDay = 4
    RetentionDays = 1
    MaxSnapshots = 2
    MaxRecords = 2
    MaxDiskFaults = 1
    MaxCrashes = 1
    Sources = {"a", "b"}
    Builtin = {"a"}
    DependsOn <- MCDependsOn
    OnInFile = {"a"}
    Runners = {r1, r2}
    MaxReloads = 1
    MaxRestarts = 1
    MaxOps = 3
    MaxSaveFaults = 1
    ToolDocs <- MCToolDocs
    Requests = {q1, q2}
    CircuitRecords = {x1, x2}
    NoRecord = NoRecord
    MinRequests = 1
    MaxWindowSize = 1
    HalfOpenMaxFails = 2
    LocalChecks <- MCLocalChecks
    Dormant = {}
    ToolAnswers <- MCToolAnswers
    LocalConfigs <- MCLocalConfigs
    AgentReports <- MCAgentReports
    TechniqueOf <- MCTechniqueOf
    CacheMinutes = 1
    MaxMinutes = 1
    MaxAssessments = 2
PROPERTY InterceptorSound
CHECK_DEADLOCK FALSE
SYMMETRY StorageSymmetry
INVARIANTS SavedConfigSurvives TransitionsSound StorageSound SourcesSound
