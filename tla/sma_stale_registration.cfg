SPECIFICATION Spec
CONSTANTS
    MaxNoUnlock = 3
    MaxRetries = 2
    EnvKey = FALSE
    MaxCommands = 1
    MaxAgentCrashes = 1
    MaxKernelCrashes = 0
    MaxLosses = 0
PROPERTY LockedAgentServes
