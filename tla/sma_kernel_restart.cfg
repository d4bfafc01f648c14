SPECIFICATION Spec
CONSTANTS
    MaxNoUnlock = 3
    MaxRetries = 2
    EnvKey = FALSE
    MaxCommands = 0
    MaxAgentCrashes = 1
    MaxKernelCrashes = 1
    MaxLosses = 0
PROPERTY SelfRecoveryOnlyWhenLost
