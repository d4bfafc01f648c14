SPECIFICATION Spec
CONSTANTS
    MaxNoUnlock = 3
    MaxRetries = 2
    EnvKey = TRUE
    MaxCommands = 2
    MaxAgentCrashes = 1
    MaxKernelCrashes = 1
    MaxLosses = 2
INVARIANTS
    SecretsAgree
PROPERTIES
    SelfRecoveryJustified
    RegistrationSettles
    LockedAgentRecovers
