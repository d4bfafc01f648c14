SPECIFICATION MCSpec
CONSTANTS
    Tasks = {t1, t2, t3}
    MaxConcurrency = 2
    Calls = {c1, c2}
    Breakers = {b1, b2, b3}
    Threshold = 2
    NoBreaker = NoBreaker
CHECK_DEADLOCK FALSE
INVARIANTS
    PoolAccounted
PROPERTIES
    NoStartAfterShutdown
    PoolProgress
    FailedTrialReopens
    OpenEndsInTrial
