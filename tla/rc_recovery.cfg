SPECIFICATION BreakerSpec
CONSTANTS
    Tasks = {t1}
    MaxConcurrency = 1
    Calls = {c1, c2}
    Breakers = {b1, b2, b3}
    Threshold = 2
    NoBreaker = NoBreaker
PROPERTY
    BlockedUntilCooldown
