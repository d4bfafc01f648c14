SPECIFICATION Spec
CONSTANTS
    Topics = {t1}
    Ids = {i1, i2}
    Pubs = {p1, p2}
    QueueSize = 1
    MaxGoroutines = 2
CHECK_DEADLOCK FALSE
INVARIANTS
    TokensAccounted
    QuietAfterDrain
PROPERTIES
    PublishReturnsAlways
