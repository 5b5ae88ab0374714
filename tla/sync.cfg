SPECIFICATION Spec
CONSTANTS
    w1 = w1
    MaxVersion = 3
    Alike <- Unnoticed
    Configs <- Mixed
    MaxGen = 2
    MaxAttempts = 2
    MaxEvents = 2
    SlowWorkers = FALSE
    Workers = {w1}
    Errors = {"network", "auth", "other"}
INVARIANTS
    CachedSubtreeIsTrue
    PassesDoNotOverlap
    BaselineAgrees
PROPERTIES
    NoEditLost
CHECK_DEADLOCK FALSE
