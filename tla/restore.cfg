SPECIFICATION Spec
CONSTANTS
    d = d
    f = f
    g = g
    w1 = w1
    w2 = w2
    Items <- Tree
    Dirs <- TreeDirs
    Parent <- TreeParent
    Name <- TreeName
    NoItem = NoItem
    Workers = {w1, w2}
    MaxPreviews = 1
    MaxRuns = 1
    MaxGen = 4
    MaxSuffix = 1
    MaxAttempts = 2
    Threads = 2
    MaxFaults = 1
    MaxRequests = 3
    Boot = "new"
    SlowWorkers = FALSE
SYMMETRY WorkerSymmetry
INVARIANTS
    ClosedRunHoldsNothing
    OutcomeMatchesItems
    CompletedIsRestored
PROPERTIES
    OriginalSurvives
    ClosedRunIsFrozen
CHECK_DEADLOCK FALSE
