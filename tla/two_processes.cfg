SPECIFICATION FairSpec
CONSTANTS
    t1 = t1
    t2 = t2
    a = a
    b = b
    p1 = p1
    p2 = p2
    w1 = w1
    w2 = w2
    i1 = i1
    i2 = i2
    h1 = h1
    h2 = h2
    NoProc = NoProc
    NoItem = NoItem
    Tasks = {t1}
    Items = {a}
    Procs = {p1, p2}
    Workers = {w1, w2}
    ProcOf <- TwoProcesses
    Indexers = {i1}
    Handlers = {}
    MaxThreads = 2
    MaxAttempts = 2
    MaxFaults = 1
    MaxRequests = 0
    ConnLossThreshold = 1
    FileManager = FALSE
    HasSchedule = FALSE
    Boots = {"indexed", "abandoned"}
INVARIANTS
    OneWriterPerTask
    CheckedTasksAreAtRest
PROPERTIES
    Settles
    TasksAreFencedClaims
CHECK_DEADLOCK FALSE
