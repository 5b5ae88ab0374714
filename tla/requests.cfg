SPECIFICATION Spec
CONSTANTS
    t1 = t1
    t2 = t2
    a = a
    b = b
    p1 = p1
    p2 = p2
    w1 = w1
    w2 = w2
    i1 = i1
    i2 = i2
    h1 = h1
    h2 = h2
    NoProc = NoProc
    NoItem = NoItem
    Tasks = {t1, t2}
    Items = {a}
    Procs = {p1}
    Workers = {w1}
    ProcOf <- OneThread
    Indexers = {i1}
    Handlers = {h1, h2}
    MaxThreads = 2
    MaxAttempts = 2
    MaxFaults = 1
    MaxRequests = 2
    ConnLossThreshold = 2
    FileManager = TRUE
    HasSchedule = TRUE
    Boots = {"fresh"}
SYMMETRY TaskSymmetry
INVARIANTS
    EachPathOnce

    
CHECK_DEADLOCK FALSE
