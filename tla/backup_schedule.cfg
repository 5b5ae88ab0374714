SPECIFICATION FairSpec
CONSTANTS
    f1 = f1
    f2 = f2
    x = x
    y = y
    c1 = c1
    c2 = c2
    s1 = s1
    s2 = s2
    Files = {f1, f2}
    Blocks = {x, y}
    Coords = {c1}
    MaxRuns = 2
    MaxMaint = 4
    MaxPackBlocks = 1
    Retention = 1
    MaxFaults = 1
    Boot = "new"
    NoBlock = NoBlock
    NoCoord = NoCoord
    Schedulers = {s1}
    MaxRequests = 1
    MaxTicks = 1
    MaxChanges = 0
PROPERTIES
    EveryRunEnds
    DueScheduleIsServed
CHECK_DEADLOCK FALSE
