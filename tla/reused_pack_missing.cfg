SPECIFICATION Spec
CONSTANTS
    f1 = f1
    f2 = f2
    x = x
    y = y
    c1 = c1
    c2 = c2
    s1 = s1
    s2 = s2
    Files = {f1, f2}
    Blocks = {x, y}
    Coords = {c1}
    MaxRuns = 3
    MaxMaint = 4
    MaxPackBlocks = 2
    Retention = 1
    MaxFaults = 1
    Boot = "published"
    NoBlock = NoBlock
    NoCoord = NoCoord
    Schedulers = {}
    MaxRequests = 2
    MaxTicks = 0
    MaxChanges = 3
SYMMETRY BlockSymmetry
INVARIANTS
    ReadableUnlessDestroyed
CHECK_DEADLOCK FALSE
