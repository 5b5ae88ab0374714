SPECIFICATION Spec
CONSTANTS
    f1 = f1
    f2 = f2
    x = x
    y = y
    c1 = c1
    c2 = c2
    s1 = s1
    s2 = s2
    Files = {f1, f2}
    Blocks = {x, y}
    Coords = {c1, c2}
    MaxRuns = 2
    MaxMaint = 4
    MaxPackBlocks = 2
    Retention = 1
    MaxFaults = 1
    Boot = "published"
    NoBlock = NoBlock
    NoCoord = NoCoord
    Schedulers = {}
    MaxRequests = 2
    MaxTicks = 0
    MaxChanges = 1
SYMMETRY BlockSymmetry
INVARIANTS
    OpenRunIsCurrent
    VisibleSnapshotsReadable
    PublishedIsComplete
PROPERTIES
    OutcomeIsFinal
CHECK_DEADLOCK FALSE
