SPECIFICATION FairSpec
CONSTANTS
    r1 = r1
    r2 = r2
    x = x
    Requests = {r1, r2}
    Abandoned = {x}
    MaxStreams = 2
    Operations <- OpsOf
    InitialTrees <- Trees
    PageSize = 2
    MaxSuffix = 1
    MaxArchive = 2
    MaxFaults = 1
INVARIANTS
    StreamsAreLimited
    AcceptedUploadIsWhole
PROPERTIES
    OnlyWhatWasAsked
    EveryClientIsServed
CHECK_DEADLOCK FALSE
