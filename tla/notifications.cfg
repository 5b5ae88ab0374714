SPECIFICATION MCFairSpec
CONSTANTS
    Runs = {r1, r2}
    Kinds = {"migration", "backup", "restore", "sync"}
    Notifiers = {n1, n2}
    BatchLimit = 2
    SendWorkers = 1
    MaxAttempts = 2
    MaxEdits = 1
    MaxFaults = 1
INVARIANTS
    SentWasAccepted
    DuplicatesHaveACause
PROPERTIES
    EveryMigrationIsReported
    DeliveriesSettle
CHECK_DEADLOCK FALSE
