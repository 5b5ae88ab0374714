SPECIFICATION FairSpec
CONSTANTS
    Setups <- Good
    MaxCalls = 2
    MaxFaults = 1
    MaxAge = 2
INVARIANTS
    StoredTokenIsUsable
PROPERTIES
    FailedOnlyIfRevoked
    StoredPairOnlyAdvances
    DueIsRenewed
CHECK_DEADLOCK FALSE
