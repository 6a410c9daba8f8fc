CONSTANTS
    d1 = d1
    d2 = d2
    Docs = {d1, d2}
    Reindexer = Reindexer
    Deleter = Deleter
    FaultKinds <- AllFaults
    MaxFaults = 2
    MaxTries = 2
    MaxReindexes = 0
    MayDelete = FALSE
SPECIFICATION FairSpec
CHECK_DEADLOCK FALSE
INVARIANTS
    RunningIsInHand
    FailuresAreCollisions
PROPERTIES
    PendingIsRecovered
    JobsSettle
