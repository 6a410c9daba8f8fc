CONSTANTS
    d1 = d1
    d2 = d2
    Docs = {d1}
    Reindexer = Reindexer
    Deleter = Deleter
    FaultKinds <- OnlyTimeouts
    MaxFaults = 1
    MaxTries = 5
    MaxReindexes = 0
    MayDelete = FALSE
SPECIFICATION FairSpec
CHECK_DEADLOCK FALSE
PROPERTY
    JobsComplete
