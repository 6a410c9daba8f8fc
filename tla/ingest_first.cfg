CONSTANTS
    d1 = d1
    d2 = d2
    Docs = {d1, d2}
    Reindexer = Reindexer
    Deleter = Deleter
    FaultKinds <- NoFaults
    MaxFaults = 0
    MaxTries = 5
    MaxReindexes = 0
    MayDelete = FALSE
SPECIFICATION Spec
CHECK_DEADLOCK FALSE
INVARIANT
    OnlyFaultsFail
