CONSTANTS
    d1 = d1
    d2 = d2
    Docs = {d1, d2}
    Reindexer = Reindexer
    Deleter = Deleter
    FaultKinds <- AllFaults
    MaxFaults = 1
    MaxTries = 2
    MaxReindexes = 1
    MayDelete = TRUE
SPECIFICATION Spec
CHECK_DEADLOCK FALSE
SYMMETRY MCSymmetry
INVARIANTS
    CompleteIsRetrievable
    ReindexAccountsForLoss
PROPERTIES
    ReindexRestores
    ImplementsLifecycle
