CONSTANTS
    d1 = d1
    d2 = d2
    d3 = d3
    Docs = {d1, d2, d3}
    BatchSize = 1
    Threshold = 2
    WeeklyCron = TRUE
    MaxRequests = 1
    MaxFaults = 2
    MaxTries = 2
SPECIFICATION FairSpec
INVARIANTS
    FirstVersionIsComing
PROPERTIES
    EverythingIsCovered
    ImplementsCoverage
