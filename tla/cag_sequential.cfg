CONSTANTS
    d1 = d1
    d2 = d2
    d3 = d3
    s1 = s1
    s2 = s2
    Docs = {d1, d2, d3}
    Sessions = {s1, s2}
    NoSession = NoSession
    Ops <- WorkerOps
    DirectRows <- NoRows
    BatchSize = 1
    IngestSlots = 1
    ClockSteps <- StrictClock
    MaxClock = 5
    MaxVersions = 3
SPECIFICATION Spec
INVARIANTS
    WindowIsUncovered
PROPERTIES
    RebuildReadsWholeLog
    ImplementsCoverage
