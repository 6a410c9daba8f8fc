CONSTANTS
    d1 = d1
    d2 = d2
    d3 = d3
    s1 = s1
    s2 = s2
    Docs = {d1, d2}
    Sessions = {s1, s2}
    NoSession = NoSession
    Ops <- AllOps
    DirectRows <- SomeRows
    BatchSize = 1
    IngestSlots = 1
    ClockSteps <- StrictClock
    MaxClock = 2
    MaxVersions = 3
SPECIFICATION Spec
SYMMETRY MCSymmetry
INVARIANTS
    VersionsContiguous
    NoVersionConflict
