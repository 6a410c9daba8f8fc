CONSTANTS
    d1 = d1
    d2 = d2
    d3 = d3
    s1 = s1
    s2 = s2
    Docs = {d1, d2}
    Sessions = {s1}
    NoSession = NoSession
    Ops <- UpdateOnly
    DirectRows <- NoRows
    BatchSize = 2
    IngestSlots = 2
    ClockSteps <- StrictClock
    MaxClock = 3
    MaxVersions = 3
SPECIFICATION Spec
SYMMETRY MCSymmetry
INVARIANTS
    WindowIsUncovered
