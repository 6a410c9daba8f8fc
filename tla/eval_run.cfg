CONSTANTS
    Lengths <- MCLengths
    Sizes <- MCSizes
    Overlaps <- MCOverlaps
    MaxChunks = 6
    BatchSize = 2
    MaxSummaries = 5
    Corpus = 2
    Pinned = {2}
    Questions = 2
    Axis = "grounding"
    Scores = {2, 4}
    HumanGrades <- MCHumanGrades
    Threshold = 1
    ChunkSize = 2
    ChunkOverlap = 1
SPECIFICATION MCSpec
CHECK_DEADLOCK FALSE
INVARIANTS
    EvalTypeOK
    ChunksCoverText
    ReductionKeepsOrder
    NothingLeftBehind
    OneBeliefState
    OnlyTheBeliefStateDiffers
    ScoresReachTheirArm
PROPERTIES
    EveryLoopEnds
    ReductionDescends
