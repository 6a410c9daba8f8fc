CONSTANTS
    r1 = r1
    r2 = r2
    t1 = t1
    t2 = t2
    p1 = p1
    p2 = p2
    Requests = {r1, r2}
    Users = {ada, bob, cy}
    Emails = {mail1, mail2}
    Teams = {t1, t2}
    Projects = {p1, p2}
    Asker = ada
    NoArg = NoArg
    MaxVersion = 2
    Scenarios <- MCScenarios
    Limit = 1
    Window = 5
    MaxTime = 6
SPECIFICATION MCSpec
SYMMETRY MCSymmetry
CHECK_DEADLOCK FALSE
INVARIANTS
    TypeOK
    OvershootBounded
    AnyWindowBounded
    LiveEntriesKept
    OneUserPerEmail
    InternalErrorsAreExplained
    AnswersStayInScope
    BeliefIsFresh
    CannedIsTruthful
PROPERTIES
    RejectionsAreJustified
