CONSTANTS
    q1 = q1
    q2 = q2
    p1 = p1
    Requests = {q1, q2}
    Procs = {p1}
    ProcOf <- OneProcess
    WithRedis = TRUE
    MaxRefreshes = 2
SYMMETRY MCSymmetry
SPECIFICATION Spec
INVARIANTS
    TypeOK
    AnswersCoherent
    CachesCoherent
    MonotoneReads
CHECK_DEADLOCK FALSE
