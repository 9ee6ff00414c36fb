CONSTANTS
    p1 = p1
    p2 = p2
    Cancellers = {p1, p2}
    MaxErrorRetry = 1
    MaxCodegenRetry = 1
    MaxParts = 1
    MaxFaults = 1
SPECIFICATION FairSpec
INVARIANTS
    TypeOK
    CompletedIsOnePiece
    ReturnsTerminal
    CancelCostsOneExecution
    RetryBudget
    RecordsAgree
PROPERTIES
    LaunchesClean
    KeepsContract
    SettlesForGood
    VerdictFollows
CHECK_DEADLOCK FALSE
