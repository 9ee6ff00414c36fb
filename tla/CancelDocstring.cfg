CONSTANTS
    p1 = p1
    p2 = p2
    Cancellers = {p1}
    MaxErrorRetry = 1
    MaxCodegenRetry = 1
    MaxParts = 1
    MaxFaults = 0
SPECIFICATION FairSpec
PROPERTIES
    CancelIsTerminal
CHECK_DEADLOCK FALSE
