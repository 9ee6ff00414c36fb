CONSTANTS
    Runs = {r1, r2}
    Workers = {w1, w2}
    PoolSize = 1
    MaxUses = 2
    MaxLines = 1
    Platforms = {"Linux"}
    HangsOn = {}
SPECIFICATION Spec
PROPERTIES
    SecondReleaseIsNoOp
CHECK_DEADLOCK FALSE
