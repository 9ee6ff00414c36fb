CONSTANTS
    Runs = {r1, r2, r3}
    Workers = {w1, w2}
    PoolSize = 1
    MaxUses = 2
    MaxLines = 1
    Platforms = {"Linux"}
    HangsOn = {}
SYMMETRY MCSymmetry
SPECIFICATION Spec
INVARIANTS
    TypeOK
    Exclusive
    SingleSource
    NoLeak
    NoOrphan
CHECK_DEADLOCK FALSE
