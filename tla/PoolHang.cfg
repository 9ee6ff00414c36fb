CONSTANTS
    Runs = {r1}
    Workers = {w1, w2}
    PoolSize = 1
    MaxUses = 2
    MaxLines = 1
    Platforms = {"Linux"}
    HangsOn = {"Linux"}
SPECIFICATION FairSpec
PROPERTIES
    RunsEnd
CHECK_DEADLOCK FALSE
