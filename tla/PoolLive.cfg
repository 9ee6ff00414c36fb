CONSTANTS
    Runs = {r1, r2, r3}
    Workers = {w1}
    PoolSize = 1
    MaxUses = 3
    MaxLines = 0
    Platforms = {"Linux", "Darwin"}
    HangsOn = {"Darwin"}
SPECIFICATION FairSpec
PROPERTIES
    RunsEnd
CHECK_DEADLOCK FALSE
