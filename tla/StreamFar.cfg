CONSTANTS
    pipeline = pipeline
    cancel = cancel
    near = near
    far = far
    c1 = c1
    c2 = c2
    Procs = {near, far}
    Emitters = {pipeline}
    Clients = {c1}
    Home <- OneHome
    At <- FarAt
    Events <- MCEvents
    MaxRaised = 0
    Redis = TRUE
SPECIFICATION FairSpec
INVARIANTS
    NothingDropped
CHECK_DEADLOCK FALSE
