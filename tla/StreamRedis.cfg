CONSTANTS
    pipeline = pipeline
    cancel = cancel
    near = near
    far = far
    c1 = c1
    c2 = c2
    Procs = {near}
    Emitters = {pipeline}
    Clients = {c1}
    Home <- OneHome
    At <- OneAt
    Events <- MCEvents
    MaxRaised = 1
    Redis = TRUE
SPECIFICATION FairSpec
INVARIANTS
    SentOnce
PROPERTIES
    StreamsClose
CHECK_DEADLOCK FALSE
