CONSTANTS
    pipeline = pipeline
    cancel = cancel
    near = near
    far = far
    c1 = c1
    c2 = c2
    Procs = {near}
    Emitters = {pipeline, cancel}
    Clients = {c1}
    Home <- OneHome
    At <- OneAt
    Events <- MCEvents
    MaxRaised = 1
    Redis = FALSE
SPECIFICATION Spec
INVARIANTS
    TypeOK
    NoGap
    ClosesComplete
    
CHECK_DEADLOCK FALSE
