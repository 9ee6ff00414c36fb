CONSTANTS
    Modes = {"fork", "inline", "cold"}
    MaxWrites = 3
    MaxAttempts = 2
    MaxEmits = 2
    Providers = {"vertex_gemini", "databricks_claude", "other"}
    MaxCorrections = 2
    MaxRegenerations = 1
    MaxChunks = 1
    Instances = {i1, i2}
    Migrations = 3
    MaxCrashes = 1
    Ttl = 5
    Latency = 1
    MaxPending = 2
    MaxTime = 11
SPECIFICATION ServicesSpec
INVARIANTS
    
    EventsDelivered
    ObjectsCurrent
    ClientConverges
    TurnsFaithful
    ShowsWhatRuns
    ServesMigrated
    ActiveStaysSignedIn
PROPERTIES
    RunsConclude
    ComesUp
CHECK_DEADLOCK FALSE
