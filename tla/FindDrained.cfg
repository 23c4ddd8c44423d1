SPECIFICATION Spec
CONSTANTS
    Task <- ChainTasks
    Deps <- ChainDeps
    Ordinal <- ChainOrdinal
    Parent <- ChainParent
    Backlog0 <- ChainBacklog
    Ledger0 <- ChainLedger
    DottedChild = {}
    SkipList = {}
    MaxAttempts = 2
    Strategy = "ff"
    RemoteMayFail = FALSE
    CloseOut = FALSE
    HealthCheck = FALSE
    Preflight = FALSE
    FastFail = FALSE
    HasFallback = FALSE
    Runs <- LoopRuns
    Edits = {}
    DeathPoints = {}
    MaxDeaths = 0
    MaxKills = 0
    MaxEdits = 0
INVARIANTS
    DrainedMeansNothingReady
