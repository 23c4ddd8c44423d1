SPECIFICATION Spec
CONSTANTS
    Task <- ChainTasks
    Deps <- ChainDeps
    Ordinal <- ChainOrdinal
    Parent <- ChainParent
    Backlog0 <- ChainBacklog
    Ledger0 <- ChainLedger
    DottedChild = {}
    SkipList = {}
    MaxAttempts = 2
    Strategy = "ff"
    RemoteMayFail = FALSE
    CloseOut = FALSE
    HealthCheck = FALSE
    Preflight = FALSE
    FastFail = FALSE
    HasFallback = FALSE
    Runs <- AnyRuns
    Edits = {}
    DeathPoints <- Anywhere
    MaxDeaths = 0
    MaxKills = 1
    MaxEdits = 0
INVARIANTS
    ResumedCutSucceeds
