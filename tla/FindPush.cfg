SPECIFICATION Spec
CONSTANTS
    Task <- PairTasks
    Deps <- PairDeps
    Ordinal <- PairOrdinal
    Parent <- PairParent
    Backlog0 <- PairBacklog
    Ledger0 <- PairLedger
    DottedChild = {}
    SkipList = {}
    MaxAttempts = 2
    Strategy = "ff"
    RemoteMayFail = TRUE
    CloseOut = FALSE
    HealthCheck = FALSE
    Preflight = FALSE
    FastFail = FALSE
    HasFallback = FALSE
    Runs <- LoopRuns
    Edits = {}
    DeathPoints = {}
    MaxDeaths = 0
    MaxKills = 0
    MaxEdits = 0
INVARIANTS
    PublishedReachable
