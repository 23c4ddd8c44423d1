SPECIFICATION Spec
CONSTANTS
    Task <- ChainTasks
    Deps <- ChainDeps
    Ordinal <- ChainOrdinal
    Parent <- ChainParent
    Backlog0 <- ChainBacklog
    Ledger0 <- ChainLedger
    DottedChild = {}
    SkipList = {}
    MaxAttempts = 2
    Strategy = "pr"
    RemoteMayFail = TRUE
    CloseOut = FALSE
    HealthCheck = FALSE
    Preflight = FALSE
    FastFail = FALSE
    HasFallback = FALSE
    Runs <- ResumeRuns
    Edits = {"finish", "archive"}
    DeathPoints = {"wait"}
    MaxDeaths = 1
    MaxKills = 1
    MaxEdits = 1
INVARIANTS
    WorkPreserved
    LandedNotRedone
    ResumedCutSucceeds
    
PROPERTIES
    ImplementsBoard
