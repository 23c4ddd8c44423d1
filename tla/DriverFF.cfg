SPECIFICATION Spec
CONSTANTS
    Task <- ChainTasks
    Deps <- ChainDeps
    Ordinal <- ChainOrdinal
    Parent <- ChainParent
    Backlog0 <- ChainBacklog
    Ledger0 <- ChainLedger
    DottedChild = {}
    SkipList = {}
    MaxAttempts = 2
    Strategy = "ff"
    RemoteMayFail = TRUE
    CloseOut = FALSE
    HealthCheck = TRUE
    Preflight = TRUE
    FastFail = FALSE
    HasFallback = FALSE
    Runs <- AnyRuns
    Edits = {"revise", "delete"}
    DeathPoints <- Anywhere
    MaxDeaths = 2
    MaxKills = 0
    MaxEdits = 1
INVARIANTS
    TypeOK
    WorkPreserved
    RescueNamed
    BudgetRespected
    
    PublishedListed
PROPERTIES
    HumanEditsKept
    
