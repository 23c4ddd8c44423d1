SPECIFICATION FairSpec
CONSTANTS
    Task <- PhaseTasks
    Deps <- PhaseDeps
    Ordinal <- PhaseOrdinal
    Parent <- PhaseParents
    Backlog0 <- PhaseBacklog
    Ledger0 <- PhaseLedger
    DottedChild = {}
    SkipList = {}
    MaxAttempts = 2
    Strategy = "ff"
    RemoteMayFail = FALSE
    CloseOut = TRUE
    HealthCheck = FALSE
    Preflight = FALSE
    FastFail = TRUE
    HasFallback = TRUE
    Runs <- LoopOnce
    Edits = {"revise", "finish"}
    DeathPoints = {}
    MaxDeaths = 0
    MaxKills = 0
    MaxEdits = 1

    
    
PROPERTIES
    DemotionTakesTwoTasks
    RunTerminates
    BacklogWorkedOff
