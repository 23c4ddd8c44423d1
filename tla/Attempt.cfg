SPECIFICATION Spec
CONSTANTS
    Task <- TwoTasks
    IdPrefix <- OnePrefix
    Kinds <- PathKinds
    Diffs <- SomeDiffs
    TaskFile = "backlog"
    CodeKinds = {"code"}
    Allowed = {"code", "backlog"}
    Gates <- TwoGates
    Applies <- GatesApply
    Window = 2
    Threshold = 1
    Queue <- FirstThenAny
    Calls = {c1, c2}
    MaxLaunches = 2
    MaxDeaths = 1
    MaxKills = 1
    MaxEvents = 2
SYMMETRY CallSymmetry
INVARIANTS
    TypeOK
    PassIsEarned
    
    
    FinishedIsOwn
    NoStrayAgents
    
PROPERTIES
    
    KillHolds
CHECK_DEADLOCK FALSE
