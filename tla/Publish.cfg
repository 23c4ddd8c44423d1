SPECIFICATION Spec
CONSTANTS
    Setups <- AllSetups
    MaxAttempts = 3
    MaxHuman = 2
    MaxDeaths = 1
INVARIANTS
    TypeOK
    RefusedForCause
    
    ReportedStays

    
    
