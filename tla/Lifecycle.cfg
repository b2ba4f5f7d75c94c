SPECIFICATION FairSpec
CONSTANTS
    Resumes = {r1, r2, r3}
    Watchers = {w1}
    MaxReplanAttempts = 1
    MaxQueue = 2
    Deployments <- BothStores
INVARIANTS
    OneExecution
    
    StuckOnlyByCrash
PROPERTIES
    OutcomeIsFinal
    
CHECK_DEADLOCK FALSE
