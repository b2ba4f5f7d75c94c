SPECIFICATION Spec
CONSTANTS
    Resumes = {r1, r2}
    Watchers = {}
    MaxReplanAttempts = 1
    MaxQueue = 2
    Deployments <- HurriedWorkers
INVARIANT OneExecution
CHECK_DEADLOCK FALSE
