SPECIFICATION Spec
CHECK_DEADLOCK FALSE
CONSTANTS
    NumTasks = 1
    NumWorkers = 1
    Paths = {1, 2}
    Install <- SomeInstalled
    Empty <- SomeEmptied
    Listed <- TwoOrders
    Suites <- OneSuite
    Trials = 1
    MaxTurns = 1
    Origins = {"user"}
    MaxCrashes = 0
INVARIANT
    PathsRestored
