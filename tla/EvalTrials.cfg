SPECIFICATION Spec
CHECK_DEADLOCK FALSE
CONSTANTS
    NumTasks = 3
    NumWorkers = 2
    Paths = {1, 2, 3}
    Install <- SomeInstalled
    Empty <- SomeEmptied
    Listed <- TwoOrders
    Suites <- TwoSuites
    Trials = 2
    MaxTurns = 1
    Origins = {"crashed"}
    MaxCrashes = 1
INVARIANTS
    Isolation
    NothingLeft
PROPERTY
    SuiteEnds
