SPECIFICATION FairSpec
CONSTANTS
    NumNodes = 6
    Plans <- AllPlans
    Settings = {0, 2}
INVARIANTS
    TypeOK
    DependencyOrder
    SkipExact
    ConcurrencyBound
    CompleteMeansAll
    WorkConserving
    SequentialWhenOne
    NeverBlocked
PROPERTIES
    ResultsAreFinal
    Refines
    Termination
