SPECIFICATION Spec
CHECK_DEADLOCK FALSE
CONSTANTS
    MaxPlanNodes = 4
    MaxSubplanNodes = 3
    MaxSubplansPerPlan = 2
    MaxDecisionNesting = 2
    MaxReplanAttempts = 2
    MaxRevisions = 1
    Payloads <- AllPayloads
INVARIANTS
    SortExact
    AcceptedIsValidated
    RepairHarmless
    FeedbackIsFresh
    OutcomeIsRecorded
PROPERTY
    PlanningEnds
