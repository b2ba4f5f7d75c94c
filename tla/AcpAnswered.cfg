CONSTANTS
    t1 = t1
    c1 = c1
    c2 = c2
    Turns = {t1}
    Calls = {c1, c2}
    Nested = {}
    Twins = {}
    MaxQueue = 8
    MaxNotices = 1
    MaxRevisions = 1
    MayClose = TRUE
    Nobody = Nobody
SPECIFICATION FairSpec
INVARIANTS
    NothingUnapproved
    OnlyApprovedPlans
    EntriesTellOutcomes
PROPERTIES
    PromptsAnswered
CHECK_DEADLOCK FALSE
