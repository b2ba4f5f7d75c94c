CONSTANTS
    t1 = t1
    t2 = t2
    c1 = c1
    Turns = {t1, t2}
    Calls = {c1}
    Nested = {}
    Twins = {c1}
    MaxQueue = 2
    MaxNotices = 0
    MaxRevisions = 0
    MayClose = FALSE
    Nobody = Nobody
SPECIFICATION Spec
INVARIANTS
    AnsweredIsSettled
    BuildsOnFinished
CHECK_DEADLOCK FALSE
