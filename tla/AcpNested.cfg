CONSTANTS
    t1 = t1
    c1 = c1
    c2 = c2
    Turns = {t1}
    Calls = {c1, c2}
    Nested = {c2}
    Twins = {}
    MaxQueue = 8
    MaxNotices = 0
    MaxRevisions = 1
    MayClose = FALSE
    Nobody = Nobody
SPECIFICATION FairSpec
PROPERTIES
    CallsAreAsked
CHECK_DEADLOCK FALSE
