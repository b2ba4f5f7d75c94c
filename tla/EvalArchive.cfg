SPECIFICATION Spec
CONSTANTS
    Tasks = {a, b}
    TrialCounts = {0, 1}
    Threshold = 2
    RateNum = 1
    RateDen = 3
    Reuse = FALSE
    Procs = {p1, p2}
    MaxRuns = 2
    MaxRegrades = 2
    MaxEdits = 1
    MaxCrashes = 1
INVARIANTS ArchiveTrusted PromotionEarned
CHECK_DEADLOCK FALSE
SYMMETRY Symmetry
