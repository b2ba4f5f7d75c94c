CONSTANTS
    Highest = 2
    MaxRetries = 2
SPECIFICATION FairSpec
INVARIANTS
    OneVoice
    NoTierPassedOver
    RetriesAsConfigured
    TokensCarriedOver
PROPERTIES
    CallEnds
CHECK_DEADLOCK FALSE
