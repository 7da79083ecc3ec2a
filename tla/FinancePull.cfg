CONSTANTS
    Txns = {t1, t2}
    Newcomers = {t2}
    Verifiers = {v1, v2}
    Nobody = Nobody
    Limit = 3
    Overlap = FALSE
    MaxClock = 3
    MaxCrashes = 1
SPECIFICATION FairSpec
CHECK_DEADLOCK FALSE
INVARIANTS TypeOK PaidOnce  
PROPERTIES PaidIsImported 
