CONSTANTS
    MaxAttempts = 2
    AllowedAttempts = 1
    AllowRetake = FALSE
    TheoryEnabled = FALSE
    FinalizeOnLogout = TRUE
    Marks = {m1, m2}
    Starters = {s1, s2}
    Desks = {d1}
    Nobody = Nobody
    MaxReopens = 1
SPECIFICATION Spec
CHECK_DEADLOCK FALSE
SYMMETRY Symmetry
INVARIANTS TypeOK FlaggedIsExcluded SubmittedCounts
 
