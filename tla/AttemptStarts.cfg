CONSTANTS
    MaxAttempts = 2
    AllowedAttempts = 2
    AllowRetake = TRUE
    TheoryEnabled = TRUE
    FinalizeOnLogout = FALSE
    Marks = {m1}
    Starters = {s1, s2}
    Desks = {d1}
    Nobody = Nobody
    MaxReopens = 0
SPECIFICATION Spec
CHECK_DEADLOCK FALSE
SYMMETRY Symmetry
INVARIANT OneOpenAttempt
