CONSTANTS
    Subjects = {x1, x2}
    Arms = {a1, a2}
    Marks = {m1}
    Missing = Missing
    CbtLate = FALSE
    WindowsBack = FALSE
    MaxReturns = 1
SPECIFICATION FairSpec
CHECK_DEADLOCK FALSE
INVARIANTS TypeOK   
PROPERTIES ClassIsPublished 
