CONSTANTS
    Questions = {q1}
    Options = {a, b}
    Blank = Blank
    Absent = Absent
    Unmarked = Unmarked
    Nobody = Nobody
    Workers = {w1}
    Submitters = {s1, s2}
    Savers = {r1}
    SimulationRequired = FALSE
    MaxSaves = 2
    MaxFaults = 1
    MaxResumes = 1
SPECIFICATION Spec
CHECK_DEADLOCK FALSE
SYMMETRY Symmetry
INVARIANTS TypeOK DirtyHasAnswer SavedIsShown
PROPERTY MarkedOnce
