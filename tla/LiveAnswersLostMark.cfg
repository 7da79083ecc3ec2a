CONSTANTS
    Questions = {q1, q2}
    Options = {a}
    Blank = Blank
    Absent = Absent
    Unmarked = Unmarked
    Nobody = Nobody
    Workers = {w1}
    Submitters = {s1}
    Savers = {r1}
    SimulationRequired = FALSE
    MaxSaves = 2
    MaxFaults = 0
    MaxResumes = 0
SPECIFICATION Spec
CHECK_DEADLOCK FALSE
PROPERTY MarksSavedAnswers
