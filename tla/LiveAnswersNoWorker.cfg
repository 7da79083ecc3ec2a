CONSTANTS
    Questions = {q1, q2}
    Options = {a, b}
    Blank = Blank
    Absent = Absent
    Unmarked = Unmarked
    Nobody = Nobody
    Workers = {}
    Submitters = {s1, s2}
    Savers = {r1}
    SimulationRequired = FALSE
    MaxSaves = 3
    MaxFaults = 0
    MaxResumes = 0
SPECIFICATION Spec
CHECK_DEADLOCK FALSE
PROPERTY MarksSavedAnswers
