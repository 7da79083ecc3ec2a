CONSTANTS
    Questions = {q1}
    Options = {a}
    Blank = Blank
    Absent = Absent
    Unmarked = Unmarked
    Nobody = Nobody
    Workers = {w1}
    Submitters = {s1, s2}
    Savers = {r1}
    SimulationRequired = TRUE
    MaxSaves = 1
    MaxFaults = 1
    MaxResumes = 0
SPECIFICATION FairSpec
CHECK_DEADLOCK FALSE
PROPERTY SubmissionEnds
