CONSTANTS
    Writers = {r1, clerk}
    Clerk = clerk
    Voters = {a}
    Candidates = {x}
    Nobody = Nobody
    MaxRetries = 1
    MaxResets = 1
    MaxVotes = 2
    MaxCloses = 1
    MaxFaults = 0
SPECIFICATION Spec
CHECK_DEADLOCK FALSE
INVARIANT LanPrevails
