CONSTANTS
    Writers = {r1, r2, clerk}
    Clerk = clerk
    Voters = {a, b}
    Candidates = {x}
    Nobody = Nobody
    MaxRetries = 1
    MaxResets = 1
    MaxVotes = 2
    MaxCloses = 1
    MaxFaults = 1
SPECIFICATION FairSpec
CHECK_DEADLOCK FALSE
INVARIANTS TypeOK OneVote  NotShutOut LinksHold LoggedWasCast TalliesAgree
PROPERTY VoteArrives
