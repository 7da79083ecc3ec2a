CONSTANTS
    LanEvents = {1, 2, 4}
    CloudEvents = {}
    Object <- TwoRecords
    Needs <- FirstNeedsSecond
    Rejects = {4}
    Guarded = {}
    Workers = {w1}
    Requests = {s1, s2}
    Nobody = Nobody
    MaxRetries = 1
    MaxFaults = 1
SPECIFICATION FairSpec
CHECK_DEADLOCK FALSE
INVARIANT SyncedIsApplied
PROPERTY QueuedIsSynced
