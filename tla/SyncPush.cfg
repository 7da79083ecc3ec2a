CONSTANTS
    LanEvents = {1}
    CloudEvents = {3}
    Object <- OneRecord
    Needs <- NoNeeds
    Rejects = {}
    Guarded = {3}
    Workers = {w1, w2}
    Requests = {s1, s2}
    Nobody = Nobody
    MaxRetries = 1
    MaxFaults = 2
SPECIFICATION Spec
CHECK_DEADLOCK FALSE
SYMMETRY Symmetry
INVARIANTS TypeOK SyncedIsApplied PulledOrReturned
PROPERTY DeliveryHolds
