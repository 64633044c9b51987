SPECIFICATION FairSpec
CONSTANTS
    Consumers = {c1, c2}
    Producers = {p1, p2}
    KMaxPermitCount = 2
    ReleaseCounts = {1, 2}
    MaxReleased = 2
INVARIANTS
    SentinelMeansReleased
    PermitsAccounted
    NoLostWakeup
PROPERTIES
    PermitsReachWaiters
    ReleaseFreesWaiters
