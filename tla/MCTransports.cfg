SPECIFICATION TransportsSpec
CONSTANTS
    KMinCapacity = 2
    KMaxCapacity = 4
    VectorGrowth <- Growth
    Capacities = {0, 2, 3, 4}
    MaxBatch = 3
    MaxMessages = 7
    MaxModifications = 4
    MaxPublications = 5
    KMinRingCapacity = 2
    KMaxRingCapacity = 4
    RoundUpToPow2 <- RoundUp
    RingCapacities = {0, 2, 3, 5}
    MaxRingBatch = 3
    MaxRingMessages = 7
INVARIANTS
    NoSharedWrite
    Agreement
    PublishedIntact
    HeldUntilNextPublish
    ReturnIsTrue
    NoSharedSlot
    RingAgreement
PROPERTIES
    ImplementsStream
    EveryMessageArrives
    LatestArrives
    ImplementsFifo
    EveryMessagePasses
