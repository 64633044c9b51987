SPECIFICATION TransportsSpec
CONSTANTS
    KMinCapacity = 2
    KMaxCapacity = 4
    VectorGrowth <- Growth
    Capacities = {0, 2, 3, 4}
    MaxBatch = 2
    MaxMessages = 5
    MaxModifications = 4
    MaxPublications = 5
    KMinRingCapacity = 2
    KMaxRingCapacity = 4
    RoundUpToPow2 <- RoundUp
    RingCapacities = {0, 2, 3, 5}
    MaxRingBatch = 3
    MaxRingMessages = 7
INVARIANT
    DrainedQueueAccepts
