SPECIFICATION FairSpec
CONSTANTS
    Generations = 2
    Nobody = nobody
    Waiters = {w1, w2}
    Controller = controller
    KMaxPredicateWord = 1
    AskedValues = {0}
INVARIANT AssertionsHold
PROPERTIES
    ReleaseFreesWaiters
    ControllerGetsThrough
    NativeWaitsEnd
