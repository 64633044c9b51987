SPECIFICATION FairSpec
CONSTANTS
    Packages = {"bg_file_io", "bg_conditioning", "application"}
    KMaxPredicateWord = 1
    KOwnedCapacity = 1
INVARIANTS
    NothingSleptThrough
    StartedIsReady
    VerdictIsTrue
    NobodyLeftBehind
PROPERTIES
    LentIsKept
    HostReturns
\* host() returns, and its threads end.
CHECK_DEADLOCK FALSE
