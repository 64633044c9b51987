SPECIFICATION LibrarySpec
CONSTANTS
    Few = 3
    Limit = 4
    BufferSlots = 2
    Nodes = 12
    Payloads = {a, b, c}
    None = None
    FifoLimit = 5
    VectorLimit = 4
    Elements = {1, 2}
    Words <- MCWords
    Blocks = 7
    RingMinCapacity = 2
    RingMaxCapacity = 4
    RingCapacities = {0, 4, 8}
    MaxObjects = 5
    PacketLimit = 4
    TableLimit = 3
    SideLimit = 9
    HilbertLevels = 3
    LongestList = 5
    LongestRow = 10
INVARIANTS
    SlotsAgree
    BalancedInOrder
    OrderedSlotsAgree
    ObjectsKept
    ContentsKept
    OwnedOnce
    AlgorithmsAgree
PROPERTIES
    ImplementsSlotLists
    ImplementsOrderedSlotLists
CHECK_DEADLOCK FALSE
