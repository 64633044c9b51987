SPECIFICATION AlgorithmsSpec
CONSTANTS
    PacketLimit = 4
    TableLimit = 3
    SideLimit = 9
    HilbertLevels = 3
    LongestList = 5
    LongestRow = 10
INVARIANT RawPermutationsValidated
CHECK_DEADLOCK FALSE
