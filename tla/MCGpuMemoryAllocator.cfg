\* Pages of four segments of two bytes; blocks of one to four segments and a large one.
CONSTANTS
    SegmentSize = 2
    PageSize = 8
    Sizes = {1, 3, 4, 8, 9}
    Alignments = {1, 2}
    MaxPages = 2
    MaxBlocks = 5
    FenceBound = 2
SPECIFICATION Spec
INVARIANTS
    PagePartition
    FreeListsCoalesced
PROPERTIES
    StalledUntilCompleted
CHECK_DEADLOCK FALSE
