\* Heaps of five descriptors; blocks from one descriptor to the whole heap; fence values
\* enough for a heap where one range may be given back and another still waits.
CONSTANTS
    PageSize = 5
    Sizes = {1, 2, 5}
    MaxPages = 2
    MaxBlocks = 5
    FenceBound = 3
SPECIFICATION Spec
INVARIANTS
    HeapPartition
    DescriptorsStayPut
CHECK_DEADLOCK FALSE
