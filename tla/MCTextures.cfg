\* Three subresources in any of four states, up to five commands ahead of the GPU; and
\* every small picture, in a block at the start of its page and in one further on, until
\* it has been copied; two groups of nine threads, of which seven load three cells and two
\* load two.
CONSTANTS
    NumSubResources = 3
    States = {"COMMON", "COPY_DEST", "COPY_SOURCE", "UNORDERED_ACCESS"}
    CommandBound = 3
    Shapes <- SmallShapes
    BlockOffsets = {0, 8}
    RowAlignment = 4
    PageSize = 48
    BlockDim = 3
    KernelRadius = 1
    Grids <- SmallGrids
    RawVectors <- Fields
SPECIFICATION TexturesSpec
INVARIANTS
    CommandsMatch
    OthersKept
    AlignedRoundTrip
    NoSeams
    GroupGoesOn
CHECK_DEADLOCK FALSE
