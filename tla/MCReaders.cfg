\* Two surfaces of two planes for four samples: surfaces are used again while copies wait.
\* Every small directory. Two slots for the frames. A reader stops at the end.
CONSTANTS
    Surfaces = {s1, s2}
    Timestamps <- Stamps
    Planes = 2
    GapBound = 1
    Directories <- SmallDirectories
    Sizes = {"small", "large"}
    FrameCount = 2
    None = None
SPECIFICATION ReadersSpec
INVARIANTS
    VideoFramesWhole
    TimespansAddUp
    ShownFromSlot
    PaddedNamesInOrder
PROPERTIES
    InputEnds
CHECK_DEADLOCK FALSE
