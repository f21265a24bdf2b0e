\* A debug build, which falls back to WARP; frames at and around every limit.
CONSTANTS
    AdapterLists <- UpToThree
    Debug = TRUE
    FrameCount = 2
    ShaderCount = 5
    None = None
    Warp = Warp
    SizeRanges <- Estimators
    Widths <- FrameWidths
    Heights <- FrameHeights
SPECIFICATION GeneratorSpec
INVARIANTS
    FirstUsableTaken
    NoShadersAlone
    SizesInLimits
    VectorsMatchPlaces
PROPERTIES
    SearchEnds
CHECK_DEADLOCK FALSE
