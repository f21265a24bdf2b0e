\* Safety of the program, with a fence that a lagging queue may set back. A frame that cannot be
\* read shows an older one (frame 4) or nothing at all (frame 2).
CONSTANTS
    FrameCount = 3
    NoJob = NoJob
    RewindAllowed = TRUE
    CallsFail = FALSE
    FenceBound = 80
    PendingBound = 80
    Sources = {"images", "video"}
    FrameNums = {1, 2, 3, 4}
    Unreadables = {{}, {2}, {4}}
    VariableRate = FALSE
SPECIFICATION Spec
INVARIANTS
    TypeOK
    OutputComplete
PROPERTIES
    SlotQuiescent
    ResetsIdleAllocators
    IsFrameStream
CHECK_DEADLOCK FALSE
