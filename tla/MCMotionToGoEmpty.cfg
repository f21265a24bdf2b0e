\* An input without frames.
CONSTANTS
    FrameCount = 3
    NoJob = NoJob
    RewindAllowed = FALSE
    CallsFail = FALSE
    FenceBound = 80
    PendingBound = 80
    Sources = {"images", "video"}
    FrameNums = {0}
    Unreadables = {{}}
    VariableRate = FALSE
SPECIFICATION Spec
INVARIANTS
    TextureExists
CHECK_DEADLOCK FALSE
