\* Progress with a fence that only grows, also where the calls of WaitForGpu fail.
CONSTANTS
    FrameCount = 3
    Jobs = {}
    NoJob = NoJob
    RewindAllowed = FALSE
    CallsFail = TRUE
    FenceBound = 4
    PendingBound = 3
SPECIFICATION LiveSpec
INVARIANTS
    NoLostWakeup
    GpuNotStuck
PROPERTIES
    CallsReturn
CHECK_DEADLOCK FALSE
