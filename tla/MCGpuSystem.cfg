\* Safety with a fence that a lagging queue may set back. Two slots, so that the bounds
\* let a slot come around while both queues still hold lists of it.
CONSTANTS
    FrameCount = 2
    Jobs = {}
    NoJob = NoJob
    RewindAllowed = TRUE
    CallsFail = FALSE
    FenceBound = 4
    PendingBound = 6
SPECIFICATION Spec
INVARIANTS
    TypeOK
    FenceOrder
    DrainedOnReturn
PROPERTIES
    PacedBySomeQueue
CHECK_DEADLOCK FALSE
