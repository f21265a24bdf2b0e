\* Progress of the program, with a fence that only grows. It stops when it is done, or with
\* a second frame that shows nothing.
CONSTANTS
    FrameCount = 3
    NoJob = NoJob
    RewindAllowed = FALSE
    CallsFail = FALSE
    FenceBound = 80
    PendingBound = 80
    Sources = {"images", "video"}
    FrameNums = {1, 2, 3}
    Unreadables = {{}, {2}}
    VariableRate = FALSE
SPECIFICATION LiveSpec
PROPERTIES
    IsLiveFrameStream
    Terminates
CHECK_DEADLOCK FALSE
