\* Three slots as in the code; two frames are on the GPU at once. The frames of a video
\* differ in timespan, so that a constant written too early shows. The heap holds as many
\* descriptors as the five shaders need. The program stops when it is done.
CONSTANTS
    FrameCount = 3
    NoJob = NoJob
    RewindAllowed = TRUE
    CallsFail = FALSE
    FenceBound = 80
    PendingBound = 80
    Sources = {"images", "video"}
    FrameNums = {1, 2, 4}
    Unreadables = {{}}
    VariableRate = TRUE
    HeapSize = 48
SPECIFICATION ProgramSpec
INVARIANTS
    CommandsFindTheirStates
    QueuesKeepApart
    DispatchesFindTheirInputs
    OneTimespanLate
CHECK_DEADLOCK FALSE
