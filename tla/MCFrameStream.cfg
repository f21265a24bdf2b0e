\* The promise by itself: every frame gets its file. It stops when all are written.
CONSTANTS
    Depth = 3
    Sources = {"images", "video"}
    FrameNums = {0, 1, 2, 3, 4, 5, 6}
    Unreadables = {{}, {2}, {4}, {4, 5, 6}}
    VariableRate = TRUE
SPECIFICATION LiveSpec
PROPERTIES
    AllWritten
CHECK_DEADLOCK FALSE
