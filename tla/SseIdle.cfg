SPECIFICATION FairSpec
CONSTANTS
    MaxLines = 2
    Window = 1
    Options <- SmallOptions
PROPERTIES IdleEndsSession
CHECK_DEADLOCK FALSE
