SPECIFICATION Spec
CONSTANTS
    MaxLines = 2
    Window = 1
    Options <- SmallOptions
INVARIANT ReasonIsWhole
CHECK_DEADLOCK FALSE
