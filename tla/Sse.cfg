SPECIFICATION FairSpec
CONSTANTS
    MaxLines = 3
    Window = 2
    Options <- SmallOptions
INVARIANTS SummaryIsRight ReasonIsTrue
PROPERTIES RequestEndsSession
CHECK_DEADLOCK FALSE
