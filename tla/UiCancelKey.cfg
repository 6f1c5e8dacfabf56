SPECIFICATION Spec
CONSTANTS
    MaxRuns = 2
    UserKinds <- MCSingle
    Items = 1
    ChanCap = 1
INVARIANT LatestCanBeCanceled
CHECK_DEADLOCK FALSE
