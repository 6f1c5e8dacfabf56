SPECIFICATION FairSpec
CONSTANTS
    MaxRuns = 2
    UserKinds <- MCAll
    Items = 2
    ChanCap = 1
INVARIANTS ReportedOnce ReportsOwnItems ReportIsComplete
PROPERTY CanceledRunEnds
CHECK_DEADLOCK FALSE
