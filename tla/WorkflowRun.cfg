SPECIFICATION Spec
CONSTANTS
    Plans <- MCPlans
    MaxItems = 2
INVARIANTS StopsAtFailure StepsInOrder SuccessIsComplete ReportsAgree
CHECK_DEADLOCK FALSE
