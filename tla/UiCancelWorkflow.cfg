SPECIFICATION FairSpec
CONSTANTS
    MaxRuns = 1
    UserKinds <- MCWorkflow
    Items = 1
    ChanCap = 1
PROPERTY CanceledWorkflowFinalizes
CHECK_DEADLOCK FALSE
