SPECIFICATION FairSpec
CONSTANTS
    script = script
    console = console
    Senders <- TwoSenders
    Script = script
    MaxMsgs = 2
    MaxRecv = 0
    MaxFaults = 1
    Kinds = {"data"}
    QueueCap = 1
INVARIANT OkIsRecorded
PROPERTIES CancelEndsAll
CHECK_DEADLOCK FALSE
