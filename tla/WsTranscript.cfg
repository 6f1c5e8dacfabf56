SPECIFICATION Spec
CONSTANTS
    script = script
    console = console
    Senders <- OneSender
    Script = script
    MaxMsgs = 2
    MaxRecv = 2
    MaxFaults = 1
    Kinds = {"data", "close"}
    QueueCap = 1
INVARIANTS AnswerAfterSend FramesInOrder
PROPERTIES FramesKept DoneFreezesTranscript
CHECK_DEADLOCK FALSE
