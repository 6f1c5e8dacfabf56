\* A stream that ends before or after its response, a full message channel, a
\* transcript at its limit and one change of workspace.
CONSTANTS
    p1 = p1
    c1 = c1
    s1 = s1
    Publishers = {p1}
    Closers = {c1}
    Subscribers = {s1}
    Reader = s1
    BufferSize = 2
    ListenerBuffer = 1
    Policies = {"DropNewest"}
    MaxEvents = 2
    StreamChan = 2
    MaxLive = 1
    MaxMoves = 1
SPECIFICATION LiveSpec
CHECK_DEADLOCK FALSE
INVARIANTS
    TranscriptFaithful
    StreamTracked
PROPERTIES
    StreamsSettle
