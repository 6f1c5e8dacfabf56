\* EntryIsAdopted does not hold: the response of a profile run, or of a workflow
\* or compare run that was cancelled, is consumed without being bound to its
\* stream, whose registry entry stays until the workspace changes.
CONSTANTS
    p1 = p1
    c1 = c1
    s1 = s1
    Publishers = {p1}
    Closers = {c1}
    Subscribers = {s1}
    Reader = s1
    BufferSize = 2
    ListenerBuffer = 1
    Policies = {"DropNewest"}
    MaxEvents = 2
    StreamChan = 2
    MaxLive = 1
    MaxMoves = 1
SPECIFICATION LiveSpec
CHECK_DEADLOCK FALSE
PROPERTIES
    EntryIsAdopted
