\* Every drop policy, a ring that wraps and two closers, with one reader.
CONSTANTS
    p1 = p1
    p2 = p2
    c1 = c1
    c2 = c2
    s1 = s1
    Publishers = {p1, p2}
    Closers = {c1, c2}
    Subscribers = {s1}
    BufferSize = 2
    ListenerBuffer = 1
    Policies = {"DropNewest", "DropOldest", "DropListener"}
    MaxEvents = 3
SPECIFICATION Spec
CHECK_DEADLOCK FALSE
INVARIANTS
    NoOrphan
    AccountedOnce
PROPERTIES
    NoSendOnClosed
    ImplementsContract
