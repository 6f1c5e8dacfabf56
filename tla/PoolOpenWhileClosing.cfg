\* What the comment on Pool says about opens during a close.
CONSTANTS
    d1 = d1
    d2 = d2
    k1 = k1
    Dialers = {d1, d2}
    Expiring = {}
    Keys = {k1}
    MaxSessions = 2
SPECIFICATION Spec
INVARIANTS
    NoOpenWhileClosing
