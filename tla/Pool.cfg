\* Two goroutines dial one key; sessions die, expire and refuse to dial at any
\* time, and the pool is closed at any time.
CONSTANTS
    d1 = d1
    d2 = d2
    k1 = k1
    Dialers = {d1, d2}
    Expiring = {k1}
    Keys = {k1}
    MaxSessions = 3
SPECIFICATION FairSpec
INVARIANTS
    SingleOpen
    ReservedCloseExcludesOpen
    NoLeak
PROPERTIES
    WaitersWake
    CloseReleasesAll
