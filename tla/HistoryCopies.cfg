\* Two processes recover the same database: the second overwrites the copy of
\* the first.
CONSTANTS
    p1 = p1
    p2 = p2
    Procs = {p1, p2}
    Rows = {r1}
    Legacy = {l1}
    MaxFiles = 3
    MaxFaults = 2
CHECK_DEADLOCK FALSE
SPECIFICATION HistorySpec
PROPERTIES
    CopiesKept
