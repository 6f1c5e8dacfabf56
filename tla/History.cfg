\* Two processes, one entry beside an imported one, two faults: a database can
\* go bad and its recovery be cut, or its successor go bad too.
CONSTANTS
    p1 = p1
    p2 = p2
    Procs = {p1, p2}
    Rows = {r1}
    Legacy = {l1}
    MaxFiles = 3
    MaxFaults = 2
CHECK_DEADLOCK FALSE
SYMMETRY AnyProcess
SPECIFICATION HistorySpec
INVARIANTS
    EntriesKept
    DeletedStaysAway
