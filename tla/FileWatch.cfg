\* Two contents and two writes or removals, by Resterm or by others: an event
\* can be queued, handled late, dropped, or overtaken by a save.
CONSTANTS
    Contents = {1, 2}
    MaxWrites = 2
    OutCap = 1
    ChanCap = 1
SPECIFICATION WatchFairSpec
PROPERTIES
    EditsKept
    ChangeNoticed
