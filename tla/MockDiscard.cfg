\* Two contents that compile and one that does not, three edits or writes: a
\* source can break and be mended, and change again while a reload runs.
CONSTANTS
    Texts = {t1, t2, bad}
    Bad = bad
    Nothing = Nothing
    MaxChanges = 3
    MaxCommands = 2
SPECIFICATION FairSpec
PROPERTIES
    AlwaysFollows
