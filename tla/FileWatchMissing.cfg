\* What the modal and the status bar say of a missing file.
CONSTANTS
    Contents = {1, 2}
    MaxWrites = 2
    OutCap = 1
    ChanCap = 1
SPECIFICATION WatchFairSpec
PROPERTY MissingIsTrue
