SPECIFICATION Spec
CONSTANTS
    Updaters = {u1, u2}
    Readers = {r}
    None = none
    Period = 3
    Wrap = 10
    Start = 7
    MaxLag = 1
    MaxPause = 1
    MaxRead = 2
    MaxClock = 10
    MaxEvents = 2
SYMMETRY Symmetry
INVARIANTS OneRotator Conservation Window SnapshotReal
PROPERTY TotalSane
CHECK_DEADLOCK FALSE
