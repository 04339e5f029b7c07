SPECIFICATION RemindersSpec
CONSTANTS
    Events = {e1}
    Offsets = {0, 1}
    Default = 1
    Starts = {2, 3}
    Runs = {r1, r2}
    Band = 1
    Limit = 1
    SnoozeFor = 3
    MaxTime = 4
    MaxSaves = 1
    MaxSnoozes = 1
    MaxMishaps = 1
SYMMETRY Symmetry
INVARIANTS
    PushesAccounted
    SnoozeKept
    SeenInBand
CHECK_DEADLOCK FALSE
