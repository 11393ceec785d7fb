SPECIFICATION Spec
CONSTANTS
    FrameSet = {"s", "t"}
    Member <- twoSets
    Light = {1, 2}
    Moved = {1, 2}
    Base <- oneName
    Guarded = FALSE
    MaxOps = 2
    MaxSuffix = 1
    MaxQueue = 1
    MaxTrouble = 1
INVARIANT FramesKept
CHECK_DEADLOCK FALSE
