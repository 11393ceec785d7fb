SPECIFICATION Spec
CONSTANTS
    FrameSet = {"s"}
    Member <- oneSet
    Light = {1}
    Moved = {1, 3}
    Base <- zipNames
    Guarded = FALSE
    MaxOps = 2
    MaxSuffix = 2
    MaxQueue = 1
    MaxTrouble = 0
INVARIANTS CatalogFinds
CHECK_DEADLOCK FALSE
