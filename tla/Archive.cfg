SPECIFICATION Spec
CONSTANTS
    FrameSet = {"s"}
    Member <- oneSet
    Light = {1}
    Moved = {1, 3}
    Base <- zipNames
    Guarded = TRUE
    MaxOps = 2
    MaxSuffix = 2
    MaxQueue = 1
    MaxTrouble = 2
INVARIANTS TypeOK FramesKept CatalogFinds
PROPERTIES ForeignZipsKept Settles
CHECK_DEADLOCK FALSE
