SPECIFICATION Spec
CONSTANTS
    v1 = v1
    v2 = v2
    d1 = d1
    d2 = d2
    N = 2
    Version = {v1, v2}
    Device = {d1, d2}
    Holds <- eachItsOwn
    Personal = {"p1"}
    Limits = {2}
    Limit0 = 1
    Streams = {0, 2}
    Slots0 = 1
    MaxItem = 4
    MaxRun = 3
    Possible <- everything
    MaxEvents = 1
INVARIANTS TypeOK LaneAccounted NothingStranded ListsKnown TransfersHoldTheLane
PROPERTIES PersonalServedIfHeard FramesLandIfHeard
CHECK_DEADLOCK FALSE
