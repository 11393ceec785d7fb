SPECIFICATION Spec
CONSTANTS
    v1 = v1
    v2 = v2
    d1 = d1
    d2 = d2
    N = 1
    Version = {v1}
    Device = {d1}
    Holds <- oneDevice
    Personal = {"p1", "p2", "p3"}
    Limits = {1, 2}
    Limit0 = 2
    Streams = {}
    Slots0 = 1
    MaxItem = 4
    MaxRun = 3
    Possible = {"limit", "abandon"}
    MaxEvents = 3
INVARIANT LaneAccounted
PROPERTIES GrantsWithinLimit PersonalServedIfHeard
CHECK_DEADLOCK FALSE
