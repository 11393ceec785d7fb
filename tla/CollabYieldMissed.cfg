SPECIFICATION Spec
CONSTANTS
    v1 = v1
    v2 = v2
    d1 = d1
    d2 = d2
    N = 1
    Version = {v1}
    Device = {d1}
    Holds <- oneDevice
    Personal = {"p1"}
    Limits = {}
    Limit0 = 1
    Streams = {}
    Slots0 = 1
    MaxItem = 4
    MaxRun = 3
    Possible = {}
    MaxEvents = 0
PROPERTY PersonalIsServed
CHECK_DEADLOCK FALSE
