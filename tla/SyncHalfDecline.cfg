SPECIFICATION Spec
CONSTANTS
    Frame = {f1, f2}
    MaxWire = 1
    MaxLane = 1
    Possible = {"corrupt", "decline", "receiverRestart"}
    MaxEvents = 3
PROPERTIES Delivers
CHECK_DEADLOCK FALSE
