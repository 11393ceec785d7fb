SPECIFICATION Spec
CONSTANTS
    Frame = {f1, f2}
    MaxWire = 1
    MaxLane = 1
    Possible = {"corrupt", "senderRestart"}
    MaxEvents = 2
PROPERTIES Closes
CHECK_DEADLOCK FALSE
