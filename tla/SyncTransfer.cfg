SPECIFICATION Spec
CONSTANTS
    Frame = {f1, f2}
    MaxWire = 2
    MaxLane = 1
    Possible = {"corrupt", "lose", "fail", "senderRestart", "receiverRestart", "cancel", "resend", "decline", "delete", "remove", "vanish"}
    MaxEvents = 2
INVARIANTS TypeOK NoPhantomDecline AbortsAreQueued
PROPERTIES Delivers ClosesIfLogFits RowsSettle
CHECK_DEADLOCK FALSE
