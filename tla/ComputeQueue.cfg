SPECIFICATION HungSpec
CONSTANTS
    j1 = j1
    j2 = j2
    j3 = j3
    Job = {j1, j2}
    Limits = {0, 1, 2}
    Backstop = TRUE
    DirectCancel = TRUE
INVARIANTS TypeOK NoLostWakeup NothingLeaks
PROPERTIES FairAdmission EveryoneIsServed CancelIsNoticed
CHECK_DEADLOCK FALSE
