SPECIFICATION HungSpec
CONSTANTS
    j1 = j1
    j2 = j2
    j3 = j3
    Job = {j1, j2, j3}
    Limits = {1, 2}
    Backstop = FALSE
    DirectCancel = FALSE
SYMMETRY JobSymmetry
INVARIANT NoLostWakeup
PROPERTY FairAdmission
CHECK_DEADLOCK FALSE
