SPECIFICATION Spec
CONSTANTS
    N = 2
    MaxRung = 1
    Possible = {"refuse", "defer", "vanish", "duplicate", "reject", "lose", "cancel", "resend", "kick", "kickAll", "beacon", "restart"}
    MaxEvents = 2
INVARIANTS TypeOK SleepersAreParked ParkedByAbsence ProbingUnlessEnded
PROPERTIES ServedIfProbing
