SPECIFICATION Spec
CONSTANTS
    N = 3
    Request = {q1, q2}
    Possible = {"refuse", "lose", "noRebuild", "noReset", "restart"}
    MaxEvents = 3
INVARIANTS TypeOK Accounted PayloadKept
PROPERTIES Freed
CHECK_DEADLOCK FALSE
