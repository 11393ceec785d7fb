SPECIFICATION Spec
CONSTANTS
    N = 3
    MaxRung = 1
    Possible = {"vanish", "kick"}
    MaxEvents = 2
INVARIANTS Probing
