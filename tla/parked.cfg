SPECIFICATION BtleSpec
CONSTANTS
    Callers = {p1, p2}
    MaxOpened = 2
    MaxQueued = 1
    LateConnects = TRUE
    Refuses = FALSE
INVARIANTS NeverHeldParked
