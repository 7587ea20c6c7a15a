SPECIFICATION BtleFairSpec
CONSTANTS
    Callers = {p1, p2}
    MaxOpened = 2
    MaxQueued = 1
    LateConnects = TRUE
    Refuses = TRUE
INVARIANTS BtleTypeOK SessionsExclusive RetiredNotReused LinkOwned SessionsBounded
PROPERTIES LossSurfaces
