SPECIFICATION BluezSpec
CONSTANTS
    MaxConns = 1
    MaxSent = 1
    MaxQueued = 2
    Deadline = 1
    Disconnects = TRUE
INVARIANTS LinkHasOwner
CHECK_DEADLOCK FALSE
