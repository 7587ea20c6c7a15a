SPECIFICATION BluezSpec
CONSTANTS
    MaxConns = 2
    MaxSent = 3
    MaxQueued = 2
    Deadline = 2
    Disconnects = FALSE
INVARIANTS BluezTypeOK NothingMissed EndIsBusLost DiscoveryOff
PROPERTIES AttemptsEnd ThreadsEnd
CHECK_DEADLOCK FALSE
