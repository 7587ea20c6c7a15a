SPECIFICATION FairSpec
CONSTANTS
    b0 = b0
    b1 = b1
    b2 = b2
    c0 = c0
    c1 = c1
    None = None
    MaxShots = 1
    BallBytes <- FewBalls
    ClubBytes <- FewClubs
    DevStates = {0, 4}
    HeartbeatInterval = 2
    MaxUnanswered = 3
    Clubs = {}
    Faults = {}
    MaxFaults = 0
    AfterError = {"closed"}
    Prompt = FALSE
    MaxNotes = 0
    MaxBacklog = 3
    Latency = 1
    MaxSessions = 1
INVARIANT WatchdogInv
PROPERTIES DeadLinkSurfaces PendingResolves StateConverges
