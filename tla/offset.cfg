SPECIFICATION Spec
CONSTANTS
    b0 = b0
    b1 = b1
    b2 = b2
    c0 = c0
    c1 = c1
    None = None
    MaxShots = 1
    BallBytes <- FewBalls
    ClubBytes <- FewClubs
    DevStates = {0}
    HeartbeatInterval = 1
    MaxUnanswered = 3
    Clubs = {k1, k2}
    Faults = {}
    MaxFaults = 1
    AfterError = {"closed"}
    Prompt = FALSE
    MaxNotes = 0
    MaxBacklog = 4
    Latency = 0
    MaxSessions = 1
INVARIANT OffsetOfClubHit
