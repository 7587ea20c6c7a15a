SPECIFICATION Spec
CONSTANTS
    b0 = b0
    b1 = b1
    b2 = b2
    c0 = c0
    c1 = c1
    None = None
    MaxShots = 2
    BallBytes <- TwoTwinBalls
    ClubBytes <- TwoClubs
    DevStates = {0}
    HeartbeatInterval = 2
    MaxUnanswered = 3
    Clubs = {k1}
    Faults = {}
    MaxFaults = 0
    AfterError = {"closed"}
    Prompt = TRUE
    MaxNotes = 1
    MaxBacklog = 4
    Latency = 2
    MaxSessions = 1
INVARIANTS NoFalseDisconnect SilenceBounded OncePerNotification
