SPECIFICATION Spec
CONSTANTS
    b0 = b0
    b1 = b1
    b2 = b2
    c0 = c0
    c1 = c1
    None = None
    MaxShots = 2
    BallBytes <- Balls
    ClubBytes <- TwoClubs
    DevStates = {0}
    HeartbeatInterval = 1
    MaxUnanswered = 3
    Clubs = {}
    Faults = {"refused", "timed_out", "read", "identity"}
    MaxFaults = 1
    AfterError = {"open", "closed"}
    Prompt = FALSE
    MaxNotes = 0
    MaxBacklog = 4
    Latency = 0
    MaxSessions = 2
INVARIANTS TypeOK ShotPairing ShotsInOrder ShotInv
PROPERTY ImplementsShotStream
