SPECIFICATION BridgeSpec
CONSTANTS
    b0 = b0
    b1 = b1
    c0 = c0
    c1 = c1
    k1 = k1
    k2 = k2
    None = None
    MaxShots = 1
    BallBytes <- FewBalls
    ClubBytes <- FewClubs
    DevStates = {0, 4}
    HeartbeatInterval = 1
    MaxUnanswered = 2
    Clubs = {k1, k2}
    Faults = {}
    MaxFaults = 1
    AfterError = {"closed"}
    Prompt = FALSE
    MaxNotes = 0
    MaxBacklog = 2
    Latency = 0
    MaxSessions = 1
    MaxConns = 1
    MaxShotNumber = 1
    Percents = {50}
    IoFails = FALSE
INVARIANTS NeverFalselyReady NumbersFollowShots ClubFollowed

SYMMETRY ClubSymmetry
