SPECIFICATION FrpFairSpec
CONSTANTS
    None = None
    MaxConns = 2
    MaxShotNumber = 2
    Percents = {50}
    IoFails = TRUE
INVARIANTS FrpTypeOK ConnectionAccounted ControllerUpToDate ShotsWhole ShotNumbersFresh

PROPERTIES Reconnects GoneNoticed
