SPECIFICATION MetricsSpec
CONSTANTS
    None = None
    RawFaceImpact = FALSE
    BallSamples <- Balls
    ClubSamples <- Clubs
    OtherFrames <- Others
    Calibrations <- Tables
INVARIANT ClubDataKept
