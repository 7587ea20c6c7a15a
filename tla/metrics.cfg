SPECIFICATION MetricsSpec
CONSTANTS
    None = None
    RawFaceImpact = FALSE
    BallSamples <- Balls
    ClubSamples <- Clubs
    OtherFrames <- Others
    Calibrations <- Tables
INVARIANTS MetricsTypeOK FieldsInPlace ToldAsMeasured NothingLost Reencodes ClubUnderstood
