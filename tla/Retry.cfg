\* One smoothed Normal parameter with feedback: sets in and out of range, every kind
\* of report, overlapping timer callbacks.
SPECIFICATION LoggedSpec
CONSTANTS
    d1 = d1
    d2 = d2
    Dims <- Single
    ControlStyle = "Normal"
    FeedbackStyle = "Normal"
    ControlDelay = 1
    QuarantineDelay = 2
    RetryCount = 2
    Threshold = 0
    MaxStep = 1
    Flags = {}
    Minimum = 0
    Maximum = 2
    StepsLower = 0
    StepsUpper = 0
    SetVals = {0, 2, 3}
    StepVals = {1}
    Commands = TRUE
    ReportVals = {0, 1, 2}
    ReportKinds = {"invalid", "available", "other"}
    MaxBatch = 1
    RateLimit = 0
    DefaultValid = FALSE
    QueueCap = 2
    MaxFiring = 2
    MaxStrays = 1
INVARIANTS TypeOK AssumedCoherent SettledIsTold CommandsBounded
PROPERTIES GiveUpSound CommandedTargetHolds
