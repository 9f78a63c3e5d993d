\* A smoothed NoFeedback parameter: rising and falling targets, reports in
\* the middle of a sequence.
SPECIFICATION LoggedSpec
CONSTANTS
    d1 = d1
    d2 = d2
    Dims <- Single
    ControlStyle = "Normal"
    FeedbackStyle = "NoFeedback"
    ControlDelay = 1
    QuarantineDelay = 1
    RetryCount = 0
    Threshold = 0
    MaxStep = 2
    Flags = {}
    Minimum = 0
    Maximum = 5
    StepsLower = 0
    StepsUpper = 0
    SetVals = {0, 3, 5}
    StepVals = {}
    Commands = FALSE
    ReportVals = {0, 4}
    ReportKinds = {"available"}
    MaxBatch = 1
    RateLimit = 0
    DefaultValid = TRUE
    QueueCap = 2
    MaxFiring = 2
    MaxStrays = 1
INVARIANTS AssumedCoherent
PROPERTIES SmoothMoves
