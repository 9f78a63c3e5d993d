\* Two elements of a Oneshot NoFeedback parameter, whose pending values are
\* taken back; reports with a value for each, one of which may be too early.
SPECIFICATION LoggedSpec
CONSTANTS
    d1 = d1
    d2 = d2
    Dims <- Pair
    ControlStyle = "Oneshot"
    FeedbackStyle = "NoFeedback"
    ControlDelay = 1
    QuarantineDelay = 1
    RetryCount = 0
    Threshold = 0
    MaxStep = 0
    Flags = {}
    Minimum = 0
    Maximum = 1
    StepsLower = 0
    StepsUpper = 0
    SetVals = {0, 1}
    StepVals = {}
    Commands = TRUE
    ReportVals = {0, 1}
    ReportKinds = {}
    MaxBatch = 2
    RateLimit = 0
    DefaultValid = TRUE
    QueueCap = 2
    MaxFiring = 1
    MaxStrays = 1
INVARIANTS SettledIsTold
