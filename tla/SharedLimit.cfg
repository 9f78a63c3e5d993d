\* Two elements under one global rate limit; timer callbacks are not
\* overtaken.  Neither element is stranded or starved.
SPECIFICATION LoggedLiveSpec
CONSTANTS
    d1 = d1
    d2 = d2
    Dims <- Pair
    ControlStyle = "Normal"
    FeedbackStyle = "Normal"
    ControlDelay = 1
    QuarantineDelay = 2
    RetryCount = 2
    Threshold = 0
    MaxStep = 0
    Flags = {}
    Minimum = 0
    Maximum = 1
    StepsLower = 0
    StepsUpper = 0
    SetVals = {1}
    StepVals = {}
    Commands = FALSE
    ReportVals = {0, 1}
    ReportKinds = {}
    MaxBatch = 1
    RateLimit = 2
    DefaultValid = TRUE
    QueueCap = 4
    MaxFiring = 2
    MaxStrays = 0
INVARIANTS NeverStranded
PROPERTIES Settles CommandsSpaced
