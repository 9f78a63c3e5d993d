\* A timer callback is overtaken between posting its event and forgetting
\* the timer.
SPECIFICATION LoggedSpec
CONSTANTS
    d1 = d1
    d2 = d2
    Dims <- Single
    ControlStyle = "Normal"
    FeedbackStyle = "Normal"
    ControlDelay = 1
    QuarantineDelay = 2
    RetryCount = 2
    Threshold = 0
    MaxStep = 0
    Flags = {}
    Minimum = 0
    Maximum = 1
    StepsLower = 0
    StepsUpper = 0
    SetVals = {0, 1}
    StepVals = {}
    Commands = FALSE
    ReportVals = {0, 1}
    ReportKinds = {}
    MaxBatch = 1
    RateLimit = 0
    DefaultValid = TRUE
    QueueCap = 2
    MaxFiring = 2
    MaxStrays = 1
INVARIANTS NeverStranded
