\* An Incremental parameter with delayed feedback and an acceptance
\* threshold: increments are managed, absolute values pass the manager.
SPECIFICATION LoggedSpec
CONSTANTS
    d1 = d1
    d2 = d2
    Dims <- Single
    ControlStyle = "Incremental"
    FeedbackStyle = "Delayed"
    ControlDelay = 1
    QuarantineDelay = 2
    RetryCount = 2
    Threshold = 2
    MaxStep = 0
    Flags = {"ValuePassthrough"}
    Minimum = 0
    Maximum = 3
    StepsLower <- MinusOne
    StepsUpper = 1
    SetVals = {0, 3, 4}
    StepVals <- Steps
    Commands = TRUE
    ReportVals = {0, 3}
    ReportKinds = {"available"}
    MaxBatch = 1
    RateLimit = 2
    DefaultValid = TRUE
    QueueCap = 2
    MaxFiring = 2
    MaxStrays = 1
INVARIANTS SettledIsTold
PROPERTIES CommandsSpaced
