\* Two changes of the configuration, three signals, two restart calls.
SPECIFICATION Spec
CONSTANTS
    ParentPid = 1
    ExecMayFail = FALSE
    Overlaps = FALSE
    Burst = 0
    MaxVersion = 2
    MaxSignals = 3
    MaxRestarts = 2
    MaxChildren = 3
INVARIANTS OneServer
PROPERTIES CoreSurvives ReloadTakesEffect
CHECK_DEADLOCK FALSE
