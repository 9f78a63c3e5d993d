\* A change between the snapshot and the registration of one call.
SPECIFICATION Spec
CONSTANTS
    s1 = s1
    s2 = s2
    none = none
    Params <- OneParam
    Ids <- OneParam
    Sessions = {s1}
    Identifiers = {none}
    NoIdentifier = none
    Filters <- Everything
    Statuses <- NoStatus
    Severities = {"error"}
    MaxVersion = 2
    WatcherCap = 1
    ChanCap = 1
INVARIANTS UpToDate
CHECK_DEADLOCK FALSE
