\* Two calls for one parameter, the second of which may take over the first one's stream.
SPECIFICATION LiveSpec
CONSTANTS
    s1 = s1
    s2 = s2
    none = none
    Params <- OneParam
    Ids <- OneParam
    Sessions = {s1, s2}
    Identifiers = {none}
    NoIdentifier = none
    Filters <- Listed
    Statuses <- NoStatus
    Severities = {"error"}
    MaxVersion = 3
    WatcherCap = 2
    ChanCap = 1
INVARIANTS TypeOK RegisteredIsOpen NothingLost
PROPERTIES FeedsClients Delivers
CHECK_DEADLOCK FALSE
