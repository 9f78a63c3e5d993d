\* Filters and resubscription, statuses and their cache.
SPECIFICATION MCSpec
CONSTANTS
    s1 = s1
    s2 = s2
    client = client
    none = none
    Params <- Known
    Ids <- Requested
    Sessions = {s1, s2}
    Identifiers = {client, none}
    NoIdentifier = none
    Filters <- AllFilters
    Statuses <- AllStatuses
    Severities = {"error", "warning"}
    MaxVersion = 2
    WatcherCap = 1
    ChanCap = 1
INVARIANTS NothingLost StatusesAgree
CHECK_DEADLOCK FALSE
