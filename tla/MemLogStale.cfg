CONSTANTS
    Threads = {t1, t2, t3}
    NoThread = NoThread
    EventsPerPage = 1
    MaxNumPages = 2
    MaxLogs = 2
    MayStall = TRUE
SPECIFICATION Spec
INVARIANTS NoStaleAccess
CHECK_DEADLOCK FALSE
