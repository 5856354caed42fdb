CONSTANTS
    Threads = {t1, t2, t3}
    NoThread = NoThread
    EventsPerPage = 2
    MaxNumPages = 2
    MaxLogs = 2
    MayStall = FALSE
SPECIFICATION FairSpec
INVARIANTS SlotHasOneWriter PageChain IteratorVisitsLog NothingElseLost ProgramOrder
PROPERTIES LoggingMakesProgress
CHECK_DEADLOCK FALSE
