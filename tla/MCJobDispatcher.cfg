CONSTANTS
    MaxThreads = 4
    KickMultiMayShrink = TRUE
SPECIFICATION FairSpec
INVARIANTS NoArrivalLost JoinedBeforeReturn NoThreadOutlivesDispatcher
PROPERTIES MainWritesOnlyWhileWorkersWait EveryCallReturns
