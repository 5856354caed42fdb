CONSTANTS
    MaxThreads = 4
    KickMultiMayShrink = FALSE
SPECIFICATION FairSpec
INVARIANTS RunsExactlyOnce
PROPERTIES ImplementsFairForkJoin
