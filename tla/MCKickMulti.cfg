CONSTANTS
    MaxThreads = 3
    KickMultiMayShrink = TRUE
SPECIFICATION Spec
INVARIANTS KickMultiRunsEveryTarget
