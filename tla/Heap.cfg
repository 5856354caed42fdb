CONSTANTS
    Granularity = 16
    Regions = 3
    MinLarge = 4
    TrimThreshold = 12
    ReleaseRate = 2
    Requests = {2, 3, 9}
    Alignments = {4}
    Limits = {}
    MaxBlocks = 2
SPECIFICATION Spec
INVARIANTS NeverAborts Tiled BoundaryTags BinsHoldFreeChunks SegmentList BlocksAccountedFor EverythingComesBack
