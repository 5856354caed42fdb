CONSTANTS
    Granularity = 16
    Regions = 2
    MinLarge = 4
    TrimThreshold = 12
    ReleaseRate = 2
    Requests = {2, 5}
    Alignments = {}
    Limits = {10, 48}
    MaxBlocks = 3
SPECIFICATION Spec
PROPERTIES ImplementsAllocator FootprintLimited
