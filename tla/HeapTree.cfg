CONSTANTS
    Chunk = {a, b, c, d, e}
    NoChunk = NoChunk
    Bin = Bin
    Shift = 3
    NTreeBins = 2
    Bits = 6
    IndexBits = 3
    ChunkSizes = {8, 9, 11, 14, 16, 24, 40}
SPECIFICATION Spec
SYMMETRY Symmetry
INVARIANTS TreeChecks BestFit
PROPERTIES ImplementsBins
