CONSTANTS
    Chunk = {a, b}
    NoChunk = NoChunk
    Bin = Bin
    Shift = 2
    NTreeBins = 2
    Bits = 6
    IndexBits = 3
    ChunkSizes = {5, 8, 12, 36}
SPECIFICATION Spec
INVARIANTS BestFit
