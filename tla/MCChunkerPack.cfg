SPECIFICATION Spec
CONSTANTS
    ChunkSize = 4
    Overlaps = {0, 2}
    SepLen = 1
    Blanks <- MCBlanks
    Documents <- MCDocuments
INVARIANT TextCovered
INVARIANT OverlapBounded
INVARIANT NothingRedundant
INVARIANT IndexesNumberChunks
INVARIANT ChunksBounded
