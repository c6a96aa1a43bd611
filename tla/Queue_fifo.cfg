\* A ring of two units under every call sequence, peeking at the front.
CONSTANTS
    a = a
    b = b
    Values <- MC_Values
    BufferUnits = 2
    SizeBits = 2
    MaxCount = 3
    PeekIndices = {0}
SPECIFICATION Spec
INVARIANTS
    TypeOK
    ChunksCoverQueue
PROPERTIES
    QueueRefinesFifo
