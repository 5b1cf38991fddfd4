SPECIFICATION BitmapSpec
CONSTANTS
    ChunkSize = 3
    Chunks = 3
    MaxSize = 5
    Null = Null
INVARIANTS
    BitmapTypeOK
    TestExact
    LinksSound
    ChunksLive
