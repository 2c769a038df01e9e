CONSTANTS
    HalfMod = 64
    OffsetMod = 8
    Files <- MCFiles
    Image <- MCImage
    BufferSize = 20
    Processed = 2
    Low = 24
    Blocks = 4
    BlockSize = 8
    RamSize = 76
    Stale <- MCStale
    MaxLoads = 3
SPECIFICATION FairSpec
INVARIANTS
    TypeOK
    LoadedAsLinked
PROPERTIES
    WritesStayInside
    LoadEnds
CHECK_DEADLOCK FALSE
