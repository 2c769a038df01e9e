CONSTANTS
    TotalBlocks = 5
    BlockSize = 2
    WordMod = 14
    PoolStart = 4
    Sizes <- MCSizes
SPECIFICATION Spec
INVARIANTS
    TypeOK
    NoOverlap
    TableIsExact
    LoneOverrun
    ScanIsFirstFit
PROPERTIES
    AbstractSpec
