CONSTANTS
    TotalBlocks = 5
    BlockSize = 2
    WordMod = 14
    PoolStart = 4
    Sizes <- MCSizes
SPECIFICATION Spec
PROPERTIES
    RefusesWhatDoesNotFit
