CONSTANTS
    SectorSize = 4
    SectorsPerCluster = 2
    ReservedSectors = 3
    FatCopies = 2
    SectorsPerFat = 4
    RootDirEntries = 4
    ItemSize = 2
    NameLength = 2
    ExtLength = 1
    WordMod = 4096
    Disks <- MCDisks
    Blocks = 26
    MaxDescriptors = 2
    Paths <- MCPaths
    Modes <- MCModes
    MaxOthers = 7
    MaxHandles = 3
SPECIFICATION Spec
INVARIANTS
    TypeOK
    HandlesStayBound
    StoredItemsAreWhole
    LookupAgrees
    ReadIsExact
PROPERTIES
    OpenSucceeds
    AbstractSpec
CHECK_DEADLOCK FALSE
