CONSTANTS
    DirEntries = 2
    Entries = 17
    PageSize = 2
    Pool <- MCPool
    TestPage = 2
    MaxPages = 1
    NextWord = 1
    PrevWord = 2
    MaxProcesses = 2
    ProcessFrames = 2
    StackFrames = 4
    Program = 40
    BinarySizes <- MCBinarySizes
SPECIFICATION Spec
INVARIANTS
    TypeOK
    SpacesAreWholeAndPrivate
    FramesAccounted
    ListHoldsUntilMisled
    ProcessesHaveTasks
PROPERTIES
    AbstractSpec
CHECK_DEADLOCK FALSE
