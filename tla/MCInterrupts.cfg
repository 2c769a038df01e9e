CONSTANTS
    Lines <- MCLines
    Numbers <- MCNumbers
    MaxSectors = 2
    MaxCalls = 1
    MaxDepth = 3
SPECIFICATION FairSpec
INVARIANTS
    TypeOK
    ResultReachesCaller
    MistakenOnlyAtBoot
    WordsOnlyWhenReady
PROPERTIES
    CallsAreNotCut
    KeysAreRead
CHECK_DEADLOCK FALSE
