CONSTANTS
    Lines <- MCLines
    Numbers <- MCNumbers
    MaxSectors = 1
    MaxCalls = 0
    MaxDepth = 1
SPECIFICATION Spec
INVARIANT NothingDrawnAtNull
CHECK_DEADLOCK FALSE
