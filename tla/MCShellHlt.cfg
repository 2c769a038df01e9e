CONSTANTS
    c = c
    e = e
    CR = CR
    LF = LF
    Space = Space
    NUL = NUL
    Limit = 4
    Before <- MCBefore
    Between <- MCBetween
    Rests <- MCRests
    Keys <- MCKeys
    Backspace = Backspace
    Enter = Enter
    BufSize = 3
    Cls <- MCCls
    Help <- MCHelp
    BatNames <- MCBatNames
    Files <- MCFiles
    Programs <- MCPrograms
    Halting <- MCHalting
    Script <- MCScript
    MaxLines = 2
SPECIFICATION Spec
INVARIANTS
    HaltIsTrapped
CHECK_DEADLOCK FALSE
