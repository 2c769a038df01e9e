CONSTANTS
    CellW = 2
    CellH = 1
    Word = 65536
    VGA_WIDTH = 3
    VGA_HEIGHT = 2
    Setups <- MCSetups
    BootText <- MCBootText
    Backspace = "BS"
    Enter = "enter"
    Newline = "NL"
    Blank = "SP"
    Keys <- MCKeys
    BufSize = 4
    Cls <- MCCls
    Help <- MCHelp
    Programs <- MCPrograms
    Banner <- MCBanner
    Prompt <- MCPrompt
    HelpMsg <- MCHelpMsg
    Quote <- MCQuote
    NotRecognized <- MCNotRecognized
    Outputs <- MCOutputs
    MaxKeys = 6
    MaxRushed = 1
SPECIFICATION Spec
INVARIANTS
    TypeOK
    LineIsShown
    DrawnInside
    TextShowsTail
PROPERTIES
    PrintIsStraight
CHECK_DEADLOCK FALSE
