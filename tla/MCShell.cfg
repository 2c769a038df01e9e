CONSTANTS
    c = c
    e = e
    CR = CR
    LF = LF
    Space = Space
    NUL = NUL
    Limit = 4
    Before <- MCBefore
    Between <- MCBetween
    Rests <- MCRests
    Keys <- MCKeys
    Backspace = Backspace
    Enter = Enter
    BufSize = 3
    Cls <- MCCls
    Help <- MCHelp
    BatNames <- MCBatNames
    Files <- MCFiles
    Programs <- MCPrograms
    Halting <- MCHalting
    Script <- MCScript
    MaxLines = 3
SPECIFICATION FairSpec
INVARIANTS
    TypeOK
    ActedUponAtMostOnce
    PatientUserIsServed
    ExecIsHeld
    ScriptLinesAsWritten
PROPERTIES
    PatientLineIsRun
CHECK_DEADLOCK FALSE
