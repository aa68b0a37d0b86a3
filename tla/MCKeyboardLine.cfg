SPECIFICATION LineSpec
CONSTANTS
    DataBits = 1
    Depth = 4
    CountMod = 2
    BreakCode <- MCBreak
INVARIANTS
    ReaderKeepsUp
    NoCodeTakenUnseen
