SPECIFICATION Ps2Spec
CONSTANTS
    DataBits = 1
    Depth = 4
    BreakCode <- MCBreak
INVARIANTS
    Ps2TypeOK
    ReadyMeansWaiting
PROPERTIES
    FlagBeforeLoss
    ImplementsScanFifo
