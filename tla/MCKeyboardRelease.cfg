SPECIFICATION Spec
CONSTANTS
    A = A
    UP = UP
    DataBits = 8
    Depth = 8
    CountMod = 256
    ClkNum = 2
    ResetCycles = 10
    Key = {A, UP}
    BreakCode <- MCBreak
    ExtendCode <- MCExtend
    map0 <- MCmap0
    map1 <- MCmap1
    MaxEvents = 2
    MaxToggles = 2
INVARIANT
    ReleasedMeansDark
