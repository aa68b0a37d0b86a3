SPECIFICATION Spec
CONSTANTS
    Space = {A, B}
    Va <- MCVa
    Frame = {f}
    Thread = {boot, t}
    Boot = boot
    Null = Null
    pgalloc <- MCpgalloc
    Kernel = Kernel
    Absent = Absent
    UIndex <- MCUIndex
    KIndex <- MCKIndex
    Table = {kpt, p1, p2, p3, p4}
    Kpt = kpt
    KernelTable = KernelTable
    Mem = {m1, m2, m3, m4}
INVARIANTS
    VmeTypeOK
    TablesOwned
    KernelAlwaysMapped
    ListWhole
PROPERTY ImplementsAddressSpace
SYMMETRY Symmetry
CHECK_DEADLOCK FALSE
