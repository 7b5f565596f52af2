SPECIFICATION Spec
CONSTANTS
    NPages = 20
    Word = 4
    PMD_T_NUM = 2
    PTE_T_NUM = 5
    ArrayPages = 1
    NormalStart = 10
    NormalEnd = 16
    PhysBase = 4
    PhysFrees = {5, 6, 7}
    Maps <- SmallMaps
    Tasks = {a, b}
    MaxRef = 2
SYMMETRY Symmetry
INVARIANTS TypeOK OnlyStdinPageIsShared SelfMapIsOwn HeldIsCounted
CHECK_DEADLOCK FALSE
