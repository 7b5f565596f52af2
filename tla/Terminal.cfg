SPECIFICATION Spec
CONSTANTS
    Letters = {"a"}
    Specials = {"Shift", "Ctrl"}
    Readers = {r1, r2}
    ReadSizes = {1, 2}
    MaxBuf = 3
    MaxUnder = 1
    MaxHeld = 2
CONSTRAINT Explored
SYMMETRY Symmetry
INVARIANTS TypeOK NoGhostKeys TypedIsKept LineIsReady
CHECK_DEADLOCK FALSE
