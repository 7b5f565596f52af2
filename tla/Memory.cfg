SPECIFICATION Spec
CONSTANTS
    Procs = {p1, p2}
    NFrames = 4
    Text = {t}
    Data = {}
    Bss = {b}
    Stack = {s}
    HeapMax = 1
    MaxVmas = 5
    Writes = {x}
    KernelWrites = {k}
INVARIANTS TypeOK RefCoversUsers WritableIsPrivate TasksKeepTheirFrames
PROPERTY Refines
CHECK_DEADLOCK FALSE
