SPECIFICATION Spec
CONSTANTS
    Boot = boot
    KThreads = {boot}
    Users = {u1, u2}
    STACK = 512
    SizeOf <- WordsOf
    MaxDepth = 62
    MaxTicks = 1
    MaxNest = 4
SYMMETRY Symmetry
INVARIANTS TypeOK SuspendedIsResumable SyscallsGiveStackBack
