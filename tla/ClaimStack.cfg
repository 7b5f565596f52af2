SPECIFICATION Spec
CONSTANTS
    Boot = boot
    KThreads = {boot}
    Users = {u1}
    STACK = 512
    SizeOf <- WordsOf
    MaxDepth = 600
    MaxTicks = 1
    MaxNest = 3
INVARIANT ClaimStackHolds
