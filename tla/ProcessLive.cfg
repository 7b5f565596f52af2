CONSTANTS
    MaxPid = 4
    ZombieLimit = 2
    WaitAny = FALSE
    Inputs = {"fork", "wait", "read", "exit", "enter"}
SPECIFICATION FairSpec
PROPERTIES
    WaiterReturns
    SilentKeyboardRoundRobin
