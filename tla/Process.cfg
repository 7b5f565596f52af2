CONSTANTS
    MaxPid = 5
    ZombieLimit = 2
    WaitAny = FALSE
    Inputs = {"fork", "wait", "kill", "exit", "ctrl-c"}
SPECIFICATION Spec
INVARIANTS
    TypeOK
    ListsExclusive
    NoTaskLost
    KernelThreadsImmortal
    WaiterHasLiveChild
    ReaperOwnsZombie
    OnlyCollectorFaults
PROPERTIES
    DeadStaysDead
