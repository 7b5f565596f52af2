CONSTANTS
    MaxPid = 4
    ZombieLimit = 50
    WaitAny = FALSE
    Inputs = {"exit"}
SPECIFICATION Spec
INVARIANT
    ClaimInitIsWoken
