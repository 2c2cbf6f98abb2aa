SPECIFICATION Spec
CONSTANTS
    Machines <- MCMachines
    MaxOwned = 3
INVARIANTS
    TypeOK
    MemoryDivided
    StrayBitsMissHeap
    UsedFollowsBits
    ReservedFramesStay
CHECK_DEADLOCK FALSE
