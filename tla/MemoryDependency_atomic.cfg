SPECIFICATION Spec
CONSTANTS
    MAX_RANGE = 7
    NoValue = NoValue
    Tids = {1, 2}
    SSADependencies <- MCSSADependencies
    IsPointer <- MCIsPointer
    MaxArgs = 1
    CallInst <- MCCallInst
    Blocks <- MCBlocks
    NextBlocks <- MCNextBlocks
INVARIANT AtomicIsStore
CHECK_DEADLOCK FALSE
