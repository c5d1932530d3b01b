SPECIFICATION Spec
CONSTANTS
    MAX_RANGE = 7
    NoValue = NoValue
    Tids = {1, 2}
    SSADependencies <- MCSSADependencies
    IsPointer <- MCIsPointer
    MaxArgs = 1
    CallInst <- MCCallInst
    Blocks <- MCBlocks
    NextBlocks <- MCNextBlocks
INVARIANTS
    TypeOK
    AddressesMatch
    PointersMatch
    Calculable
    CrashesOnlyThere
    LastStore
    CollectTiles
    LastWriters
    CountedFromEnd
PROPERTY
    GroupsOnlyGrow
CHECK_DEADLOCK FALSE
