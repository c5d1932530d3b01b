SPECIFICATION MCAllSpec
CONSTANTS
    MAX_RANGE = 3
    NoValue = NoValue
    Tids <- MCTids
    SSADependencies <- MCSSADependencies
    IsPointer = {}
    MaxArgs = 1
    CallInst <- MCCallInst
    Blocks <- MCBlocks
    NextBlocks <- MCNextBlocks
    BBGraph <- MCBBGraph
    BB2Ins <- MCBB2Ins
    PhiDependencies <- MCPhiDependencies
    TerminatorInst <- MCTerminatorInst
    ReturnInst <- MCReturnInst
    ReturnVoid <- MCReturnVoid
    OneSuccessor <- MCOneSuccessor
    Ignorable <- MCIgnorable
INVARIANTS
    PostDominatorsMatch
    MainTypeOK
    DependenciesKept
    LateDependenciesKept
    KeptForAReason
    BranchesKept
    CallsKept
    ReportsMatch
CHECK_DEADLOCK FALSE
