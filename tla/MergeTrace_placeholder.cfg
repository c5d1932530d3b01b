SPECIFICATION Spec
CONSTANTS
    Threads <- MCThreads
    Entry <- MCEntry
    Outer <- MCOuter
    BB2Ins <- MCBB2Ins
    Type <- MCType
    Fun <- MCFun
    Callee <- MCCallee
    Successors <- MCSuccessors
    PointerArgs <- MCPointerArgs
    Impactful = {"h"}
    Globals = 1
    MaxSteps <- MCMaxSteps
    SplitCalls = TRUE
INVARIANT FollowsInFunction
CHECK_DEADLOCK FALSE
