SPECIFICATION PinSpec
CONSTANTS
    Threads = {t1, t2}
    NoThread = NoThread
    Functions = {f, g}
    NoFunction = NoFunction
    BlockSize = 260
    MaxSteps = 6
    MaxDepth = 3
INVARIANTS PinTypeOK DepthCounts WholeLog NoneMissed OnlyImpactful
PROPERTY LockReleased
CHECK_DEADLOCK FALSE
