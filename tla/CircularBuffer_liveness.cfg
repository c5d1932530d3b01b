SPECIFICATION FairSpec
CONSTANTS
    NoThread = NoThread
    Threads = {t1, t2}
    BlockCnt = 2
    BlockSize = 2
    EventSizes = {1, 2}
    MaxEvents = 2
    Signals = FALSE
PROPERTIES
    FullBlockReachesFile
    AppendReturns
    CaughtUpClose
CHECK_DEADLOCK FALSE
