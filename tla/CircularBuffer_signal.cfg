SPECIFICATION FairSpec
CONSTANTS
    NoThread = NoThread
    Threads = {t1}
    BlockCnt = 2
    BlockSize = 2
    EventSizes = {1, 2}
    MaxEvents = 3
    Signals = TRUE
PROPERTY HandlerFlushes
CHECK_DEADLOCK FALSE
