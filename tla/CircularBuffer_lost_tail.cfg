SPECIFICATION Spec
CONSTANTS
    NoThread = NoThread
    Threads = {t1}
    BlockCnt = 2
    BlockSize = 2
    EventSizes = {1, 2}
    MaxEvents = 3
    Signals = FALSE
INVARIANT CloseFlushes
CHECK_DEADLOCK FALSE
