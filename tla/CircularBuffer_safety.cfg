SPECIFICATION Spec
CONSTANTS
    NoThread = NoThread
    Threads = {t1, t2}
    BlockCnt = 2
    BlockSize = 2
    EventSizes = {1, 2}
    MaxEvents = 3
    Signals = TRUE
INVARIANTS
    TypeOK
    OnePlace
    NoDataRace
    LockHolder
 
CHECK_DEADLOCK FALSE
