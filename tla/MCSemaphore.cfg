\* Four threads and values up to 2 (5 with three more up() in progress).
\* Every thread may end up in down(): the system may really stop.
CONSTANTS
    t1 = t1
    t2 = t2
    t3 = t3
    t4 = t4
    Thread <- MCThread
    NoThread = NoThread
    THREAD_MAX = 4
    InitVals = {0, 2}
    INT_MIN <- MCMin
    MaxVal = 2
SPECIFICATION FairSpec
CHECK_DEADLOCK FALSE
INVARIANTS
    NoLostWakeup
PROPERTIES
    NoHang
