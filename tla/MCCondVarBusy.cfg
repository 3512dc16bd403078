\* A thread that nobody signals polls for ever.
CONSTANTS
    t1 = t1
    t2 = t2
    t3 = t3
    Thread <- MCThread
    NoThread = NoThread
    THREAD_MAX = 3
SPECIFICATION FairSpec
CHECK_DEADLOCK FALSE
PROPERTIES
    SignalsRelease
