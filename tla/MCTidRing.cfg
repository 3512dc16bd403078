\* Four threads and four slots: the ring fills up and wraps.
CONSTANTS
    t1 = t1
    t2 = t2
    t3 = t3
    t4 = t4
    Thread <- MCThread
    NoThread = NoThread
    THREAD_MAX = 4
SPECIFICATION RingSpec
INVARIANTS
    SanityChecks
PROPERTIES
    IsFifo
