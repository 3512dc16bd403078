\* Four threads, so that up to three can wait; a recursive mutex nests twice.
CONSTANTS
    t1 = t1
    t2 = t2
    t3 = t3
    t4 = t4
    Thread <- MCThread
    NoThread = NoThread
    THREAD_MAX = 4
    Types = {"normal", "errorcheck", "recursive"}
    MaxDepth = 2
SPECIFICATION FairSpec
INVARIANTS
    Ownership
    NoLostWakeup
    WaitersAccounted
    EnqueueAsserts
PROPERTIES
    DestroyIsSafe
    NoHang
    WakeupEnds
