\* Two threads can wait while the third one signals or broadcasts.  All may end
\* up waiting: the system may really stop.
CONSTANTS
    t1 = t1
    t2 = t2
    t3 = t3
    Thread <- MCThread
    NoThread = NoThread
    THREAD_MAX = 3
    Types = {"normal"}
    MaxDepth = 1
SPECIFICATION FairCondSpec
CHECK_DEADLOCK FALSE
INVARIANTS
    CondAccounted
    SleepersApart
PROPERTIES
    SignalsWake
