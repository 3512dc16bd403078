\* Four threads, three rounds each: the sense of `release' is reused.
\* Threads that stop calling fence() leave the others waiting.
CONSTANTS
    t1 = t1
    t2 = t2
    t3 = t3
    t4 = t4
    Thread <- MCThread
    MaxRounds = 3
SPECIFICATION FairSpec
CHECK_DEADLOCK FALSE
INVARIANTS
    RoundsAgree
PROPERTIES
    IsRendezvous
    Opens
