\* Node 0 waits for all others (up) and for node 1 (one), on two threads.
\* Everybody may wait for a signal that nobody sends.
CONSTANTS
    p1 = p1
    p2 = p2
    q = q
    r = r
    up = up
    one = one
    Node <- MCNode
    Thread <- MCThread
    NoThread = NoThread
    NodeOf <- MCNodeOf
    Sync <- MCSyncs
    NoSync = NoSync
    Kind <- MCKind
    Master <- MCMaster
    Members <- MCMembers
    KSYNC_MAX = 2
    InboxSlots = 1
    Faults = TRUE
    MaxRefs <- MCMaxRefs
    Uses <- MCUses
    MaxSignals <- MCMaxSignals
SPECIFICATION Spec
CHECK_DEADLOCK FALSE
INVARIANTS
    BarrierCounts
    SignalsConserved
    EntriesInUse
