\* Two readers on node 0; even a fair wait_lock lets one of them starve.
CONSTANTS
    p1 = p1
    p2 = p2
    q = q
    r = r
    up = up
    one = one
    Node <- MCNode
    Thread <- MCThread
    NoThread = NoThread
    NodeOf <- MCNodeOf
    Sync <- MCSyncs
    NoSync = NoSync
    Kind <- MCKind
    Master <- MCMaster
    Members <- MCMembers
    KSYNC_MAX = 2
    InboxSlots = 1
    Faults = FALSE
    MaxRefs <- MCOneRef
    Uses <- MCUses
    MaxSignals <- MCOneSignal
SPECIFICATION StrongSpec
CHECK_DEADLOCK FALSE
PROPERTIES
    WaitReturns
