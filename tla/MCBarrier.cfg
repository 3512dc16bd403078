\* Three scenes, of three nodes and of one.  A thread that stops calling barrier_wait leaves the
\* others waiting.
CONSTANTS
    a = a
    b = b
    q = q
    r = r
    Arrival = Arrival
    Departure = Departure
    Node <- MCNode
    Thread <- MCThread
    NoThread = NoThread
    NodeOf <- MCNodeOf
    Sync <- MCSyncs
    NoSync = NoSync
    Kind <- MCKind
    Master <- MCMaster
    Members <- MCMembers
    KSYNC_MAX = 2
    InboxSlots = 1
    Faults = TRUE
    MaxRefs <- MCMaxRefs
    Uses <- MCUses
    MaxSignals <- MCMaxSignals
    MaxRounds = 3
    Scenes <- MCScenes
SPECIFICATION FairBarrierSpec
CHECK_DEADLOCK FALSE
INVARIANTS
    Quiescent
    NothingLost
    EarlyOnlyAfterError
    RefsHeld
PROPERTIES
    IsRendezvous
    Meets
