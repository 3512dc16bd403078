CONSTANTS
    a = a
    b = b
    w = w
    x = x
    Thread = {a, b, w, x}
    None = None
    Scenes <- MCScenes
    MailboxPort = {0, 1}
    KMAILBOX_MAX = 4
    WireSlots = 2
    MaxWrites = 2
    PortalPort = {0, 1}
    Output = {1, 2, 3}
    OutNode <- MCOutNode
    OutTo <- MCOutTo
    KPORTAL_MAX = 2
    Tid <- MCTid
    SYS_THREAD_MAX = 2
    THREAD_MAX = 4
SPECIFICATION FairSpec
INVARIANTS
    CountersTell
    WholeMessages
    AllowsTell
    OwnInput
PROPERTIES
    IsChannel
    ReadReturns
    TransfersEnd
\* Readers wait for messages that nobody writes.
CHECK_DEADLOCK FALSE
