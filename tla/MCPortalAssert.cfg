\* Two readers of one node: one whose message is in a buffer releases the lock of
\* the other.
CONSTANTS
    r0 = r0
    r1 = r1
    r2 = r2
    r3 = r3
    v1 = v1
    v2 = v2
    w = w
    Node = {0, 1, 2}
    Thread = {r0, r1, r2, r3, v1, v2, w}
    NoThread = NoThread
    NodeOf <- MCNodeOf
    None = None
    Port = {0, 1}
    KPORTAL_MAX = 3
    MPORTAL_BUFFER_MAX = 3
    MPORTAL_BUFFER_SIZE = 1
    MailboxSlots = 1
    Inputs <- MCInputs
    Outputs <- MCOutputs
    Scenes <- AssertScenes
SPECIFICATION Spec
CHECK_DEADLOCK FALSE
INVARIANTS
    AssertionsHold
