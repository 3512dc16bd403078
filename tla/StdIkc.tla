------------------------------- MODULE StdIkc -------------------------------
(***************************************************************************)
(* The standard input mailbox and the standard input portal of a thread,   *)
(* ikc/stdmailbox.c and ikc/stdportal.c, over the mailboxes of one build   *)
(* and the portals of the other.  Each thread has its own entry in an      *)
(* array, and its own port.  Nothing protects the arrays: the return of    *)
(* kmailbox_create or kportal_create and the assignment to the entry are   *)
(* one action, since nobody else uses the entry.                           *)
(***************************************************************************)
EXTENDS Mailbox, Portal, Integers

CONSTANTS
    Tid,               \* external [thread]: kthread_self()
    SYS_THREAD_MAX, THREAD_MAX

\* "Kernel thread ? 0 else port".
stdinbox_get_port(t) ==
    LET port == Tid[t] - (SYS_THREAD_MAX - 1) IN IF port <= 0 THEN 0 ELSE port

\* External: one kernel thread at most uses the standard facilities, and the kernel
\* gives no tid beyond those for which the arrays have an entry.
ASSUME TidAssumption ==
    /\ THREAD_MAX \in Nat /\ SYS_THREAD_MAX \in Nat /\ Tid \in [Thread -> Nat]
    /\ \A t \in Thread : stdinbox_get_port(t) <= THREAD_MAX
    /\ \A t, u \in Thread : t # u => stdinbox_get_port(t) # stdinbox_get_port(u)

\* An instance is of the build with mailboxes only, or of the other.  Some threads
\* use the standard facilities only, and the others the modules under them.
ASSUME StdSceneAssumption ==
    \A c \in Scenes :
        /\ c.build \in {"mailbox", "portal"} /\ c.std \subseteq c.who
        /\ \A t \in c.std : stdinbox_get_port(t) \in
              (IF c.build = "mailbox" THEN MailboxPort ELSE PortalPort)

VARIABLES
    stdin,       \* [port]: __stdinbox or __stdinportal, None for what is negative
    setup,       \* [thread]: whether it is inside __stdmailbox_setup or __stdportal_setup
    standing,    \* history: the threads that have set up and not cleaned up
    cleaned,     \* history: those that have cleaned up
    again        \* history: a thread has set up once more after it had cleaned up

stdVars == <<stdin, setup, standing, cleaned, again>>
vars == <<processVars, mailboxVars, portalVars, stdVars>>

Init ==
    /\ MailboxInit /\ PortalInit
    /\ stdin = [p \in 0..THREAD_MAX |-> None]
    /\ setup = [t \in Thread |-> FALSE]
    /\ standing = {} /\ cleaned = {}
    /\ again = FALSE

Mailboxes == scene.build = "mailbox"
StdPort(t) == stdinbox_get_port(t)
Resting(t) == mcall[t].at = "idle" /\ pcall[t].at = "idle"

\* A seeded fault: all threads share the first entry.
EntryOfAll(t) == 0

\* The index into the array.
Entry(t) == StdPort(t)

-----------------------------------------------------------------------------
\* The thread has a mailbox already, or had one: its id is returned.  A thread that
\* has cleaned up gets the id that it has given back.
SetupAgain(t) ==
    /\ Resting(t) /\ stdin[Entry(t)] # None
    /\ standing' = standing \cup {t}
    /\ again' = (again \/ t \in cleaned)
    /\ UNCHANGED <<processVars, mailboxVars, portalVars, stdin, setup, cleaned>>

\* __stdmailbox_setup or __stdportal_setup calls kmailbox_create or kportal_create.
Setup(t) ==
    /\ Resting(t) /\ stdin[Entry(t)] = None
    /\ IF Mailboxes THEN kmailbox_create(t, StdPort(t)) /\ UNCHANGED portalVars
       ELSE kportal_create(t, StdPort(t)) /\ UNCHANGED mailboxVars
    /\ setup' = [setup EXCEPT ![t] = TRUE]
    /\ UNCHANGED <<stdin, standing, cleaned, again>>

\* A kernel call that creates fails: the entry stays negative.
SetupFails(t) ==
    /\ Resting(t) /\ stdin[Entry(t)] = None
    /\ OneFails
    /\ UNCHANGED <<mailboxVars, portalVars, stdVars>>

\* The call under the setup returns, and then the setup.
SetupReturns(t) ==
    /\ setup[t]
    /\ IF Mailboxes THEN FlagMailbox(t) /\ UNCHANGED portalVars
       ELSE CreateReset(t) /\ UNCHANGED mailboxVars
    /\ stdin' = [stdin EXCEPT ![Entry(t)] = IF Mailboxes THEN mcall[t].id ELSE pcall[t].id]
    /\ setup' = [setup EXCEPT ![t] = FALSE]
    /\ standing' = standing \cup {t}
    /\ UNCHANGED <<cleaned, again>>

\* __stdmailbox_cleanup and __stdportal_cleanup leave the entry as it is.  Bound: what
\* a thread may remove whose id is no longer its own is not explored.
Cleanup(t) ==
    /\ Resting(t) /\ t \in standing /\ ~again
    /\ IF Mailboxes THEN kmailbox_unlink(t, stdin[Entry(t)]) /\ UNCHANGED portalVars
       ELSE kportal_unlink(t, stdin[Entry(t)]) /\ UNCHANGED mailboxVars
    /\ standing' = standing \ {t}
    /\ cleaned' = cleaned \cup {t}
    /\ UNCHANGED <<stdin, setup, again>>

-----------------------------------------------------------------------------
\* The return of a call under the setup is not a step of its own.
ReturnsToSetup(t) == setup[t] /\ (In(t, "flag") \/ InPortal(t, "reset"))

\* What a thread does once it is inside a call.
Step(t) ==
    \/ SetupReturns(t)
    \/ Mailboxes /\ ~ReturnsToSetup(t) /\ MailboxStep(t) /\ UNCHANGED <<portalVars, stdVars>>
    \/ ~Mailboxes /\ ~ReturnsToSetup(t) /\ PortalStep(t) /\ UNCHANGED <<mailboxVars, stdVars>>

Call(t) ==
    \/ t \in scene.std /\ (SetupAgain(t) \/ Setup(t) \/ SetupFails(t) \/ Cleanup(t))
    \/ t \notin scene.std /\ Mailboxes /\ MailboxCall(t) /\ UNCHANGED <<portalVars, stdVars>>
    \/ t \notin scene.std /\ ~Mailboxes /\ PortalCall(t) /\ UNCHANGED <<mailboxVars, stdVars>>

Fail(t) ==
    \/ MailboxError(t) /\ UNCHANGED <<portalVars, stdVars>>
    \/ (ReadError(t) \/ WriteError(t)) /\ UNCHANGED <<mailboxVars, stdVars>>

Next == \E t \in scene.who : Call(t) \/ Step(t) \/ Fail(t)

\* As in Mailbox and Portal.
Fairness == \A t \in Thread : WF_vars(Step(t))

Spec == Init /\ [][Next]_vars
FairSpec == Spec /\ Fairness

-----------------------------------------------------------------------------
\* The types of the variables.
TypeOK ==
    /\ MailboxTypeOK /\ PortalTypeOK
    /\ stdin \in [0..THREAD_MAX -> MailboxId \cup PortalId \cup {None}]
    /\ setup \in [Thread -> BOOLEAN]
    /\ standing \subseteq Thread /\ cleaned \subseteq Thread /\ again \in BOOLEAN

\* "Gets the kernel standard input mailbox": what the entry of a thread names is the
\* thread's own input, at its own port, from its setup to its cleanup, although the
\* entries of threads that have cleaned up name ids that others have been given.  The
\* code does not ensure it for a thread that sets up again after its cleanup.
OwnInput ==
    ~again => \A t \in standing :
        LET i == stdin[Entry(t)] IN
        IF Mailboxes THEN mailbox[i] = [kind |-> "in", port |-> StdPort(t)]
        ELSE inportal[i] = StdPort(t)

=============================================================================
