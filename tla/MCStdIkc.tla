------------------------------ MODULE MCStdIkc ------------------------------
(* Mailboxes and portals of one node, and the standard ones.  Threads w and x *)
(* write from other nodes in the instances of portals.                        *)
EXTENDS StdIkc, TLC

CONSTANTS a, b, w, x

\* The tid of a is one for which the port is 0.
MCTid == (a :> 1) @@ (b :> 2) @@ (w :> 3) @@ (x :> 4)

\* Two outputs of one node, and one of another.
MCOutNode == <<1, 1, 2>>
MCOutTo == <<0, 1, 0>>

Nobody == [t \in Thread |-> {}]
Nothing == [
    errors |-> 0, std |-> {},
    mailbox |-> [i \in MailboxId |-> None], held |-> Nobody, ids |-> {}, mailboxes |-> 0,
    writes |-> 0,
    inportal |-> [i \in PortalId |-> None], reads |-> Nobody, writers |-> Nobody, opens |-> {},
    portals |-> 0, messages |-> 0, pieces |-> 2]

\* Mailboxes are created, opened, used, unlinked and closed by two threads, with two
\* ids between them.
MailboxLives ==
    [who |-> {a, b}, build |-> "mailbox", ids |-> {0, 1}, mailboxes |-> 3, writes |-> 1]

\* Two readers with a port each, a writer to both, and a kernel call that fails.
In_(p) == [kind |-> "in", port |-> p]
Out_(p) == [kind |-> "out", port |-> p]
MailboxTraffic ==
    [who |-> {a, b, w}, build |-> "mailbox", errors |-> 1, writes |-> 2,
     mailbox |-> (0 :> In_(0)) @@ (1 :> In_(1)) @@ (2 :> Out_(0)) @@ (3 :> Out_(1)),
     held |-> [Nobody EXCEPT ![a] = {0}, ![b] = {1}, ![w] = {2, 3}]]

\* Two threads with standard mailboxes, which get the ids that the other gives back.
StdMailbox ==
    [who |-> {a, b}, build |-> "mailbox", errors |-> 1, std |-> {a, b}, ids |-> {0, 1},
     mailboxes |-> 4]

\* Portals are created, opened, used, unlinked and closed.
PortalLives ==
    [who |-> {a, b, w}, build |-> "portal", writers |-> [Nobody EXCEPT ![w] = {1}],
     opens |-> {1}, portals |-> 2, messages |-> 1]

\* Two readers that meet each other's pieces.
PortalTraffic ==
    [who |-> {a, b, w, x}, build |-> "portal", messages |-> 1,
     inportal |-> (0 :> 0) @@ (1 :> 1), reads |-> [Nobody EXCEPT ![a] = {0}, ![b] = {1}],
     writers |-> [Nobody EXCEPT ![w] = {1}, ![x] = {2}]]

\* A reader that allows two nodes in turn.
PortalSources ==
    [who |-> {a, w, x}, build |-> "portal", errors |-> 1, messages |-> 2,
     inportal |-> (0 :> 0) @@ (1 :> None), reads |-> [Nobody EXCEPT ![a] = {0}],
     writers |-> [Nobody EXCEPT ![w] = {1}, ![x] = {3}]]

\* Two threads with standard portals.
StdPortal ==
    [who |-> {a, b}, build |-> "portal", errors |-> 1, std |-> {a, b}, portals |-> 4]

MCScenes ==
    {s @@ Nothing : s \in {MailboxLives, MailboxTraffic, StdMailbox,
                           PortalLives, PortalTraffic, PortalSources, StdPortal}}
=============================================================================
