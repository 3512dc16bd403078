--------------------------- MODULE MailboxChannel ---------------------------
(***************************************************************************)
(* What the mailboxes of a node promise to those who use them, the modules *)
(* of synchronization points and portals among them: a queue of messages   *)
(* for each port that has an input mailbox.                                *)
(***************************************************************************)
EXTENDS Naturals, Sequences

CONSTANTS Port, Message

VARIABLES
    inputs,      \* the ports that have an input mailbox
    sent,        \* the messages that have been written
    content,     \* [port]: the messages on their way to it, oldest first
    received     \* [port]: those that have been read from it, oldest first

vars == <<inputs, sent, content, received>>

Init ==
    /\ inputs \subseteq Port
    /\ sent = {}
    /\ content = [p \in Port |-> <<>>]
    /\ received = [p \in Port |-> <<>>]

Create(p) ==
    /\ p \notin inputs
    /\ inputs' = inputs \cup {p}
    /\ UNCHANGED <<sent, content, received>>

Remove(p) ==
    /\ p \in inputs
    /\ inputs' = inputs \ {p}
    /\ UNCHANGED <<sent, content, received>>

\* Every message is written once.
Send(p, m) ==
    /\ m \notin sent
    /\ sent' = sent \cup {m}
    /\ content' = [content EXCEPT ![p] = Append(@, m)]
    /\ UNCHANGED <<inputs, received>>

\* The oldest message is read, once.
Receive(p) ==
    /\ p \in inputs
    /\ content[p] # <<>>
    /\ content' = [content EXCEPT ![p] = Tail(@)]
    /\ received' = [received EXCEPT ![p] = Append(@, Head(content[p]))]
    /\ UNCHANGED <<inputs, sent>>

\* A message to a port without a mailbox is forgotten, and so is one whose read fails.
Lose(p) ==
    /\ content[p] # <<>>
    /\ content' = [content EXCEPT ![p] = Tail(@)]
    /\ UNCHANGED <<inputs, sent, received>>

Next ==
    \E p \in Port :
        Create(p) \/ Remove(p) \/ (\E m \in Message : Send(p, m)) \/ Receive(p) \/ Lose(p)

Spec == Init /\ [][Next]_vars

=============================================================================
