------------------------------ MODULE Process -------------------------------
(***************************************************************************)
(* What the modules on kernel calls share: the threads of a process, the   *)
(* kernel's freedom to fail, and the instance that a behaviour explores.   *)
(***************************************************************************)
EXTENDS Naturals, Sequences, FiniteSets

CONSTANTS
    Thread,        \* the threads
    None,          \* no mailbox, no portal, no message, nobody
    Scenes         \* bound: the instances to be explored, one per behaviour

VARIABLES
    scene,         \* the instance that this behaviour explores
    errors         \* external: how many kernel calls may still fail for good

\* An instance: the threads that take part, and how many kernel calls fail.  The
\* modules add what they need.
ASSUME ProcessAssumption ==
    /\ IsFiniteSet(Thread) /\ None \notin Thread /\ None \notin Nat
    /\ \A c \in Scenes : c.who \subseteq Thread /\ c.errors \in Nat

processVars == <<scene, errors>>

ProcessInit == scene \in Scenes /\ errors = scene.errors

\* A kernel call fails with an error that the code does not try again.
OneFails == errors > 0 /\ errors' = errors - 1 /\ UNCHANGED scene

=============================================================================
