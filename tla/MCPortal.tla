------------------------------ MODULE MCPortal ------------------------------
(* On node 0, v1 and v2 write to r0; w writes from node 1 to r1 and r2 on node *)
(* 0 and to r3 on node 2.                                                      *)
EXTENDS MPortal, TLC

CONSTANTS r0, r1, r2, r3, v1, v2, w

MCNodeOf == r0 :> 0 @@ r1 :> 0 @@ r2 :> 0 @@ v1 :> 0 @@ v2 :> 0 @@ w :> 1 @@ r3 :> 2
MCInputs == r0 :> {<<0, <<0, 0>>>>, <<0, <<0, 1>>>>} @@ r1 :> {<<0, <<1, 0>>>>}
              @@ r2 :> {<<1, <<1, 1>>>>} @@ r3 :> {<<0, <<1, 0>>>>}
              @@ v1 :> {} @@ v2 :> {} @@ w :> {}
MCOutputs == v1 :> {<<<<0, 0>>, 0>>} @@ v2 :> {<<<<0, 1>>, 0>>}
               @@ w :> {<<<<0, 0>>, 0>>, <<<<0, 1>>, 1>>, <<<<2, 0>>, 0>>}
               @@ r0 :> {} @@ r1 :> {} @@ r2 :> {} @@ r3 :> {}

\* Between threads of one node, with messages that are longer than all buffers.
Local == [who |-> {r0, v1, v2}, faults |-> 0, ready |-> {}, sizes |-> {1, 5},
          writes |-> 2, removes |-> {r0, v1}]

\* Two readers of one node share a channel, and keep messages for each other.
Shared == [who |-> {r1, r2, w}, faults |-> 0, ready |-> {0, 1}, sizes |-> {2},
           writes |-> 2, removes |-> {}]

\* The same two, when a mailbox operation may fail while one keeps for the other.
Failing == [Shared EXCEPT !.sizes = {1}, !.faults = 1]

\* Readers on two nodes ask the same writer; a port is missing on one of them.
Apart == [who |-> {r1, r3, w}, faults |-> 0, ready |-> {0, 1, 2}, sizes |-> {1},
          writes |-> 3, removes |-> {}]

\* One reader, which may read more or less than was written.
Alone == [who |-> {r1, w}, faults |-> 1, ready |-> {0, 1}, sizes |-> {1, 2, 3},
          writes |-> 2, removes |-> {}]

\* One portal too many for a node: an open that fails, and keeps its port.
Full == [who |-> {r0, r2, v1, v2}, faults |-> 0, ready |-> {}, sizes |-> {1},
         writes |-> 1, removes |-> {v1}]

\* Two readers, whose ports are created while messages for them come.
Late == [who |-> {r1, r2, w}, faults |-> 0, ready |-> {1}, sizes |-> {1},
         writes |-> 3, removes |-> {}]

MCScenes == {Local, Shared, Failing, Apart, Alone, Full, Late}
AssertScenes == {[Shared EXCEPT !.sizes = {1}]}
=============================================================================
