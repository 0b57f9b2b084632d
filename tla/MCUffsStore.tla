---------------------------- MODULE MCUffsStore ----------------------------
(* Small instances of UffsStore for TLC. *)
EXTENDS UffsStore, TLC

MCFiles == {1, 2}
Holding(f10, f11, f20) ==
  LET pages == (<<1, 0>> :> f10 @@ <<1, 1>> :> f11 @@ <<2, 0>> :> f20 @@ <<2, 1>> :> 0)
  IN [g \in Groups |-> IF pages[g] = 0 THEN {} ELSE {Fresh(pages[g])}]
\* an empty flash, one with a file of two blocks and a file of one, one on which
\* no block can be spared for a file that grows, and one on which the last page
\* of a head block was lost
MCStarts == {[clock |-> 2, restarts |-> 0, image |-> Holding(0, 0, 0)],
             [clock |-> 4, restarts |-> 0, image |-> Holding(3, 2, 1)],
             [clock |-> 5, restarts |-> 0, image |-> Holding(3, 1, 3)],
             [clock |-> 3, restarts |-> 1, image |-> Holding(2, 1, 0)]}
=============================================================================
