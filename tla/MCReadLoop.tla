----------------------------- MODULE MCReadLoop -----------------------------
(***************************************************************************)
(* An instance of ReadLoop for TLC, whose caches have the same output.        *)
(***************************************************************************)
EXTENDS ReadLoop, TLC

CONSTANTS c1, c2, c3

TwoChunks == [c \in Cache |-> 2]

(* The caches are only compared for equality: of the behaviours that differ   *)
(* in their names there is one that adds c1 before c2 and c2 before c3.       *)
(* Unlike a symmetry set, this is sound for liveness.  It is LiveSpec else.   *)
InOrder == (c2 \in added' => c1 \in added') /\ (c3 \in added' => c2 \in added')

MCSpec == Init /\ [][Next /\ InOrder]_vars /\ IOFairness /\ CommandFairness
=============================================================================
