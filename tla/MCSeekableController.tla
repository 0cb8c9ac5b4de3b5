------------------------ MODULE MCSeekableController ------------------------
(***************************************************************************)
(* Instances of SeekableController for TLC.                                 *)
(***************************************************************************)
EXTENDS SeekableController, TLC

OneChunk == [c \in Cache |-> 1]

(* Files, descriptors and blocks are only compared for equality. *)
MCSymmetry == Permutations(Cache) \cup Permutations(Fd) \cup Permutations(Block)
=============================================================================
