------------------------------ MODULE MCCaches ------------------------------
(***************************************************************************)
(* Instances of Caches for TLC.                                             *)
(***************************************************************************)
EXTENDS Caches, TLC

(* Keys, handles and cache objects are only compared for equality. *)
MCSymmetry == Permutations(Key) \cup Permutations(Handle) \cup Permutations(Object)
=============================================================================
