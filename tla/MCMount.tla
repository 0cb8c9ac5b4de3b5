------------------------------- MODULE MCMount -------------------------------
(***************************************************************************)
(* Instances of Mount for TLC: one file with both suffixes, and two names    *)
(* without, which files and directories can have.                           *)
(***************************************************************************)
EXTENDS Mount, TLC

CONSTANTS t, x, y

MCName ==
    {[stem |-> t, suffix |-> s] : s \in {"source", "target"}}
      \cup [stem : {x, y}, suffix : {"none"}]

(* Directories other than Root, files, handles and the names without suffix   *)
(* are only compared for equality.                                          *)
MCSymmetry ==
    Permutations(Dir \ {Root}) \cup Permutations(File) \cup Permutations(Handle)
      \cup Permutations({x, y})
=============================================================================
