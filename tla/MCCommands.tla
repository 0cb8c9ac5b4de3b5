----------------------------- MODULE MCCommands -----------------------------
(***************************************************************************)
(* Instances of Commands for TLC.                                           *)
(***************************************************************************)
EXTENDS Commands, TLC

CONSTANTS f1, f2    \* two files

(* The first command needs its pipe to be read, the second prints nothing.     *)
OneSilent == (f1 :> 2) @@ (f2 :> 0)

OneByte == [f \in File |-> 1]
=============================================================================
