------------------------------ MODULE MCCache ------------------------------
(***************************************************************************)
(* An instance of Cache for TLC.                                           *)
(***************************************************************************)
EXTENDS Cache

MCOutput == <<1, 2, 3>>
=============================================================================
