---------------------------- MODULE Translations ----------------------------
(***************************************************************************)
(* What the read loop promises to the rest of pipefs, without descriptors,  *)
(* handlers or threads: translations are asked for, start in that order     *)
(* with at most limit of them running, deliver their output while they run  *)
(* and end.  ReadLoop implements it.                                        *)
(***************************************************************************)
EXTENDS Naturals, Sequences, FiniteSets

CONSTANTS Cache, limit

VARIABLES
    waiting,    \* the translations asked for and not started, oldest first
    wanted,     \* the translations whose result somebody still wants
    running,    \* the translations whose command's output is being read
    ended,      \* the translations that have ended
    size,       \* how much of its output a translation has delivered
    closing,    \* whether the file system is being shut down
    crashed     \* whether a command could not be started

vars == <<waiting, wanted, running, ended, size, closing, crashed>>

Init ==
    /\ waiting = <<>>
    /\ wanted = {}
    /\ running = {}
    /\ ended = {}
    /\ size = [c \in Cache |-> 0]
    /\ closing = FALSE
    /\ crashed = FALSE

Ask(c) ==
    /\ ~closing
    /\ wanted' = wanted \cup {c}
    /\ waiting' = Append(waiting, c)
    /\ UNCHANGED <<running, ended, size, closing, crashed>>

Abandon(c) ==
    /\ wanted' = wanted \ {c}
    /\ UNCHANGED <<waiting, running, ended, size, closing, crashed>>

(* The oldest leaves first; the order is given up when shutting down. *)
Leave(i) ==
    /\ i = 1 \/ closing
    /\ waiting' = SubSeq(waiting, 1, i - 1) \o SubSeq(waiting, i + 1, Len(waiting))

Start(i) ==
    /\ waiting[i] \in wanted
    /\ limit = 0 \/ Cardinality(running) < limit
    /\ Leave(i)
    /\ running' = running \cup {waiting[i]}
    /\ UNCHANGED <<wanted, ended, size, closing, crashed>>

Skip(i) ==
    /\ waiting[i] \notin wanted
    /\ Leave(i)
    /\ UNCHANGED <<wanted, running, ended, size, closing, crashed>>

Deliver(c) ==
    /\ c \in running
    /\ size' = [size EXCEPT ![c] = @ + 1]
    /\ UNCHANGED <<waiting, wanted, running, ended, closing, crashed>>

(* Several end at once only when shutting down. *)
End(S) ==
    /\ S # {}
    /\ Cardinality(S) = 1 \/ closing
    /\ running' = running \ S
    /\ ended' = ended \cup S
    /\ UNCHANGED <<waiting, wanted, size, closing, crashed>>

Crash ==
    /\ \E c \in running : size[c] = 0
    /\ crashed' = TRUE
    /\ UNCHANGED <<waiting, wanted, running, ended, size, closing>>

Close ==
    /\ closing' = TRUE
    /\ UNCHANGED <<waiting, wanted, running, ended, size, crashed>>

Next ==
    /\ ~crashed
    /\ \/ \E c \in Cache : Ask(c) \/ Abandon(c) \/ Deliver(c)
       \/ \E i \in 1 .. Len(waiting) : Start(i) \/ Skip(i)
       \/ \E S \in SUBSET running : End(S)
       \/ Close
       \/ Crash

Spec == Init /\ [][Next]_vars
=============================================================================
