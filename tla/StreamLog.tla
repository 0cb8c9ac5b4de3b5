----------------------------- MODULE StreamLog -----------------------------
(***************************************************************************)
(* What a cache promises: a log that is appended to and then closed, whose  *)
(* readers get the bytes at the offset they ask for, block exactly while    *)
(* there are none and the log is open, and learn its size once it is        *)
(* closed.  There is no mutex, no condition variable and no wakeup.         *)
(***************************************************************************)
EXTENDS Naturals, Sequences

CONSTANTS Thread, Calls, NoCall

VARIABLES log, closed, call, reply

vars == <<log, closed, call, reply>>

Init ==
    /\ log = <<>>
    /\ closed = FALSE
    /\ call = [t \in Thread |-> NoCall]
    /\ reply = [t \in Thread |-> [op |-> "none"]]

Extend ==
    /\ ~closed
    /\ \E n \in 1 .. Len(log') : SubSeq(log', 1, Len(log') - n) = log
    /\ UNCHANGED <<closed, call, reply>>

Close ==
    /\ closed' = TRUE
    /\ UNCHANGED <<log, call, reply>>

Ask(t) ==
    /\ call[t] = NoCall
    /\ \E c \in Calls : call' = [call EXCEPT ![t] = c]
    /\ UNCHANGED <<log, closed, reply>>

(* The part of the log that a read of n bytes at offset p gets now. *)
Part(p, n) == SubSeq(log, p + 1, IF p + n < Len(log) THEN p + n ELSE Len(log))

Answers(c) ==
    CASE c.op = "read" -> IF closed \/ c.position < Len(log)
                          THEN {[op |-> "bytes", bytes |-> Part(c.position, c.length)]}
                          ELSE {}
      [] c.op = "wait" -> IF closed THEN {[op |-> "none"]} ELSE {}
      [] c.op = "stat" -> {[op |-> "size", size |-> IF closed THEN Len(log) ELSE 0]}
      [] OTHER -> {}

Answer(t) ==
    /\ \E r \in Answers(call[t]) : reply' = [reply EXCEPT ![t] = r]
    /\ call' = [call EXCEPT ![t] = NoCall]
    /\ UNCHANGED <<log, closed>>

Next ==
    \/ Extend
    \/ Close
    \/ \E t \in Thread : Ask(t) \/ Answer(t)

SafeSpec == Init /\ [][Next]_vars

(* A call that can be answered is. *)
Spec == SafeSpec /\ \A t \in Thread : WF_vars(Answer(t))
=============================================================================
