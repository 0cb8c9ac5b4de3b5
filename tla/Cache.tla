------------------------------- MODULE Cache -------------------------------
(***************************************************************************)
(* The cache of one translation (src/src/controller/Cache.cpp): a monitor   *)
(* the IO thread fills and FUSE threads read from, block on and ask for     *)
(* its size.                                                               *)
(*                                                                         *)
(* What a thread does while it holds the mutex is one step.  The IO thread  *)
(* releases the mutex before it calls notify_all(), so notifying is a step  *)
(* of its own, and a thread that wakes up has to get the mutex again.       *)
(***************************************************************************)
EXTENDS Naturals, Sequences

CONSTANTS
    Thread,     \* the FUSE threads that use the cache
    Output,     \* the bytes the command prints
    MaxPosition,\* bound: the largest offset a client reads at
    MaxLength   \* bound: the largest number of bytes a client asks for at a time

ASSUME CacheAssumption ==
    /\ Output \in Seq(Nat)
    /\ MaxPosition \in Nat
    /\ MaxLength \in Nat

VARIABLES
    data,       \* what has been written
    finished,
    writer,     \* the IO thread: "run", "notify" (has released the mutex), "done"
    waiting,    \* the threads asleep in readWaiter.wait()
    call,       \* the call each thread is in
    reply       \* what its last call returned

vars == <<data, finished, writer, waiting, call, reply>>

NoCall          == [op |-> "none"]
ReadCall(p, n)  == [op |-> "read", position |-> p, length |-> n]
WaitCall        == [op |-> "wait"]
StatCall        == [op |-> "stat"]
SizeCall        == [op |-> "size"]

Calls ==
    [op : {"none", "wait", "stat", "size"}]
      \cup [op : {"read"}, position : 0 .. MaxPosition, length : 1 .. MaxLength]

NoReply         == [op |-> "none"]
Bytes(s)        == [op |-> "bytes", bytes |-> s]
Size(n)         == [op |-> "size", size |-> n]

Init ==
    /\ data = <<>>
    /\ finished = FALSE
    /\ writer = "run"
    /\ waiting = {}
    /\ call = [t \in Thread |-> NoCall]
    /\ reply = [t \in Thread |-> NoReply]

-----------------------------------------------------------------------------
(* The IO thread: write() a part of the output, finish() at any time.        *)

Write(n) ==
    /\ writer = "run"
    /\ Len(data) + n <= Len(Output)
    /\ data' = data \o SubSeq(Output, Len(data) + 1, Len(data) + n)
    /\ writer' = "notify"
    /\ UNCHANGED <<finished, waiting, call, reply>>

Finish ==
    /\ writer = "run"
    /\ finished' = TRUE
    /\ writer' = "notify"
    /\ UNCHANGED <<data, waiting, call, reply>>

(* Mutant: notify_one(). *)
NotifyOne ==
    /\ writer = "notify"
    /\ IF waiting = {} THEN UNCHANGED waiting
                       ELSE \E t \in waiting : waiting' = waiting \ {t}
    /\ writer' = IF finished THEN "done" ELSE "run"
    /\ UNCHANGED <<data, finished, call, reply>>

(* The notify_all() at the end of write() and of finish(). *)
NotifyAll ==
    /\ writer = "notify"
    /\ waiting' = {}
    /\ writer' = IF finished THEN "done" ELSE "run"
    /\ UNCHANGED <<data, finished, call, reply>>

-----------------------------------------------------------------------------
(* The FUSE threads.                                                         *)

Enter(t, c) ==
    /\ call[t] = NoCall
    /\ call' = [call EXCEPT ![t] = c]
    /\ UNCHANGED <<data, finished, writer, waiting, reply>>

(* A thread holds the mutex, and is in a call of kind op. *)
Runs(t, op) == call[t].op = op /\ t \notin waiting

Return(t, r) ==
    /\ call' = [call EXCEPT ![t] = NoCall]
    /\ reply' = [reply EXCEPT ![t] = r]

(* Mutant: a read behind the last byte returns nothing before the end. *)
MustWaitOffByOne(t) == ~finished /\ call[t].position > Len(data)

(* The condition of read()'s loop. *)
MustWait(t) == ~finished /\ call[t].position >= Len(data)

Upto(p, n) == IF p + n < Len(data) THEN p + n ELSE Len(data)

(* readWaiter.wait(lock): releases the mutex and sleeps. *)
Sleep(t) ==
    /\ waiting' = waiting \cup {t}
    /\ UNCHANGED <<call, reply>>

Read(t) ==
    /\ Runs(t, "read")
    /\ IF MustWait(t)
       THEN Sleep(t)
       ELSE LET p == call[t].position IN
              /\ Return(t, Bytes(IF p >= Len(data)
                                 THEN <<>>
                                 ELSE SubSeq(data, p + 1, Upto(p, call[t].length))))
              /\ UNCHANGED waiting
    /\ UNCHANGED <<data, finished, writer>>

WaitUntilFinished(t) ==
    /\ Runs(t, "wait")
    /\ IF finished
       THEN Return(t, NoReply) /\ UNCHANGED waiting
       ELSE Sleep(t)
    /\ UNCHANGED <<data, finished, writer>>

(* Mutant: stat reports the size there is by now. *)
SizeByNow(t) ==
    /\ Runs(t, "stat")
    /\ call' = [call EXCEPT ![t] = SizeCall]
    /\ UNCHANGED <<data, finished, writer, waiting, reply>>

(* modifyStatInfo(): isFinished() and, only if it says yes, getSize(), which  *)
(* takes the mutex anew.                                                     *)
IsFinished(t) ==
    /\ Runs(t, "stat")
    /\ IF finished
       THEN call' = [call EXCEPT ![t] = SizeCall] /\ UNCHANGED reply
       ELSE Return(t, Size(0))
    /\ UNCHANGED <<data, finished, writer, waiting>>

GetSize(t) ==
    /\ Runs(t, "size")
    /\ Return(t, Size(Len(data)))
    /\ UNCHANGED <<data, finished, writer, waiting>>

(* A condition variable may wake a thread that nobody notified. *)
SpuriousWakeup(t) ==
    /\ t \in waiting
    /\ waiting' = waiting \ {t}
    /\ UNCHANGED <<data, finished, writer, call, reply>>

-----------------------------------------------------------------------------

Progress(t) == Read(t) \/ WaitUntilFinished(t) \/ IsFinished(t) \/ GetSize(t)

Fill == (\E n \in 1 .. Len(Output) : Write(n)) \/ Finish

Next ==
    \/ Fill
    \/ NotifyAll
    \/ \E t \in Thread :
          \/ \E c \in Calls \ {NoCall, SizeCall} : Enter(t, c)
          \/ Progress(t)
          \/ SpuriousWakeup(t)

(* Threads that hold or can get the mutex run; nothing makes the command      *)
(* print, or end.                                                            *)
Fairness ==
    /\ WF_vars(NotifyAll)
    /\ \A t \in Thread : WF_vars(Progress(t))

Spec == Init /\ [][Next]_vars /\ Fairness

-----------------------------------------------------------------------------
(* Properties.                                                               *)

TypeOK ==
    /\ data \in Seq(Nat)
    /\ finished \in BOOLEAN
    /\ writer \in {"run", "notify", "done"}
    /\ waiting \subseteq Thread
    /\ call \in [Thread -> Calls]
    /\ \A t \in Thread :
          \/ reply[t] = NoReply
          \/ reply[t].op = "bytes" /\ reply[t].bytes \in Seq(Nat)
          \/ reply[t].op = "size" /\ reply[t].size \in Nat

(* A thread sleeps only while what it waits for has not happened, or while    *)
(* the notification of it is still to come: no wakeup is lost between the     *)
(* check of the condition and the wait, or between the change and notify_all. *)
NoLostWakeup ==
    \A t \in waiting :
        \/ writer = "notify"
        \/ call[t].op = "read" /\ MustWait(t)
        \/ call[t].op = "wait" /\ ~finished

(* Whoever is asking for the size behind isFinished() gets the final size: a  *)
(* thread between the two locks sees a cache that is never written again.     *)
SizeIsFinal ==
    [][(\E t \in Thread : call[t] = SizeCall) => data' = data]_vars

(* Every call returns if the translation is finished some time: nobody is     *)
(* left asleep.                                                              *)
EveryCallReturns ==
    <>finished => \A t \in Thread : call[t] # NoCall ~> call[t] = NoCall

-----------------------------------------------------------------------------
(* What the monitor implements.                                              *)

(* A thread between isFinished() and getSize() is in a stat call. *)
Log == INSTANCE StreamLog WITH
    log    <- data,
    closed <- finished,
    call   <- [t \in Thread |-> IF call[t] = SizeCall THEN StatCall ELSE call[t]]

(* The monitor implements the log, its liveness included: a read whose bytes  *)
(* are there returns them, and a wait for a finished cache returns, even if   *)
(* nothing is written any more.                                              *)
ImplementsStreamLog == Log!Spec
=============================================================================
