----------------------------- MODULE CacheProofs -----------------------------
(***************************************************************************)
(* Theorems about Cache, for any threads, output, offsets and lengths.      *)
(***************************************************************************)
EXTENDS Cache, SequenceTheorems, TLAPS

(* The parts of the type invariant the safety properties rest on. *)
Monitor ==
    /\ finished \in BOOLEAN
    /\ writer \in {"run", "notify", "done"}
    /\ waiting \subseteq Thread
    /\ call \in [Thread -> Calls]

(* A thread is asleep only in a call that sleeps, a finished cache is never   *)
(* filled, and a thread asks for the size only of a finished cache.          *)
Protocol ==
    /\ finished => writer # "run"
    /\ \A t \in waiting : call[t].op \in {"read", "wait"}
    /\ \A t \in Thread : call[t].op = "size" => finished

MonitorInv == Monitor /\ Protocol /\ NoLostWakeup

LEMMA MonitorInit == Init => MonitorInv
<1> SUFFICES ASSUME Init
             PROVE  MonitorInv
  OBVIOUS
<1>1. finished \in BOOLEAN /\ ~finished
  BY Zenon DEF Init
<1>2. writer \in {"run", "notify", "done"} /\ waiting = {}
  BY DEF Init
<1>3. call \in [Thread -> Calls] /\ \A t \in Thread : call[t].op = "none"
  BY DEF Init, NoCall, Calls
<1> QED
  BY <1>1, <1>2, <1>3 DEF MonitorInv, Monitor, Protocol, NoLostWakeup

LEMMA MonitorNext == MonitorInv /\ [Next]_vars => MonitorInv'
<1> SUFFICES ASSUME MonitorInv, [Next]_vars
             PROVE  MonitorInv'
  OBVIOUS
<1> USE DEF MonitorInv, Monitor
<1>1. ASSUME NEW n \in 1 .. Len(Output), Write(n)
      PROVE  MonitorInv'
  BY <1>1 DEF Write, Protocol, NoLostWakeup
<1>2. CASE Finish
  <2>1. finished' \in BOOLEAN
    BY <1>2, Zenon DEF Finish
  <2> QED
    BY <1>2, <2>1 DEF Finish, Protocol, NoLostWakeup
<1>3. CASE NotifyAll
  BY <1>3 DEF NotifyAll, Protocol, NoLostWakeup
<1>4. ASSUME NEW t \in Thread, NEW c \in Calls \ {NoCall, SizeCall}, Enter(t, c)
      PROVE  MonitorInv'
  <2>1. call' \in [Thread -> Calls]
    BY <1>4 DEF Enter
  <2>2. t \notin waiting
    BY <1>4 DEF Enter, Protocol, NoCall
  <2>3. \A u \in Thread : call'[u] = IF u = t THEN c ELSE call[u]
    BY <1>4 DEF Enter
  <2>4. c.op # "size"
    BY <1>4 DEF Calls, SizeCall
  <2> QED
    BY <1>4, <2>1, <2>2, <2>3, <2>4 DEF Enter, Protocol, NoLostWakeup, MustWait
<1>5. ASSUME NEW t \in Thread, NEW r, Return(t, r), t \notin waiting,
             UNCHANGED <<data, finished, writer, waiting>>
      PROVE  MonitorInv'
  <2>1. NoCall \in Calls /\ NoCall.op = "none"
    BY DEF NoCall, Calls
  <2>2. call' \in [Thread -> Calls]
    BY <1>5, <2>1 DEF Return
  <2>3. \A u \in Thread : call'[u] = IF u = t THEN NoCall ELSE call[u]
    BY <1>5 DEF Return
  <2> QED
    BY <1>5, <2>1, <2>2, <2>3 DEF Protocol, NoLostWakeup, MustWait
<1>6. ASSUME NEW t \in Thread, Read(t)
      PROVE  MonitorInv'
  <2>1. CASE MustWait(t) /\ Sleep(t)
    BY <1>6, <2>1 DEF Read, Runs, Sleep, Protocol, NoLostWakeup, MustWait
  <2>2. CASE ~MustWait(t)
    BY <1>5, <1>6, <2>2 DEF Read, Runs
  <2> QED
    BY <1>6, <2>1, <2>2 DEF Read
<1>7. ASSUME NEW t \in Thread, WaitUntilFinished(t)
      PROVE  MonitorInv'
  <2>1. CASE ~finished /\ Sleep(t)
    BY <1>7, <2>1 DEF WaitUntilFinished, Runs, Sleep, Protocol, NoLostWakeup, MustWait
  <2>2. CASE finished
    BY <1>5, <1>7, <2>2 DEF WaitUntilFinished, Runs
  <2> QED
    BY <1>7, <2>1, <2>2 DEF WaitUntilFinished
<1>8. ASSUME NEW t \in Thread, IsFinished(t)
      PROVE  MonitorInv'
  <2>1. CASE finished
    <3>1. SizeCall \in Calls
      BY DEF SizeCall, Calls
    <3>2. \A u \in Thread : call'[u] = IF u = t THEN SizeCall ELSE call[u]
      BY <1>8, <2>1 DEF IsFinished
    <3>3. call' \in [Thread -> Calls]
      BY <1>8, <2>1, <3>1 DEF IsFinished
    <3> QED
      BY <1>8, <2>1, <3>2, <3>3 DEF IsFinished, Runs, Protocol, NoLostWakeup, MustWait
  <2>2. CASE ~finished
    BY <1>5, <1>8, <2>2 DEF IsFinished, Runs
  <2> QED
    BY <2>1, <2>2
<1>9. ASSUME NEW t \in Thread, GetSize(t)
      PROVE  MonitorInv'
  BY <1>5, <1>9 DEF GetSize, Runs
<1>10. ASSUME NEW t \in Thread, SpuriousWakeup(t)
       PROVE  MonitorInv'
  BY <1>10 DEF SpuriousWakeup, Protocol, NoLostWakeup, MustWait
<1>11. CASE UNCHANGED vars
  BY <1>11 DEF vars, Protocol, NoLostWakeup, MustWait
<1> QED
  BY <1>1, <1>2, <1>3, <1>4, <1>6, <1>7, <1>8, <1>9, <1>10, <1>11
     DEF Next, Fill, Progress

LEMMA MonitorCorrect == Spec => []MonitorInv
  BY MonitorInit, MonitorNext, PTL DEF Spec

(* No wakeup is lost, for any number of readers and waiters: a thread that    *)
(* could go on is awake, or notify_all() is still to come.                   *)
THEOREM NoWakeupLost == Spec => []NoLostWakeup
<1>1. MonitorInv => NoLostWakeup
  BY DEF MonitorInv
<1> QED
  BY <1>1, MonitorCorrect, PTL

LEMMA SizeStep ==
    MonitorInv /\ [Next]_vars =>
        [(\E t \in Thread : call[t] = SizeCall) => data' = data]_vars
<1> SUFFICES ASSUME MonitorInv, [Next]_vars, NEW t \in Thread, call[t] = SizeCall
             PROVE  data' = data
  OBVIOUS
<1>1. writer # "run"
  BY DEF MonitorInv, Protocol, SizeCall
<1> QED
  BY <1>1 DEF Next, Fill, Write, Finish, NotifyAll, Enter, Progress, Read,
              WaitUntilFinished, IsFinished, GetSize, SpuriousWakeup, vars

(* The two locks of a stat are as good as one: between isFinished() and       *)
(* getSize() nothing is written.                                             *)
THEOREM SizeStable == Spec => SizeIsFinal
  BY MonitorCorrect, SizeStep, PTL DEF Spec, SizeIsFinal

-----------------------------------------------------------------------------
(* The monitor implements the log.                                           *)

DataInv == data \in Seq(Nat)

(* The call of a thread as the log sees it. *)
Seen == [t \in Thread |-> IF call[t] = SizeCall THEN StatCall ELSE call[t]]

LEMMA Appended ==
    ASSUME NEW s \in Seq(Nat), NEW n \in Nat, n > 0, Len(s) + n <= Len(Output),
           NEW s2, s2 = s \o SubSeq(Output, Len(s) + 1, Len(s) + n)
    PROVE  /\ s2 \in Seq(Nat) /\ Len(s2) = Len(s) + n
           /\ SubSeq(s2, 1, Len(s2) - n) = s
<1> DEFINE more == SubSeq(Output, Len(s) + 1, Len(s) + n)
<1>1. Output \in Seq(Nat) /\ Len(s) \in Nat
    BY CacheAssumption DEF CacheAssumption
<1>2. more \in Seq(Nat) /\ Len(more) = n
    BY <1>1
<1> HIDE DEF more
<1>3. s2 = s \o more
    BY DEF more
<1>4. s2 \in Seq(Nat) /\ Len(s2) = Len(s) + n
    BY <1>1, <1>2, <1>3
<1>5. SubSeq(s2, 1, Len(s2) - n) = s
    BY <1>1, <1>2, <1>3, <1>4
<1> QED
    BY <1>4, <1>5

LEMMA PartRead ==
    ASSUME NEW s \in Seq(Nat), NEW p \in Nat, NEW n \in Nat, n > 0
    PROVE  (IF p >= Len(s) THEN <<>>
            ELSE SubSeq(s, p + 1, IF p + n < Len(s) THEN p + n ELSE Len(s)))
               = SubSeq(s, p + 1, IF p + n < Len(s) THEN p + n ELSE Len(s))
OBVIOUS

LEMMA ReadCalls ==
    ASSUME NEW c \in Calls, c.op = "read"
    PROVE  /\ c.position \in Nat /\ c.length \in Nat /\ c.length > 0
BY CacheAssumption DEF Calls, CacheAssumption

LEMMA PlainCalls ==
    ASSUME NEW c \in Calls
    PROVE  /\ c.op = "stat" => c = StatCall
           /\ c.op = "size" => c = SizeCall
           /\ c.op # "size" => c # SizeCall
           /\ NoCall.op = "none" /\ StatCall.op = "stat" /\ SizeCall.op = "size"
BY DEF Calls, NoCall, StatCall, SizeCall

LEMMA LogInit == Init => Log!Init
BY DEF Init, Log!Init, NoCall, NoReply, SizeCall

LEMMA DataNext == DataInv /\ [Next]_vars => DataInv'
<1>1. ASSUME DataInv, NEW n \in 1 .. Len(Output), Write(n)
      PROVE  DataInv'
  <2>1. data \in Seq(Nat) /\ Len(data) \in Nat
      BY <1>1 DEF DataInv
  <2>2. n \in Nat /\ n > 0 /\ Len(data) + n <= Len(Output)
      BY <1>1, CacheAssumption DEF Write, CacheAssumption
  <2>3. data' = data \o SubSeq(Output, Len(data) + 1, Len(data) + n)
      BY <1>1 DEF Write
  <2>4. data' \in Seq(Nat) /\ Len(data') = Len(data) + n
    <3> HIDE <1>1
    <3> QED
      BY <2>1, <2>2, <2>3, Appended
  <2> QED
      BY <2>4 DEF DataInv
<1>2. ASSUME Finish \/ NotifyAll \/ UNCHANGED vars
      PROVE  data' = data
    BY <1>2 DEF Finish, NotifyAll, vars
<1>3. ASSUME NEW t \in Thread,
             \/ Progress(t) \/ SpuriousWakeup(t)
             \/ \E c \in Calls \ {NoCall, SizeCall} : Enter(t, c)
      PROVE  data' = data
    BY <1>3 DEF Enter, Progress, Read, WaitUntilFinished, IsFinished, GetSize, SpuriousWakeup
<1> QED
    BY <1>1, <1>2, <1>3 DEF DataInv, Next, Fill

(* A call that returns what the log answers is a step of the log. *)
LEMMA ReturnAnswers ==
    ASSUME MonitorInv, NEW t \in Thread, NEW r \in Log!Answers(Seen[t]), Return(t, r),
           UNCHANGED <<data, finished>>
    PROVE  Log!Next
<1>1. Seen' = [Seen EXCEPT ![t] = NoCall]
    BY PlainCalls DEF MonitorInv, Monitor, Return, Seen, NoCall, SizeCall
<1>2. Log!Answer(t)
    BY <1>1 DEF Log!Answer, Return, Seen
<1> QED
    BY <1>2 DEF Log!Next

LEMMA LogNext ==
    ASSUME MonitorInv, DataInv, [Next]_vars
    PROVE  [Log!Next]_(Log!vars)
<1>0. data \in Seq(Nat) /\ Len(data) \in Nat /\ Monitor /\ Protocol
    BY DEF DataInv, MonitorInv
<1>1. ASSUME NEW n \in 1 .. Len(Output), Write(n)
      PROVE  Log!Next
  <2>1. /\ Len(data') = Len(data) + n
        /\ SubSeq(data', 1, Len(data') - n) = data
      BY <1>0, <1>1, Appended DEF Write
  <2>2. ~finished
      BY <1>0, <1>1 DEF Write, Protocol
  <2>3. n \in 1 .. Len(data')
      BY <1>0, <2>1
  <2> QED
      BY <1>1, <2>1, <2>2, <2>3 DEF Log!Next, Log!Extend, Write
<1>2. CASE Finish
    BY <1>2 DEF Finish, Log!Next, Log!Close
<1>3. ASSUME NEW t \in Thread, NEW c \in Calls \ {NoCall, SizeCall}, Enter(t, c)
      PROVE  Log!Next
  <2>1. Seen[t] = NoCall /\ Seen' = [Seen EXCEPT ![t] = c]
      BY <1>0, <1>3, PlainCalls DEF Monitor, Enter, Seen, NoCall, SizeCall
  <2>2. Log!Ask(t)
      BY <1>3, <2>1 DEF Log!Ask, Enter, Seen
  <2> QED
      BY <2>2 DEF Log!Next
<1>4. ASSUME NEW t \in Thread, Read(t), ~MustWait(t)
      PROVE  Log!Next
  <2> DEFINE c == call[t]
             bytes == SubSeq(data, c.position + 1, Upto(c.position, c.length))
  <2>1. /\ c \in Calls /\ c.op = "read" /\ Seen[t] = c
        /\ c.position \in Nat /\ c.length \in Nat /\ c.length > 0
      BY <1>0, <1>4, ReadCalls, PlainCalls DEF Monitor, Read, Runs, Seen
  <2>2. Return(t, Bytes(bytes)) /\ UNCHANGED <<data, finished>>
      BY <1>0, <1>4, <2>1, PartRead DEF Read, Upto
  <2>3. finished \/ c.position < Len(data)
      BY <1>0, <1>4, <2>1 DEF MustWait, Monitor
  <2>4. Bytes(bytes) \in Log!Answers(Seen[t])
      BY <2>1, <2>3 DEF Log!Answers, Log!Part, Bytes, Upto
  <2> QED
      BY <2>2, <2>4, ReturnAnswers
<1>5. ASSUME NEW t \in Thread, WaitUntilFinished(t), finished
      PROVE  Log!Next
  <2>1. call[t] \in Calls /\ call[t].op = "wait" /\ Seen[t] = call[t]
      BY <1>0, <1>5, PlainCalls DEF Monitor, WaitUntilFinished, Runs, Seen
  <2>2. NoReply \in Log!Answers(Seen[t])
      BY <1>5, <2>1 DEF Log!Answers, NoReply
  <2> QED
      BY <1>5, <2>2, ReturnAnswers DEF WaitUntilFinished
<1>6. ASSUME NEW t \in Thread, IsFinished(t), ~finished
      PROVE  Log!Next
  <2>1. call[t] \in Calls /\ call[t].op = "stat" /\ Seen[t] = call[t]
      BY <1>0, <1>6, PlainCalls DEF Monitor, IsFinished, Runs, Seen
  <2>2. Size(0) \in Log!Answers(Seen[t])
      BY <1>6, <2>1 DEF Log!Answers, Size
  <2> QED
      BY <1>6, <2>2, ReturnAnswers DEF IsFinished
<1>7. ASSUME NEW t \in Thread, GetSize(t)
      PROVE  Log!Next
  <2>1. Seen[t] = StatCall /\ StatCall.op = "stat" /\ finished
      BY <1>0, <1>7, PlainCalls DEF Monitor, Protocol, GetSize, Runs, Seen
  <2>2. Size(Len(data)) \in Log!Answers(Seen[t])
      BY <2>1 DEF Log!Answers, Size
  <2> QED
      BY <1>7, <2>2, ReturnAnswers DEF GetSize
(* What the log does not see: a lock taken, a sleep, a wakeup. *)
<1>8. ASSUME Seen' = Seen, UNCHANGED <<data, finished, reply>>
      PROVE  UNCHANGED Log!vars
    BY <1>8 DEF Seen, Log!vars
<1>9. ASSUME NEW t \in Thread, IsFinished(t), finished
      PROVE  Seen' = Seen /\ UNCHANGED <<data, finished, reply>>
    BY <1>0, <1>9, PlainCalls DEF Monitor, IsFinished, Runs, Seen
<1>10. ASSUME UNCHANGED <<data, finished, call, reply>>
       PROVE  UNCHANGED Log!vars
    BY <1>8, <1>10 DEF Seen
<1>11. ASSUME NEW t \in Thread, Read(t), MustWait(t)
       PROVE  UNCHANGED <<data, finished, call, reply>>
    BY <1>11 DEF Read, Sleep
<1>12. ASSUME NEW t \in Thread, WaitUntilFinished(t), ~finished
       PROVE  UNCHANGED <<data, finished, call, reply>>
    BY <1>12 DEF WaitUntilFinished, Sleep
<1>13. ASSUME NotifyAll \/ (\E t \in Thread : SpuriousWakeup(t)) \/ UNCHANGED vars
       PROVE  UNCHANGED <<data, finished, call, reply>>
    BY <1>13 DEF NotifyAll, SpuriousWakeup, vars
<1> QED
    BY <1>1, <1>2, <1>3, <1>4, <1>5, <1>6, <1>7, <1>8, <1>9, <1>10, <1>11, <1>12, <1>13
       DEF Next, Fill, Progress

(* For any threads, output, offsets and lengths, and with locks, sleeps and    *)
(* wakeups in any order, the cache behaves like a log: reads get the bytes at  *)
(* the offset they ask for, and wait only while there are none.              *)
THEOREM CacheIsLog == Spec => Log!SafeSpec
<1>1. DataInv /\ MonitorInv /\ [Next]_vars => [Log!Next]_(Log!vars)
    BY LogNext
<1>2. Init => DataInv
    BY DEF Init, DataInv
<1> QED
    BY <1>1, <1>2, LogInit, DataNext, MonitorCorrect, PTL DEF Spec, Log!SafeSpec
=============================================================================
