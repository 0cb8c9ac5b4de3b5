--------------------------- MODULE CommandsProofs ---------------------------
(***************************************************************************)
(* Theorems about Commands, for any files, callers, outputs and pipes: what  *)
(* callers of a handle without a cache are given, and that the IO thread     *)
(* never waits for a command that has not ended.                            *)
(***************************************************************************)
EXTENDS Commands, FiniteSetTheorems, TLAPS

CallRecord == [at : {"none", "blocked", "took"}, asked : Nat, from : Nat, n : Nat,
               killed : BOOLEAN]

-----------------------------------------------------------------------------
(* Types.                                                                    *)

LEMMA InitTypes ==
    ASSUME Init
    PROVE  TypeOK
<1>1. call \in [File -> [Caller -> CallRecord]]
    BY DEF Init, NoCall, Call, CallRecord
<1>2. kills \in 0 .. MaxKills /\ stops \in 0 .. MaxStops
    BY CommandsAssumption DEF Init
<1> QED
    BY <1>1, <1>2 DEF Init, TypeOK, CallRecord

LEMMA NextTypes ==
    ASSUME TypeOK, [Next]_vars
    PROVE  TypeOK'
<1> USE CommandsAssumption DEF TypeOK, pipeVars, readVars, reaperVars
<1>1. ASSUME NEW f \in File, MakePipe(f) \/ ForkFails(f) \/ ParentCloses(f)
      PROVE  TypeOK'
    BY <1>1 DEF MakePipe, ForkFails, ParentCloses, Stage
<1>14. ASSUME NEW f \in File, Fork(f)
      PROVE  TypeOK'
    BY <1>14 DEF Fork, Stage
<1>2. ASSUME NEW f \in File, Release(f)
      PROVE  TypeOK'
    BY <1>2 DEF Release, Stage
<1>3. ASSUME NEW f \in File, PrintByte(f)
      PROVE  TypeOK'
    BY <1>3 DEF PrintByte
<1>4. ASSUME NEW f \in File, Exit(f)
      PROVE  TypeOK'
    BY <1>4 DEF Exit
<1>5. ASSUME NEW f \in File, NEW c \in Caller, Read(f, c)
      PROVE  TypeOK'
    BY <1>5 DEF Read, Call
<1>6. ASSUME NEW f \in File, NEW c \in Caller, ReadPipe(f, c)
      PROVE  TypeOK'
    BY <1>6 DEF ReadPipe, Call
<1>7. ASSUME NEW f \in File, NEW c \in Caller, Reply(f, c) \/ ReadFails(f, c)
      PROVE  TypeOK'
  <2>1. CASE Reply(f, c)
      BY <2>1 DEF Reply, NoCall, Call
  <2>2. CASE ReadFails(f, c)
      BY <2>2 DEF ReadFails, NoCall, Call
  <2> QED
      BY <1>7, <2>1, <2>2
<1>8. ASSUME NEW f \in File, NEW c \in Caller, KillCaller(f, c)
      PROVE  TypeOK'
    BY <1>8 DEF KillCaller, Call
<1>9. CASE StopContinue
    BY <1>9 DEF StopContinue
<1>10. CASE Deliver
  <2>1. undelivered' \in Nat /\ handler' \in {"armed", "queued", "aborted", "gone"}
      BY <1>10 DEF Deliver
  <2> QED
      BY <2>1, <1>10 DEF Deliver
<1>11. CASE HandleSignal
  <2>1. child' \in [File -> {"none", "running", "zombie", "reaped"}]
      BY <1>11 DEF HandleSignal, ReapOne, Zombies
  <2>2. undelivered' \in Nat /\ handler' \in {"armed", "queued", "aborted", "gone"}
      BY <1>11 DEF HandleSignal, Rearm
  <2> QED
      BY <2>1, <2>2, <1>11 DEF HandleSignal
<1>12. CASE HandleAbort \/ Join \/ Cancel
    BY <1>12 DEF HandleAbort, Join, Cancel
<1>13. CASE UNCHANGED vars
    BY <1>13 DEF vars
<1> QED
    BY <1>1, <1>2, <1>3, <1>4, <1>5, <1>6, <1>7, <1>8, <1>9, <1>10, <1>11, <1>12, <1>13, <1>14
    DEF Next, Spawn, Answer, Reaper

-----------------------------------------------------------------------------
(* Processes.  A command whose file is open has been forked and has inherited *)
(* the write end of its own pipe; as long as pipefs has the read end, it only *)
(* ends when it has printed everything.                                      *)

Processes ==
    \A f \in File :
        /\ stage[f] \in {"closed", "piped"} => child[f] = "none"
        /\ stage[f] \in {"forked", "open"} => child[f] # "none"
        /\ stage[f] = "piped" => f \in parentW
        /\ stage[f] \in {"piped", "forked", "open"} => f \in parentR
        /\ child[f] = "running" => f \in holdsW[f]
        /\ child[f] \in {"zombie", "reaped"} /\ f \in parentR => printed[f] = Output[f]

LEMMA NextProcesses ==
    ASSUME TypeOK, Processes, [Next]_vars
    PROVE  Processes'
<1> USE CommandsAssumption DEF TypeOK, Processes, pipeVars
<1>1. ASSUME NEW f \in File, MakePipe(f) \/ ForkFails(f) \/ ParentCloses(f)
      PROVE  Processes'
    BY <1>1 DEF MakePipe, ForkFails, ParentCloses, Stage
<1>2. ASSUME NEW f \in File, Fork(f)
      PROVE  Processes'
    BY <1>2 DEF Fork, Stage
<1>3. ASSUME NEW f \in File, Release(f)
      PROVE  Processes'
    BY <1>3 DEF Release, Stage
<1>4. ASSUME NEW f \in File, PrintByte(f)
      PROVE  Processes'
    BY <1>4 DEF PrintByte, Alive
<1>5. ASSUME NEW f \in File, Exit(f)
      PROVE  Processes'
    BY <1>5 DEF Exit, Alive, Readers
<1>6. ASSUME NEW f \in File, NEW c \in Caller,
             \/ Read(f, c) \/ ReadPipe(f, c) \/ ReadFails(f, c) \/ Reply(f, c)
             \/ KillCaller(f, c)
      PROVE  Processes'
    BY <1>6 DEF Read, ReadPipe, ReadFails, Reply, KillCaller
<1>7. CASE HandleSignal
    BY <1>7 DEF HandleSignal, ReapOne, Zombies
<1>8. CASE StopContinue \/ Deliver \/ HandleAbort \/ Join \/ Cancel
    BY <1>8 DEF StopContinue, Deliver, HandleAbort, Join, Cancel
<1>9. CASE UNCHANGED vars
    BY <1>9 DEF vars
<1> QED
    BY <1>1, <1>2, <1>3, <1>4, <1>5, <1>6, <1>7, <1>8, <1>9
    DEF Next, Spawn, Answer, Reaper

-----------------------------------------------------------------------------
(* Reaping.  For each signal that has come and not been handled, as long as   *)
(* none came without an exit, there is a child that has ended and has not     *)
(* been reaped; there may be more of these, since signals merge.             *)

Pending == IF pending THEN 1 ELSE 0

Queued == IF handler = "queued" THEN 1 ELSE 0

Due == undelivered + Pending + Queued

EnoughZombies == stops = 0 => Due <= Cardinality(Zombies)

LEMMA DueType ==
    ASSUME TypeOK
    PROVE  undelivered \in Nat /\ stops \in Nat /\ Pending \in {0, 1} /\ Queued \in {0, 1}
BY CommandsAssumption DEF TypeOK, Pending, Queued

LEMMA ZombiesFinite == IsFiniteSet(Zombies) /\ Cardinality(Zombies) \in Nat
BY CommandsAssumption, FS_Subset, FS_CardinalityType DEF Zombies

LEMMA NextEnough ==
    ASSUME TypeOK, Processes, EnoughZombies, [Next]_vars
    PROVE  EnoughZombies'
<1>1. undelivered \in Nat /\ stops \in Nat /\ Pending \in {0, 1} /\ Queued \in {0, 1}
    BY DueType
<1>2. ASSUME UNCHANGED <<undelivered, pending, handler, stops>>, Zombies' = Zombies
      PROVE  EnoughZombies'
    BY <1>2 DEF EnoughZombies, Due, Pending, Queued
<1>3. ASSUME NEW f \in File,
             \/ MakePipe(f) \/ ForkFails(f) \/ ParentCloses(f) \/ Release(f)
             \/ PrintByte(f)
             \/ \E c \in Caller :
                   \/ Read(f, c) \/ ReadPipe(f, c) \/ ReadFails(f, c) \/ Reply(f, c)
                   \/ KillCaller(f, c)
      PROVE  EnoughZombies'
    BY <1>2, <1>3 DEF MakePipe, ForkFails, ParentCloses, Release, PrintByte, Read,
        ReadPipe, ReadFails, Reply, KillCaller, reaperVars, Zombies
<1>4. ASSUME NEW f \in File, Fork(f)
      PROVE  EnoughZombies'
  <2>1. child[f] = "none"
      BY <1>4 DEF Fork, Stage, Processes
  <2>2. Zombies' = Zombies
      BY <1>4, <2>1 DEF Fork, Zombies, TypeOK
  <2> QED
      BY <1>2, <1>4, <2>2 DEF Fork, reaperVars
<1>5. ASSUME NEW f \in File, Exit(f)
      PROVE  EnoughZombies'
  <2>1. f \notin Zombies /\ Zombies' = Zombies \cup {f}
      BY <1>5 DEF Exit, Zombies, Alive, TypeOK
  <2>2. Cardinality(Zombies') = Cardinality(Zombies) + 1
      BY <2>1, ZombiesFinite, FS_AddElement
  <2>3. undelivered' = undelivered /\ stops' = stops /\ Pending' = 1 /\ Queued' = Queued
      BY <1>5 DEF Exit, Pending, Queued
  <2> QED
      BY <1>1, <2>2, <2>3, ZombiesFinite DEF EnoughZombies, Due
<1>6. CASE StopContinue
    BY <1>1, <1>6 DEF StopContinue, EnoughZombies
<1>7. CASE Deliver
  <2>1. Zombies' = Zombies
      BY <1>7 DEF Deliver, Zombies
  <2>2. /\ Pending = 1 /\ Pending' = 0 /\ stops' = stops
        /\ \/ undelivered' = undelivered /\ Queued = 0 /\ Queued' = 1
           \/ undelivered' = undelivered + 1 /\ Queued' = Queued
      BY <1>1, <1>7 DEF Deliver, Pending, Queued
  <2>3. Due' = Due
      BY <1>1, <2>2 DEF Due
  <2> QED
      BY <2>1, <2>2, <2>3 DEF EnoughZombies
<1>8. CASE HandleSignal
  <2>1. /\ Queued = 1 /\ Pending' = Pending /\ stops' = stops
        /\ \/ undelivered' = undelivered - 1 /\ Queued' = 1
           \/ undelivered' = undelivered /\ Queued' = 0
      BY <1>1, <1>8 DEF HandleSignal, Rearm, Pending, Queued
  <2>2. ASSUME Zombies = {}, stops = 0
        PROVE  FALSE
      BY <1>1, <2>1, <2>2, FS_EmptySet DEF EnoughZombies, Due
  <2>3. ASSUME NEW f \in Zombies, child' = [child EXCEPT ![f] = "reaped"]
        PROVE  EnoughZombies'
    <3>1. Zombies' = Zombies \ {f}
        BY <2>3 DEF Zombies, TypeOK
    <3>2. Cardinality(Zombies') = Cardinality(Zombies) - 1
        BY <2>3, <3>1, ZombiesFinite, FS_RemoveElement
    <3>3. Due' = Due - 1 /\ Due \in Nat
        BY <1>1, <2>1 DEF Due
    <3> QED
        BY <2>1, <3>2, <3>3, ZombiesFinite DEF EnoughZombies
  <2> QED
      BY <1>8, <2>1, <2>2, <2>3 DEF HandleSignal, ReapOne, EnoughZombies
<1>9. CASE HandleAbort \/ Join \/ Cancel
  <2>1. Zombies' = Zombies
      BY <1>9 DEF HandleAbort, Join, Cancel, Zombies
  <2>2. UNCHANGED <<undelivered, pending, stops>> /\ Queued' = Queued
      BY <1>9 DEF HandleAbort, Join, Cancel, Queued
  <2> QED
      BY <2>1, <2>2 DEF EnoughZombies, Due, Pending
<1>10. CASE UNCHANGED vars
    BY <1>2, <1>10 DEF vars, reaperVars, Zombies
<1> QED
    BY <1>3, <1>4, <1>5, <1>6, <1>7, <1>8, <1>9, <1>10
    DEF Next, Spawn, Answer, Reaper

-----------------------------------------------------------------------------
(* Reading.  Unless two reads of a handle have been in progress together, the *)
(* only one there can be is for what comes next, which is at currentOffset.   *)

Busy(f, c) == call[f][c].at # "none"

(* What a read of f has been given, and what is left in the pipe.             *)
Given(f, c) ==
    /\ call[f][c].from = offset[f]
    /\ taken[f] = offset[f] + call[f][c].n
    /\ call[f][c].n = 0 => offset[f] = Output[f]

OneReader(f) ==
    /\ \A c, d \in Caller : Busy(f, c) /\ Busy(f, d) => c = d
    /\ \A c \in Caller : Busy(f, c) => call[f][c].asked = offset[f]
    /\ \A c \in Caller : call[f][c].at = "took" => Given(f, c)
    /\ (\A c \in Caller : call[f][c].at # "took") => taken[f] = offset[f]

ReadsOf(f) ==
    /\ \A c \in Caller : call[f][c].at = "none" => call[f][c] = NoCall
    /\ \A c \in Caller : Busy(f, c) => stage[f] = "open"
    /\ f \notin overlap => OneReader(f)
    /\ taken[f] <= printed[f]

ReadInv == \A f \in File : ReadsOf(f)

LEMMA NoCallIdle == NoCall.at = "none"
BY DEF NoCall, Call

LEMMA FileTypes ==
    ASSUME TypeOK, NEW f \in File
    PROVE  /\ offset[f] \in Nat /\ position[f] \in Nat
           /\ printed[f] \in Nat /\ taken[f] \in Nat /\ Output[f] \in Nat
BY CommandsAssumption DEF TypeOK

LEMMA OtherFile ==
    ASSUME NEW f \in File, ReadsOf(f),
           UNCHANGED <<call[f], offset[f], taken[f], printed[f], stage[f]>>,
           f \in overlap => f \in overlap'
    PROVE  ReadsOf(f)'
BY DEF ReadsOf, OneReader, Busy, Given

LEMMA ReadKeeps ==
    ASSUME TypeOK, ReadInv, NEW f \in File, NEW c \in Caller, Read(f, c)
    PROVE  ReadsOf(f)'
<1> DEFINE new == Call("blocked", position[f], 0, 0, FALSE)
<1>1. new.at = "blocked" /\ new.asked = offset[f]
    BY DEF Read, Call
<1>2. /\ \A d \in Caller : call'[f][d] = IF d = c THEN new ELSE call[f][d]
      /\ UNCHANGED <<stage, offset, taken, printed>>
      /\ stage[f] = "open"
    BY DEF Read, TypeOK, pipeVars
<1> HIDE DEF new
<1>3. ASSUME f \notin overlap'
      PROVE  f \notin overlap /\ \A d \in Caller : ~Busy(f, d)
  <2>1. f \notin overlap /\ InProgress(f) = {}
      BY <1>3 DEF Read
  <2> QED
      BY <2>1, NoCallIdle DEF InProgress, Busy
<1>4. f \notin overlap' => OneReader(f)'
  <2> SUFFICES ASSUME f \notin overlap' PROVE OneReader(f)'
      OBVIOUS
  <2>1. taken[f] = offset[f]
      BY <1>3 DEF ReadInv, ReadsOf, OneReader, Busy
  <2> QED
      BY <1>1, <1>2, <1>3, <2>1 DEF OneReader, Busy, Given
<1> QED
    BY <1>1, <1>2, <1>4 DEF ReadInv, ReadsOf, Busy

LEMMA ReadPipeKeeps ==
    ASSUME TypeOK, Processes, ReadInv, NEW f \in File, NEW c \in Caller, ReadPipe(f, c)
    PROVE  ReadsOf(f)'
<1>1. PICK n \in 0 .. Capacity :
          /\ IF printed[f] = taken[f] THEN n = 0 /\ Writers(f) = {}
                                      ELSE n \in 1 .. printed[f] - taken[f]
          /\ taken' = [taken EXCEPT ![f] = @ + n]
          /\ call' = [call EXCEPT ![f][c] =
                         Call("took", @.asked, taken[f], n, @.killed)]
    BY DEF ReadPipe
<1> DEFINE new == Call("took", call[f][c].asked, taken[f], n, call[f][c].killed)
<1>2. n \in Nat
    BY CommandsAssumption
<1>3. new.at = "took" /\ new.asked = call[f][c].asked /\ new.from = taken[f] /\ new.n = n
    BY DEF Call
<1>4. \A d \in Caller : call'[f][d] = IF d = c THEN new ELSE call[f][d]
    BY <1>1 DEF TypeOK
<1>5. /\ taken'[f] = taken[f] + n
      /\ UNCHANGED <<stage, offset, printed, overlap>>
      /\ call[f][c].at = "blocked" /\ Busy(f, c)
    BY <1>1 DEF ReadPipe, TypeOK, Busy
<1>6. stage[f] = "open"
    BY <1>5 DEF ReadInv, ReadsOf
<1>7. n = 0 => taken[f] = Output[f]
  <2> SUFFICES ASSUME n = 0 PROVE taken[f] = Output[f]
      OBVIOUS
  <2>1. printed[f] = taken[f] /\ Writers(f) = {}
      BY <1>1, FileTypes
  <2>2. child[f] # "running"
      BY <2>1 DEF Writers, Alive, Processes
  <2>3. child[f] \in {"zombie", "reaped"} /\ f \in parentR
      BY <1>6, <2>2 DEF TypeOK, Processes
  <2> QED
      BY <2>1, <2>3 DEF Processes
<1> HIDE DEF new
<1>8. f \notin overlap' => OneReader(f)'
  <2> SUFFICES ASSUME f \notin overlap' PROVE OneReader(f)'
      OBVIOUS
  <2>1. OneReader(f)
      BY <1>5 DEF ReadInv, ReadsOf
  <2>2. \A d \in Caller : d # c => call[f][d].at = "none"
      BY <1>5, <2>1 DEF OneReader, Busy
  <2>3. taken[f] = offset[f] /\ call[f][c].asked = offset[f]
      BY <1>5, <2>1, <2>2 DEF OneReader, Busy
  <2> QED
      BY <1>3, <1>4, <1>5, <1>7, <2>2, <2>3 DEF OneReader, Busy, Given
<1>9. taken'[f] <= printed'[f]
    BY <1>1, <1>5, FileTypes
<1> QED
    BY <1>3, <1>4, <1>5, <1>6, <1>8, <1>9 DEF ReadInv, ReadsOf, Busy

LEMMA ReadFailsKeeps ==
    ASSUME TypeOK, ReadInv, NEW f \in File, NEW c \in Caller, ReadFails(f, c)
    PROVE  ReadsOf(f)'
<1>1. NoCall.at = "none"
    BY NoCallIdle
<1>2. /\ \A d \in Caller : call'[f][d] = IF d = c THEN NoCall ELSE call[f][d]
      /\ UNCHANGED <<stage, offset, taken, printed, overlap>>
      /\ call[f][c].at = "blocked"
    BY DEF ReadFails, TypeOK, pipeVars
<1>3. f \notin overlap' => OneReader(f)'
  <2> SUFFICES ASSUME f \notin overlap' PROVE OneReader(f)'
      OBVIOUS
  <2>1. OneReader(f)
      BY <1>2 DEF ReadInv, ReadsOf
  <2>2. \A d \in Caller : d # c => call[f][d].at = "none"
      BY <1>2, <2>1 DEF OneReader, Busy
  <2>3. taken[f] = offset[f]
      BY <1>2, <2>1, <2>2 DEF OneReader
  <2> QED
      BY <1>1, <1>2, <2>2, <2>3 DEF OneReader, Busy
<1> QED
    BY <1>1, <1>2, <1>3 DEF ReadInv, ReadsOf, Busy

LEMMA ReplyKeeps ==
    ASSUME TypeOK, ReadInv, NEW f \in File, NEW c \in Caller, Reply(f, c)
    PROVE  ReadsOf(f)'
<1>1. NoCall.at = "none"
    BY NoCallIdle
<1>2. /\ \A d \in Caller : call'[f][d] = IF d = c THEN NoCall ELSE call[f][d]
      /\ offset'[f] = offset[f] + call[f][c].n
      /\ UNCHANGED <<stage, taken, printed, overlap>>
      /\ call[f][c].at = "took"
    BY DEF Reply, TypeOK, pipeVars
<1>3. f \notin overlap' => OneReader(f)'
  <2> SUFFICES ASSUME f \notin overlap' PROVE OneReader(f)'
      OBVIOUS
  <2>1. OneReader(f)
      BY <1>2 DEF ReadInv, ReadsOf
  <2>2. \A d \in Caller : d # c => call[f][d].at = "none"
      BY <1>2, <2>1 DEF OneReader, Busy
  <2>3. taken[f] = offset[f] + call[f][c].n
      BY <1>2, <2>1 DEF OneReader, Given
  <2> QED
      BY <1>1, <1>2, <2>2, <2>3 DEF OneReader, Busy
<1> QED
    BY <1>1, <1>2, <1>3 DEF ReadInv, ReadsOf, Busy

LEMMA KillCallerKeeps ==
    ASSUME TypeOK, ReadInv, NEW f \in File, NEW c \in Caller, KillCaller(f, c)
    PROVE  ReadsOf(f)'
<1> DEFINE old == call[f][c]
           new == Call(old.at, old.asked, old.from, old.n, TRUE)
<1>1. new.at = old.at /\ new.asked = old.asked /\ new.from = old.from /\ new.n = old.n
    BY DEF Call
<1>2. /\ \A d \in Caller : call'[f][d] = IF d = c THEN new ELSE call[f][d]
      /\ UNCHANGED <<stage, offset, taken, printed, overlap>>
      /\ old # NoCall
    BY DEF KillCaller, TypeOK, pipeVars
<1>3. old.at # "none"
    BY <1>2 DEF ReadInv, ReadsOf
<1> HIDE DEF new
<1>4. f \notin overlap' => OneReader(f)'
    BY <1>1, <1>2 DEF ReadInv, ReadsOf, OneReader, Busy, Given
<1> QED
    BY <1>1, <1>2, <1>3, <1>4 DEF ReadInv, ReadsOf, Busy

LEMMA NextReads ==
    ASSUME TypeOK, Processes, ReadInv, [Next]_vars
    PROVE  ReadInv'
<1> USE DEF ReadInv
<1>1. ASSUME UNCHANGED <<call, offset, taken, printed, overlap, stage>>
      PROVE  ReadInv'
    BY <1>1, OtherFile
<1>2. ASSUME NEW f \in File, MakePipe(f) \/ Fork(f) \/ ForkFails(f) \/ ParentCloses(f) \/ Release(f)
      PROVE  ReadInv'
  <2>1. /\ UNCHANGED <<call, offset, taken, printed, overlap>>
        /\ \A g \in File : g # f => stage'[g] = stage[g]
      BY <1>2 DEF MakePipe, Fork, ForkFails, ParentCloses, Release, Stage, readVars, TypeOK
  <2>2. \A c \in Caller : ~Busy(f, c)
    <3>1. CASE stage[f] # "open"
        BY <3>1 DEF ReadsOf
    <3>2. CASE InProgress(f) = {}
        BY <3>2, NoCallIdle DEF InProgress, Busy
    <3> QED
        BY <1>2, <3>1, <3>2 DEF MakePipe, Fork, ForkFails, ParentCloses, Release, Stage
  <2>3. ReadsOf(f)'
      BY <2>1, <2>2 DEF ReadsOf, OneReader, Busy, Given
  <2> QED
      BY <2>1, <2>3, OtherFile
<1>3. ASSUME NEW f \in File, PrintByte(f)
      PROVE  ReadInv'
  <2>1. /\ UNCHANGED <<call, offset, taken, overlap, stage>>
        /\ printed'[f] = printed[f] + 1
        /\ \A g \in File : g # f => printed'[g] = printed[g]
      BY <1>3 DEF PrintByte, readVars, TypeOK
  <2>2. taken[f] <= printed[f] /\ taken[f] \in Nat /\ printed[f] \in Nat
      BY FileTypes DEF ReadsOf
  <2>3. taken'[f] <= printed'[f]
      BY <2>1, <2>2
  <2>4. ReadsOf(f)'
      BY <2>1, <2>3 DEF ReadsOf, OneReader, Busy, Given
  <2> QED
      BY <2>1, <2>4, OtherFile
<1>4. ASSUME NEW f \in File, NEW c \in Caller,
             \/ Read(f, c) \/ ReadPipe(f, c) \/ ReadFails(f, c) \/ Reply(f, c)
             \/ KillCaller(f, c)
      PROVE  ReadInv'
  <2>1. ReadsOf(f)'
      BY <1>4, ReadKeeps, ReadPipeKeeps, ReadFailsKeeps, ReplyKeeps, KillCallerKeeps
  <2>2. ASSUME NEW g \in File, g # f
        PROVE  /\ UNCHANGED <<call[g], offset[g], taken[g], printed[g], stage[g]>>
               /\ g \in overlap => g \in overlap'
      BY <1>4, <2>2 DEF Read, ReadPipe, ReadFails, Reply, KillCaller, pipeVars, TypeOK
  <2> QED
      BY <2>1, <2>2, OtherFile
<1>5. ASSUME NEW f \in File, Exit(f)
      PROVE  ReadInv'
    BY <1>1, <1>5 DEF Exit, readVars
<1>6. CASE StopContinue \/ Deliver \/ HandleSignal \/ HandleAbort \/ Join \/ Cancel
    BY <1>1, <1>6 DEF StopContinue, Deliver, HandleSignal, HandleAbort, Join, Cancel,
        readVars, pipeVars
<1>7. CASE UNCHANGED vars
    BY <1>1, <1>7 DEF vars, readVars, pipeVars
<1> QED
    BY <1>2, <1>3, <1>4, <1>5, <1>6, <1>7 DEF Next, Spawn, Answer, Reaper

-----------------------------------------------------------------------------
(* The theorems.                                                             *)

IInv == TypeOK /\ Processes /\ EnoughZombies /\ ReadInv

LEMMA InitInv ==
    ASSUME Init
    PROVE  IInv
<1>1. TypeOK
    BY InitTypes
<1>2. Processes
    BY DEF Init, Processes
<1>3. EnoughZombies
  <2>1. Zombies = {}
      BY DEF Init, Zombies
  <2> QED
      BY <2>1, FS_EmptySet DEF Init, EnoughZombies, Due, Pending, Queued
<1>4. ReadInv
    BY NoCallIdle DEF Init, ReadInv, ReadsOf, OneReader, Busy
<1> QED
    BY <1>1, <1>2, <1>3, <1>4 DEF IInv

LEMMA Invariant == Spec => []IInv
<1>1. IInv /\ [Next]_vars => IInv'
    BY NextTypes, NextProcesses, NextEnough, NextReads DEF IInv
<1> QED
    BY <1>1, InitInv, PTL DEF Spec

(* The handler of SIGCHLD never makes the IO thread wait for a command that   *)
(* goes on, as long as no command is stopped or continued: however the exits  *)
(* of any number of commands, the signals that merge and the handler's        *)
(* rounds are interleaved.                                                   *)
THEOREM ReapingNeverBlocks == Spec => []ReaperNeverBlocks
<1>1. IInv => ReaperNeverBlocks
  <2> SUFFICES ASSUME IInv, stops = 0, handler = "queued" PROVE Zombies # {}
      BY DEF ReaperNeverBlocks
  <2>1. Due <= Cardinality(Zombies)
      BY DEF IInv, EnoughZombies
  <2>2. undelivered \in Nat /\ Pending \in {0, 1} /\ Queued = 1
      BY DueType DEF IInv, Queued
  <2> QED
      BY <2>1, <2>2, FS_EmptySet DEF Due
<1> QED
    BY <1>1, Invariant, PTL

(* A handle without a cache: what a caller is given comes right after the     *)
(* position it asked for, and it is told that the file ends only at the end   *)
(* of the output, unless two reads of the handle have been in progress.       *)
THEOREM ReadsInOrder == Spec => []BytesInOrder
<1>1. IInv => BytesInOrder
    BY DEF IInv, ReadInv, ReadsOf, OneReader, Given, Busy, BytesInOrder
<1> QED
    BY <1>1, Invariant, PTL
=============================================================================
