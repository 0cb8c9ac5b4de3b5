--------------------------- MODULE ReadLoopProofs ---------------------------
(***************************************************************************)
(* Theorems about ReadLoop, for any caches, descriptors, outputs and        *)
(* process limit.                                                          *)
(***************************************************************************)
EXTENDS ReadLoop, FiniteSetTheorems, SequenceTheorems, TLAPS

-----------------------------------------------------------------------------
(* The handler at the head of the io_service's queue, and what is left.      *)

LEMMA HeadTail ==
    ASSUME NEW S, NEW s \in Seq(S), s # <<>>
    PROVE  /\ Len(s) \in Nat \ {0}
           /\ Head(s) = s[1]
           /\ Head(s) \in S
           /\ Tail(s) \in Seq(S)
           /\ Len(Tail(s)) = Len(s) - 1
           /\ \A i \in 1 .. Len(s) - 1 : Tail(s)[i] = s[i + 1]
    OBVIOUS

LEMMA FunctionIsSeq ==
    ASSUME NEW S, NEW n \in Nat, NEW f \in [1 .. n -> S]
    PROVE  f \in Seq(S) /\ Len(f) = n
<1>1. f = [i \in 1 .. n |-> f[i]]
  OBVIOUS
<1>2. \A i \in 1 .. n : f[i] \in S
  OBVIOUS
<1>3. [i \in 1 .. n |-> f[i]] \in Seq(S) /\ Len([i \in 1 .. n |-> f[i]]) = n
  BY <1>2
<1> QED
  BY <1>1, <1>3

LEMMA TaskFields ==
    ASSUME NEW t \in Task
    PROVE  /\ t.op = "add" => t.cache \in Cache /\ t = AddTask(t.cache)
           /\ t.op = "remove" => t.fd \in Fd \cup {NoFd} /\ t = RemoveTask(t.fd)
           /\ t.op = "read" => /\ t.cache \in Cache
                               /\ t.got \in {"bytes", "end"}
                               /\ t = ReadTask(t.cache, t.got)
    BY DEF Task, AddTask, RemoveTask, ReadTask

LEMMA TasksAreTasks ==
    /\ \A c \in Cache : AddTask(c) \in Task
    /\ \A fd \in Fd \cup {NoFd} : RemoveTask(fd) \in Task
    /\ \A c \in Cache, got \in {"bytes", "end"} : ReadTask(c, got) \in Task
    /\ CancelTask \in Task
    BY DEF Task, AddTask, RemoveTask, ReadTask, CancelTask

LEMMA InUseFinite == IsFiniteSet(InUse) /\ InUse \subseteq Fd
<1>1. InUse \subseteq Fd
  BY DEF InUse
<1> QED
  BY <1>1, FS_Subset, ReadLoopAssumption DEF ReadLoopAssumption

-----------------------------------------------------------------------------
(* Types.                                                                    *)

(* The handlers that destroying entries posts are reads of the aborted       *)
(* streams, in an order of theirs.                                           *)
LEMMA OrderFacts ==
    ASSUME TypeOK, NEW fds \in SUBSET InUse,
           NEW gone, gone = {caches[fd] : fd \in fds},
           NEW order \in Orders(gone \cap reading)
    PROVE  /\ gone \subseteq Cache
           /\ Cardinality(gone \cap reading) \in Nat
           /\ order \in Seq(gone \cap reading)
           /\ Len(order) = Cardinality(gone \cap reading)
           /\ DOMAIN order = 1 .. Len(order)
           /\ \A i, j \in 1 .. Len(order) : order[i] = order[j] => i = j
<1>1. gone \subseteq Cache
  BY DEF TypeOK, InUse
<1>2. IsFiniteSet(fds)
  BY FS_Subset, InUseFinite
<1>3. IsFiniteSet(gone)
  <2> DEFINE entry == [fd \in fds |-> caches[fd]]
  <2>1. entry \in Surjection(fds, gone)
    BY DEF Surjection
  <2> QED
    BY <1>2, <2>1, FS_Surjection
<1>4. Cardinality(gone \cap reading) \in Nat
  BY <1>3, FS_Subset, FS_CardinalityType
<1>5. order \in [1 .. Cardinality(gone \cap reading) -> gone \cap reading]
  BY DEF Orders
<1>6. order \in Seq(gone \cap reading) /\ Len(order) = Cardinality(gone \cap reading)
  BY <1>4, <1>5, FunctionIsSeq
<1> QED
  BY <1>1, <1>4, <1>5, <1>6 DEF Orders

LEMMA AbortTasks ==
    ASSUME NEW S, S \subseteq Cache, NEW order \in Seq(S)
    PROVE  [i \in DOMAIN order |-> ReadTask(order[i], "end")] \in Seq(Task)
<1> DEFINE aborted(i) == ReadTask(order[i], "end")
<1>1. DOMAIN order = 1 .. Len(order) /\ Len(order) \in Nat
  OBVIOUS
<1>2. \A i \in 1 .. Len(order) : aborted(i) \in Task
  BY <1>1, TasksAreTasks
<1> HIDE DEF aborted
<1>3. [i \in 1 .. Len(order) |-> aborted(i)] \in [1 .. Len(order) -> Task]
  BY <1>2
<1>4. [i \in 1 .. Len(order) |-> aborted(i)] \in Seq(Task)
  BY <1>1, <1>3, FunctionIsSeq
<1> QED
  BY <1>1, <1>4 DEF aborted

LEMMA DestroyType ==
    ASSUME TypeOK, NEW fds \in SUBSET InUse, NEW rest \in Seq(Task),
           Destroy(fds, rest)
    PROVE  /\ tasks' \in Seq(Task)
           /\ caches' \in [Fd -> Cache \cup {NoCache}]
           /\ stream' \in [Cache -> Fd \cup {NoFd}]
           /\ reading' \subseteq Cache
           /\ finished' \subseteq Cache
<1> DEFINE gone == {caches[fd] : fd \in fds}
<1>1. gone \subseteq Cache
  BY DEF TypeOK, InUse
<1>2. PICK order \in Orders(gone \cap reading) :
         tasks' = rest \o [i \in DOMAIN order |-> ReadTask(order[i], "end")]
  BY DEF Destroy
<1>3. order \in Seq(gone \cap reading)
  BY <1>2, OrderFacts
<1>4. [i \in DOMAIN order |-> ReadTask(order[i], "end")] \in Seq(Task)
  BY <1>1, <1>3, AbortTasks
<1>5. tasks' \in Seq(Task)
  BY <1>2, <1>4
<1> HIDE DEF gone
<1>6. /\ caches' = [fd \in Fd |-> IF fd \in fds THEN NoCache ELSE caches[fd]]
      /\ stream' = [c \in Cache |-> IF c \in gone THEN NoFd ELSE stream[c]]
      /\ finished' = finished \cup gone
      /\ reading' = reading \ (gone \cap reading)
  BY DEF Destroy, gone
<1> QED
  BY <1>1, <1>5, <1>6 DEF TypeOK

LEMMA DoAddType ==
    ASSUME TypeOK, NEW c \in Cache,
           \/ io = "idle" /\ DoAdd(c, "startAdded", "idle")
           \/ io = "drain" /\ DoAdd(c, "startQueued", "drain")
    PROVE  /\ io' \in {"idle", "drain", "startAdded", "startQueued"}
           /\ starting' \in Cache \cup {NoCache}
           /\ io' \in {"idle", "drain"} => starting' = NoCache
           /\ io' \in {"startAdded", "startQueued"} => starting' # NoCache
    BY ReadLoopAssumption DEF TypeOK, DoAdd, ReadLoopAssumption

LEMMA InitType == Init => TypeOK
<1> SUFFICES ASSUME Init
             PROVE  TypeOK
  OBVIOUS
<1>1. cancelled \in BOOLEAN
  BY Zenon DEF Init
<1>2. tasks \in Seq(Task) /\ queue \in Seq(Cache)
  BY EmptySeq DEF Init
<1> QED
  BY <1>1, <1>2 DEF Init, TypeOK

LEMMA NextType == TypeOK /\ [Next]_vars => TypeOK'
<1> SUFFICES ASSUME TypeOK, [Next]_vars
             PROVE  TypeOK'
  OBVIOUS
<1>1. ASSUME NEW c \in Cache, Add(c)
      PROVE  TypeOK'
  BY <1>1, TasksAreTasks DEF Add, Post, TypeOK, loopVars
<1>2. ASSUME NEW c \in Cache, Drop(c)
      PROVE  TypeOK'
  BY <1>2 DEF Drop, TypeOK, loopVars
<1>3. ASSUME NEW fd \in Fd \cup {NoFd}, Remove(fd)
      PROVE  TypeOK'
  BY <1>3, TasksAreTasks DEF Remove, Post, TypeOK, loopVars
<1>4. CASE Cancel
  BY <1>4, TasksAreTasks DEF Cancel, Post, TypeOK, loopVars
<1>5. ASSUME NEW c \in Cache, Command(c) \/ ReadError(c)
      PROVE  TypeOK'
  <2>1. PICK got \in {"bytes", "end"} : ReadCompletes(c, got)
    BY <1>5 DEF Command, ReadData, ReadEof, ReadError
  <2>2. failed' \subseteq Cache
    BY <1>5 DEF Command, ReadData, ReadEof, ReadError, TypeOK
  <2>3. ReadTask(c, got) \in Task
    BY TasksAreTasks
  <2> QED
    BY <2>1, <2>2, <2>3 DEF ReadCompletes, Post, TypeOK
<1>6. CASE RunAdd
  <2>1. Head(tasks).cache \in Cache /\ Tail(tasks) \in Seq(Task)
    BY <1>6, HeadTail, TaskFields DEF RunAdd, NextTask, TypeOK
  <2>2. CASE io = "idle" /\ DoAdd(Head(tasks).cache, "startAdded", "idle") /\ UNCHANGED queue
    <3>1. /\ io' \in {"idle", "drain", "startAdded", "startQueued"}
          /\ starting' \in Cache \cup {NoCache}
          /\ io' \in {"idle", "drain"} => starting' = NoCache
          /\ io' \in {"startAdded", "startQueued"} => starting' # NoCache
      BY <2>1, <2>2, DoAddType
    <3> QED
      BY <1>6, <2>1, <2>2, <3>1 DEF RunAdd, TypeOK, otherVars
  <2>3. CASE /\ queue' = Append(queue, Head(tasks).cache)
             /\ UNCHANGED <<io, starting>>
    BY <1>6, <2>1, <2>3 DEF RunAdd, TypeOK, otherVars
  <2> QED
    BY <1>6, <2>2, <2>3 DEF RunAdd, NextTask
<1>7. CASE RunRemove
  <2>1. Tail(tasks) \in Seq(Task)
    BY <1>7, HeadTail DEF RunRemove, NextTask, TypeOK
  <2>2. Destroy(InUse \cap {Head(tasks).fd}, Tail(tasks))
    BY <1>7 DEF RunRemove
  <2>3. /\ tasks' \in Seq(Task)
        /\ caches' \in [Fd -> Cache \cup {NoCache}]
        /\ stream' \in [Cache -> Fd \cup {NoFd}]
        /\ reading' \subseteq Cache
        /\ finished' \subseteq Cache
    BY <2>1, <2>2, DestroyType
  <2> QED
    BY <1>7, <2>3 DEF RunRemove, NextTask, TypeOK, otherVars
<1>8. CASE DrainOne
  <2>1. Head(queue) \in Cache /\ Tail(queue) \in Seq(Cache)
    BY <1>8, HeadTail DEF DrainOne, TypeOK
  <2> QED
    BY <1>8, <2>1, DoAddType DEF DrainOne, TypeOK, otherVars
<1>9. CASE DrainEnd
  BY <1>9 DEF DrainEnd, TypeOK, loopVars, otherVars
<1>10. CASE RunRead
  <2> DEFINE c == Head(tasks).cache
  <2>1. c \in Cache /\ Tail(tasks) \in Seq(Task)
    BY <1>10, HeadTail, TaskFields DEF RunRead, NextTask, TypeOK
  <2>2. CASE Head(tasks).got = "bytes" /\ stream[c] # NoFd
    <3>1. /\ size' = [size EXCEPT ![c] = @ + 1]
          /\ reading' = reading \cup {c}
          /\ tasks' = Tail(tasks)
      BY <1>10, <2>2 DEF RunRead
    <3> QED
      BY <1>10, <2>1, <3>1 DEF RunRead, TypeOK, otherVars
  <2>3. CASE ~(Head(tasks).got = "bytes" /\ stream[c] # NoFd)
    <3>1. RemoveTask(stream[c]) \in Task
      BY <2>1, TasksAreTasks DEF TypeOK
    <3>2. /\ tasks' = Append(Tail(tasks), RemoveTask(stream[c]))
          /\ UNCHANGED <<size, reading>>
      BY <1>10, <2>3 DEF RunRead
    <3> QED
      BY <1>10, <2>1, <3>1, <3>2 DEF RunRead, TypeOK, otherVars
  <2> QED
    BY <2>2, <2>3
<1>11. CASE RunCancel
  <2>1. Tail(tasks) \in Seq(Task)
    BY <1>11, HeadTail DEF RunCancel, NextTask, TypeOK
  <2>2. Destroy(InUse, Tail(tasks))
    BY <1>11 DEF RunCancel
  <2>3. /\ tasks' \in Seq(Task)
        /\ caches' \in [Fd -> Cache \cup {NoCache}]
        /\ stream' \in [Cache -> Fd \cup {NoFd}]
        /\ reading' \subseteq Cache
        /\ finished' \subseteq Cache
    BY <2>1, <2>2, DestroyType
  <2> QED
    BY <1>11, <2>3 DEF RunCancel, TypeOK, otherVars
<1>12. CASE StartCommand
  <2>1. starting \in Cache
    BY <1>12 DEF StartCommand, TypeOK
  <2> QED
    BY <1>12, <2>1 DEF StartCommand, TypeOK, otherVars
<1>13. CASE SpawnFails
  BY <1>13 DEF SpawnFails, TypeOK, loopVars, otherVars
<1>14. CASE UNCHANGED vars
  BY <1>14 DEF vars, loopVars, otherVars, TypeOK
<1> QED
  BY <1>1, <1>2, <1>3, <1>4, <1>5, <1>6, <1>7, <1>8, <1>9, <1>10, <1>11, <1>12,
     <1>13, <1>14 DEF Next, Client, IOThread, Terminated

(* Every variable keeps its type: in particular only handlers the loop        *)
(* knows are ever posted.                                                    *)
THEOREM TypeCorrect == Spec => []TypeOK
  BY InitType, NextType, PTL DEF Spec

-----------------------------------------------------------------------------
(* The process limit.                                                        *)

(* Destroying entries only frees slots. *)
LEMMA DestroyLimit ==
    ASSUME ProcessLimited, NEW fds \in SUBSET InUse, NEW rest, Destroy(fds, rest),
           UNCHANGED starting
    PROVE  ProcessLimited'
<1>1. caches' = [fd \in Fd |-> IF fd \in fds THEN NoCache ELSE caches[fd]]
  BY DEF Destroy
<1>2. InUse' \subseteq InUse
  BY <1>1 DEF InUse
<1>3. /\ Cardinality(InUse') <= Cardinality(InUse)
      /\ Cardinality(InUse') \in Nat
      /\ Cardinality(InUse) \in Nat
  BY <1>2, InUseFinite, FS_Subset, FS_CardinalityType
<1> QED
  BY <1>3, ReadLoopAssumption DEF ProcessLimited, ReadLoopAssumption

LEMMA StartLimit == TypeOK /\ ProcessLimited /\ StartCommand => ProcessLimited'
<1> SUFFICES ASSUME TypeOK, ProcessLimited, StartCommand
             PROVE  ProcessLimited'
  OBVIOUS
<1>1. PICK fd \in Fd \ InUse : caches' = [caches EXCEPT ![fd] = starting]
  BY DEF StartCommand
<1>2. starting # NoCache /\ starting' = NoCache
  BY DEF StartCommand, TypeOK
<1>3. InUse' = InUse \cup {fd}
  BY <1>1, <1>2 DEF InUse, TypeOK
<1>4. Cardinality(InUse') = Cardinality(InUse) + 1
  BY <1>1, <1>3, InUseFinite, FS_AddElement
<1>5. Cardinality(InUse) \in Nat
  BY InUseFinite, FS_CardinalityType
<1> QED
  BY <1>2, <1>4, <1>5, ReadLoopAssumption DEF ProcessLimited, ReadLoopAssumption

LEMMA NextLimit == TypeOK /\ ProcessLimited /\ [Next]_vars => ProcessLimited'
<1> SUFFICES ASSUME TypeOK, ProcessLimited, [Next]_vars
             PROVE  ProcessLimited'
  OBVIOUS
<1>1. CASE UNCHANGED <<caches, starting>>
  BY <1>1 DEF ProcessLimited, InUse
<1>2. ASSUME NEW c, NEW start, NEW after, DoAdd(c, start, after), UNCHANGED caches,
             processLimit = 0 \/ BelowLimit, io \in {"idle", "drain"}
      PROVE  ProcessLimited'
  <2>1. starting = NoCache
    BY <1>2 DEF TypeOK
  <2>2. Cardinality(InUse) \in Nat /\ InUse' = InUse
    BY <1>2, InUseFinite, FS_CardinalityType DEF InUse
  <2> QED
    BY <1>2, <2>1, <2>2, ReadLoopAssumption
       DEF ProcessLimited, BelowLimit, ReadLoopAssumption
<1>3. CASE RunAdd
  BY <1>1, <1>2, <1>3 DEF RunAdd, NextTask
<1>4. CASE DrainOne
  BY <1>2, <1>4 DEF DrainOne
<1>5. CASE RunRemove
  BY <1>5, DestroyLimit DEF RunRemove
<1>6. CASE RunCancel
  BY <1>6, DestroyLimit DEF RunCancel
<1>7. CASE StartCommand
  BY <1>7, StartLimit
<1>8. CASE Client \/ DrainEnd \/ RunRead \/ SpawnFails \/ Terminated \/ UNCHANGED vars
  BY <1>1, <1>8 DEF Client, Add, Drop, Remove, Cancel, DrainEnd, RunRead, SpawnFails,
                    Terminated, vars, loopVars
<1>9. ASSUME NEW c \in Cache, Command(c) \/ ReadError(c)
      PROVE  ProcessLimited'
  BY <1>1, <1>9 DEF Command, ReadData, ReadEof, ReadError, ReadCompletes
<1> QED
  BY <1>3, <1>4, <1>5, <1>6, <1>7, <1>8, <1>9 DEF Next, IOThread

(* --process-limit bounds the open streams in every state, whatever the      *)
(* clients add, remove, let go of and cancel, and in whatever order the      *)
(* descriptors are reused.                                                   *)
THEOREM LimitRespected == Spec => []ProcessLimited
<1>1. Init => ProcessLimited
  <2> SUFFICES ASSUME Init
               PROVE  ProcessLimited
    OBVIOUS
  <2>1. InUse = {} /\ starting = NoCache
    BY DEF Init, InUse
  <2> QED
    BY <2>1, FS_EmptySet, ReadLoopAssumption DEF ProcessLimited, ReadLoopAssumption
<1> QED
  BY <1>1, NextLimit, TypeCorrect, PTL DEF Spec

-----------------------------------------------------------------------------
(* The buffers of outstanding reads.                                         *)

LEMMA NextBuffer == TypeOK /\ BufferOwned /\ [Next]_vars => BufferOwned'
<1> SUFFICES ASSUME TypeOK, BufferOwned, [Next]_vars
             PROVE  BufferOwned'
  OBVIOUS
<1>1. CASE reading' \subseteq reading /\ UNCHANGED stream
  BY <1>1 DEF BufferOwned
<1>2. CASE StartCommand
  <2>1. PICK fd \in Fd : stream' = [stream EXCEPT ![starting] = fd]
    BY <1>2 DEF StartCommand
  <2>2. starting \in Cache /\ reading' = reading \cup {starting}
    BY <1>2 DEF StartCommand, TypeOK
  <2> QED
    BY <2>1, <2>2, ReadLoopAssumption DEF BufferOwned, TypeOK, ReadLoopAssumption
<1>3. ASSUME NEW fds \in SUBSET InUse, NEW rest, Destroy(fds, rest)
      PROVE  BufferOwned'
  <2> DEFINE gone == {caches[fd] : fd \in fds}
  <2> HIDE DEF gone
  <2>1. /\ stream' = [c \in Cache |-> IF c \in gone THEN NoFd ELSE stream[c]]
        /\ reading' = reading \ (gone \cap reading)
    BY <1>3 DEF Destroy, gone
  <2> QED
    BY <2>1 DEF BufferOwned, TypeOK
<1>4. CASE RunAdd \/ DrainOne \/ SpawnFails
  BY <1>1, <1>4 DEF RunAdd, DrainOne, SpawnFails, loopVars
<1>5. CASE RunRemove
  BY <1>3, <1>5 DEF RunRemove
<1>7. CASE RunRead
  BY <1>7 DEF RunRead, BufferOwned
<1>8. CASE RunCancel
  BY <1>3, <1>8 DEF RunCancel
<1>9. CASE Client \/ DrainEnd \/ Terminated \/ UNCHANGED vars
  BY <1>1, <1>9 DEF Client, Add, Drop, Remove, Cancel, DrainEnd, Terminated, vars, loopVars
<1>10. ASSUME NEW c \in Cache, Command(c) \/ ReadError(c)
       PROVE  BufferOwned'
  BY <1>1, <1>10 DEF Command, ReadData, ReadEof, ReadError, ReadCompletes
<1> QED
  BY <1>2, <1>4, <1>5, <1>7, <1>8, <1>9, <1>10 DEF Next, IOThread

(* No read is outstanding on a destroyed map entry: the kernel never writes   *)
(* into a freed buffer, whatever is removed or cancelled while it reads.     *)
THEOREM BuffersOutliveReads == Spec => []BufferOwned
<1>1. Init => BufferOwned
  BY DEF Init, BufferOwned
<1> QED
  BY <1>1, NextBuffer, TypeCorrect, PTL DEF Spec

-----------------------------------------------------------------------------
(* Every cache is translated at most once.  It waits in one place at a time,  *)
(* posted, queued or being started, and what waits was neither open nor       *)
(* finished before.                                                          *)

Fresh(c) == c \in added /\ stream[c] = NoFd /\ c \notin finished

IsAdd(i) == i \in 1 .. Len(tasks) /\ tasks[i].op = "add"

PostedOnce ==
    /\ \A i \in 1 .. Len(tasks) : IsAdd(i) =>
          /\ Fresh(tasks[i].cache)
          /\ tasks[i].cache # starting
          /\ \A j \in 1 .. Len(queue) : queue[j] # tasks[i].cache
    /\ \A i, j \in 1 .. Len(tasks) :
          IsAdd(i) /\ IsAdd(j) /\ tasks[i].cache = tasks[j].cache => i = j

QueuedOnce ==
    \A i \in 1 .. Len(queue) :
        /\ Fresh(queue[i])
        /\ queue[i] # starting
        /\ \A j \in 1 .. Len(queue) : queue[i] = queue[j] => i = j

StartedOnce ==
    /\ starting # NoCache => Fresh(starting)
    /\ \A c \in Cache : stream[c] # NoFd \/ c \in finished => c \in added
    /\ \A c \in finished : stream[c] = NoFd

Once ==
    /\ TypeOK
    /\ MapMatchesStreams
    /\ PostedOnce
    /\ QueuedOnce
    /\ StartedOnce

(* The adds among the handlers are those there were, k of them executed. *)
AddsShift(k) ==
    \A i \in 1 .. Len(tasks)' :
        IsAdd(i)' => IsAdd(i + k) /\ tasks'[i] = tasks[i + k]

LEMMA AppendShift ==
    ASSUME TypeOK, NEW task \in Task, task.op # "add", tasks' = Append(tasks, task)
    PROVE  AddsShift(0)
  BY DEF TypeOK, AddsShift, IsAdd

LEMMA TailShift ==
    ASSUME TypeOK, tasks # <<>>, tasks' = Tail(tasks)
    PROVE  AddsShift(1)
  BY HeadTail DEF TypeOK, AddsShift, IsAdd

LEMMA TailAppendShift ==
    ASSUME TypeOK, tasks # <<>>, NEW task \in Task, task.op # "add",
           tasks' = Append(Tail(tasks), task)
    PROVE  AddsShift(1)
  BY HeadTail DEF TypeOK, AddsShift, IsAdd

LEMMA DestroyShift ==
    ASSUME TypeOK, tasks # <<>>, NEW fds \in SUBSET InUse, Destroy(fds, Tail(tasks))
    PROVE  AddsShift(1)
<1> DEFINE gone == {caches[fd] : fd \in fds}
<1>1. PICK order \in Orders(gone \cap reading) :
         tasks' = Tail(tasks) \o [i \in DOMAIN order |-> ReadTask(order[i], "end")]
  BY DEF Destroy
<1>2. gone \subseteq Cache /\ order \in Seq(gone \cap reading)
  BY <1>1, OrderFacts
<1> DEFINE reads == [i \in DOMAIN order |-> ReadTask(order[i], "end")]
<1>3. reads \in Seq(Task)
  BY <1>2, AbortTasks
<1>4. Len(reads) = Len(order) /\ Len(order) \in Nat /\ DOMAIN order = 1 .. Len(order)
  BY <1>2, <1>3
<1>5. \A i \in 1 .. Len(reads) : reads[i].op = "read"
  BY <1>4 DEF ReadTask
<1> HIDE DEF reads
<1>6. Tail(tasks) \in Seq(Task) /\ Len(Tail(tasks)) = Len(tasks) - 1
  BY HeadTail DEF TypeOK
<1>7. tasks' = Tail(tasks) \o reads
  BY <1>1 DEF reads
<1>8. \A i \in 1 .. Len(tasks)' :
         tasks'[i] = IF i <= Len(tasks) - 1 THEN Tail(tasks)[i] ELSE reads[i - (Len(tasks) - 1)]
  BY <1>3, <1>6, <1>7
<1>9. ASSUME NEW i \in 1 .. Len(tasks)', IsAdd(i)'
      PROVE  IsAdd(i + 1) /\ tasks'[i] = tasks[i + 1]
  <2>1. Len(tasks)' = Len(tasks) - 1 + Len(reads) /\ Len(reads) \in Nat /\ Len(tasks) \in Nat
    BY <1>3, <1>6, <1>7 DEF TypeOK
  <2>2. CASE i <= Len(tasks) - 1
    BY <1>8, <1>9, <2>1, <2>2, HeadTail DEF TypeOK, IsAdd
  <2>3. CASE i > Len(tasks) - 1
    <3>1. i - (Len(tasks) - 1) \in 1 .. Len(reads)
      BY <2>1, <2>3
    <3> QED
      BY <1>5, <1>8, <1>9, <2>1, <2>3, <3>1 DEF IsAdd
  <2> QED
    BY <2>1, <2>2, <2>3
<1> QED
  BY <1>9 DEF AddsShift

(* What waits is undisturbed by a step that starts and finishes nothing that  *)
(* waits.                                                                    *)
LEMMA PostedStays ==
    ASSUME TypeOK, PostedOnce, NEW k \in {0, 1}, AddsShift(k), UNCHANGED queue,
           tasks' \in Seq(Task),
           \A i \in 1 .. Len(tasks)' : IsAdd(i)' =>
               Fresh(tasks[i].cache)' /\ tasks'[i].cache # starting'
    PROVE  PostedOnce'
<1>1. \A i \in 1 .. Len(tasks)' : IsAdd(i)' =>
        /\ i + k \in 1 .. Len(tasks)
        /\ IsAdd(i + k)
        /\ tasks'[i] = tasks[i + k]
  BY DEF AddsShift, IsAdd
<1>2. \A i \in 1 .. Len(tasks)' : IsAdd(i)' =>
        /\ Fresh(tasks[i].cache)'
        /\ tasks'[i].cache # starting'
        /\ \A j \in 1 .. Len(queue)' : queue'[j] # tasks'[i].cache
  BY <1>1 DEF PostedOnce, Fresh
<1>3. \A i, j \in 1 .. Len(tasks)' :
        IsAdd(i)' /\ IsAdd(j)' /\ tasks'[i].cache = tasks'[j].cache => i = j
  BY <1>1 DEF PostedOnce
<1> QED
  BY <1>2, <1>3 DEF PostedOnce

LEMMA NothingStarts ==
    ASSUME Once, TypeOK', NEW k \in {0, 1}, AddsShift(k),
           UNCHANGED <<starting, queue, caches, stream, finished, added>>
    PROVE  Once'
<1>1. PostedOnce'
  <2>1. \A i \in 1 .. Len(tasks)' : IsAdd(i)' =>
           Fresh(tasks[i].cache)' /\ tasks'[i].cache # starting'
    BY DEF Once, PostedOnce, AddsShift, IsAdd, Fresh
  <2> QED
    BY <2>1, PostedStays DEF Once, TypeOK
<1> QED
  BY <1>1 DEF Once, MapMatchesStreams, QueuedOnce, StartedOnce, Fresh

LEMMA AddOnce ==
    ASSUME Once, TypeOK', NEW c \in Cache, Add(c)
    PROVE  Once'
<1>1. /\ c \notin added
      /\ added' = added \cup {c}
      /\ tasks' = Append(tasks, AddTask(c))
      /\ UNCHANGED <<starting, queue, caches, stream, finished>>
  BY DEF Add, Post, loopVars
<1>2. stream[c] = NoFd /\ c \notin finished
  BY <1>1 DEF Once, StartedOnce
<1>3. \A d : Fresh(d) => Fresh(d)' /\ d # c
  BY <1>1 DEF Fresh
<1>4. Fresh(c)'
  BY <1>1, <1>2 DEF Fresh
<1>5. /\ tasks \in Seq(Task)
      /\ Len(tasks') = Len(tasks) + 1
      /\ \A i \in 1 .. Len(tasks) : tasks'[i] = tasks[i]
      /\ tasks'[Len(tasks) + 1] = AddTask(c)
  BY <1>1, TasksAreTasks DEF Once, TypeOK
<1>6. c # NoCache /\ c # starting
  BY <1>1, ReadLoopAssumption DEF Once, StartedOnce, Fresh, ReadLoopAssumption
<1>7. \A j \in 1 .. Len(queue) : queue[j] # c
  BY <1>3 DEF Once, QueuedOnce
<1>8. \A i \in 1 .. Len(tasks) : IsAdd(i) => tasks[i].cache # c
  BY <1>3 DEF Once, PostedOnce
<1>9. \A i \in 1 .. Len(tasks)' :
        \/ i \in 1 .. Len(tasks) /\ tasks'[i] = tasks[i] /\ (IsAdd(i)' <=> IsAdd(i))
        \/ i = Len(tasks) + 1 /\ tasks'[i].cache = c
  BY <1>5 DEF IsAdd, AddTask
<1>10. PostedOnce'
  <2>1. \A i \in 1 .. Len(tasks)' : IsAdd(i)' =>
          /\ Fresh(tasks[i].cache)'
          /\ tasks'[i].cache # starting'
          /\ \A j \in 1 .. Len(queue)' : queue'[j] # tasks'[i].cache
    BY <1>1, <1>3, <1>4, <1>6, <1>7, <1>9 DEF Once, PostedOnce, Fresh
  <2>2. \A i, j \in 1 .. Len(tasks)' :
          IsAdd(i)' /\ IsAdd(j)' /\ tasks'[i].cache = tasks'[j].cache => i = j
    BY <1>8, <1>9 DEF Once, PostedOnce
  <2> QED
    BY <2>1, <2>2 DEF PostedOnce
<1>11. QueuedOnce'
  BY <1>1, <1>3 DEF Once, QueuedOnce, Fresh
<1>12. StartedOnce'
  BY <1>1, <1>3 DEF Once, StartedOnce, Fresh
<1> QED
  BY <1>1, <1>10, <1>11, <1>12 DEF Once, MapMatchesStreams

LEMMA RunAddOnce ==
    ASSUME Once, TypeOK', RunAdd
    PROVE  Once'
<1> DEFINE c == Head(tasks).cache
<1>1. /\ tasks # <<>> /\ tasks \in Seq(Task)
      /\ tasks' = Tail(tasks)
      /\ UNCHANGED <<caches, stream, finished, added>>
  BY DEF RunAdd, NextTask, otherVars, Once, TypeOK
<1>2. AddsShift(1)
  BY <1>1, TailShift DEF Once
<1>3. IsAdd(1) /\ tasks[1].cache = c
  BY <1>1, HeadTail DEF RunAdd, NextTask, IsAdd
<1>4. Fresh(c) /\ c # starting /\ \A j \in 1 .. Len(queue) : queue[j] # c
  BY <1>3 DEF Once, PostedOnce, IsAdd
<1>5. \A i \in 1 .. Len(tasks)' : IsAdd(i)' =>
        /\ IsAdd(i + 1) /\ tasks'[i] = tasks[i + 1]
        /\ Fresh(tasks[i].cache)'
        /\ tasks'[i].cache # starting
        /\ tasks'[i].cache # c
  <2>1. ASSUME NEW i \in 1 .. Len(tasks)', IsAdd(i)'
        PROVE  /\ IsAdd(i + 1) /\ tasks'[i] = tasks[i + 1]
               /\ i + 1 \in 1 .. Len(tasks) /\ 1 \in 1 .. Len(tasks) /\ i + 1 # 1
    BY <1>2, <1>3, <2>1 DEF AddsShift, IsAdd
  <2> QED
    BY <1>1, <1>3, <2>1 DEF Once, PostedOnce, Fresh
<1>6. CASE UNCHANGED <<starting, queue>>
  BY <1>1, <1>2, <1>6, NothingStarts
<1>7. CASE starting' = c /\ UNCHANGED queue /\ starting = NoCache
  <2>1. PostedOnce'
    BY <1>1, <1>2, <1>5, <1>7, PostedStays DEF Once, TypeOK
  <2>2. QueuedOnce'
    BY <1>1, <1>4, <1>7 DEF Once, QueuedOnce, Fresh
  <2>3. StartedOnce'
    BY <1>1, <1>4, <1>7 DEF Once, StartedOnce, Fresh
  <2> QED
    BY <1>1, <2>1, <2>2, <2>3 DEF Once, MapMatchesStreams
<1>8. CASE queue' = Append(queue, c) /\ UNCHANGED starting
  <2>1. /\ queue \in Seq(Cache)
        /\ c \in Cache
        /\ Len(queue') = Len(queue) + 1
        /\ \A j \in 1 .. Len(queue) : queue'[j] = queue[j]
        /\ queue'[Len(queue) + 1] = c
    BY <1>1, <1>8, HeadTail, TaskFields DEF RunAdd, NextTask, Once, TypeOK
  <2>2. \A j \in 1 .. Len(queue') :
           \/ j \in 1 .. Len(queue) /\ queue'[j] = queue[j]
           \/ j = Len(queue) + 1 /\ queue'[j] = c
    BY <2>1
  <2>3. PostedOnce'
    <3>1. \A i \in 1 .. Len(tasks)' : IsAdd(i)' =>
            /\ Fresh(tasks[i].cache)'
            /\ tasks'[i].cache # starting'
            /\ \A j \in 1 .. Len(queue)' : queue'[j] # tasks'[i].cache
      BY <1>5, <1>8, <2>2 DEF Once, PostedOnce, IsAdd
    <3>2. \A i, j \in 1 .. Len(tasks)' :
            IsAdd(i)' /\ IsAdd(j)' /\ tasks'[i].cache = tasks'[j].cache => i = j
      BY <1>5 DEF Once, PostedOnce, IsAdd
    <3> QED
      BY <3>1, <3>2 DEF PostedOnce
  <2>4. QueuedOnce'
    BY <1>1, <1>4, <1>8, <2>2 DEF Once, QueuedOnce, Fresh
  <2>5. StartedOnce'
    BY <1>1, <1>8 DEF Once, StartedOnce, Fresh
  <2> QED
    BY <1>1, <2>3, <2>4, <2>5 DEF Once, MapMatchesStreams
<1>9. starting = NoCache
  BY DEF RunAdd, NextTask, Once, TypeOK
<1> QED
  BY <1>6, <1>7, <1>8, <1>9 DEF RunAdd, DoAdd

LEMMA DrainOnce ==
    ASSUME Once, TypeOK', DrainOne
    PROVE  Once'
<1> DEFINE c == Head(queue)
<1>1. /\ queue # <<>> /\ queue \in Seq(Cache)
      /\ queue' = Tail(queue)
      /\ starting = NoCache
      /\ UNCHANGED <<tasks, caches, stream, finished, added>>
  BY DEF DrainOne, otherVars, Once, TypeOK
<1>2. /\ c = queue[1] /\ 1 \in 1 .. Len(queue)
      /\ \A j \in 1 .. Len(queue') : /\ j + 1 \in 1 .. Len(queue)
                                    /\ j + 1 # 1
                                    /\ queue'[j] = queue[j + 1]
  BY <1>1, HeadTail
<1>3. /\ Fresh(c)
      /\ \A j \in 1 .. Len(queue') : queue'[j] # c
      /\ \A i \in 1 .. Len(tasks) : IsAdd(i) => tasks[i].cache # c
  BY <1>2 DEF Once, QueuedOnce, PostedOnce
<1>4. starting' = starting \/ starting' = c
  BY DEF DrainOne, DoAdd
<1>5. PostedOnce'
  <2>1. \A i : IsAdd(i)' <=> IsAdd(i)
    BY <1>1 DEF IsAdd
  <2> QED
    BY <1>1, <1>2, <1>3, <1>4, <2>1 DEF Once, PostedOnce, Fresh
<1>6. QueuedOnce'
  BY <1>1, <1>2, <1>3, <1>4 DEF Once, QueuedOnce, Fresh
<1>7. StartedOnce'
  BY <1>1, <1>3, <1>4 DEF Once, StartedOnce, Fresh
<1> QED
  BY <1>1, <1>5, <1>6, <1>7 DEF Once, MapMatchesStreams

LEMMA StartOnce ==
    ASSUME Once, TypeOK', StartCommand
    PROVE  Once'
<1> DEFINE c == starting
<1>1. PICK fd \in Fd \ InUse : /\ caches' = [caches EXCEPT ![fd] = c]
                               /\ stream' = [stream EXCEPT ![c] = fd]
  BY DEF StartCommand
<1>2. /\ c \in Cache /\ c # NoCache /\ starting' = NoCache
      /\ UNCHANGED <<tasks, queue, finished, added>>
      /\ \A i : IsAdd(i)' <=> IsAdd(i)
  BY DEF StartCommand, otherVars, Once, TypeOK, IsAdd
<1>3. Fresh(c)
  BY <1>2 DEF Once, StartedOnce
<1>4. caches[fd] = NoCache /\ fd # NoFd
  BY <1>1, ReadLoopAssumption DEF InUse, ReadLoopAssumption
<1>5. \A d \in Cache : d # c => stream'[d] = stream[d]
  BY <1>1 DEF Once, TypeOK
<1>6. MapMatchesStreams'
  BY <1>1, <1>2, <1>3, <1>4, ReadLoopAssumption
     DEF Once, MapMatchesStreams, TypeOK, Fresh, ReadLoopAssumption
<1>7. \A d \in Cache : d # c /\ Fresh(d) => Fresh(d)' /\ d # starting'
  BY <1>2, <1>5, ReadLoopAssumption DEF Fresh, ReadLoopAssumption
<1>8. PostedOnce'
  <2>1. \A i \in 1 .. Len(tasks) : IsAdd(i) => tasks[i].cache \in Cache
    BY TaskFields DEF Once, TypeOK, IsAdd
  <2>2. \A i \in 1 .. Len(tasks)' : IsAdd(i)' =>
           Fresh(tasks[i].cache)' /\ tasks'[i].cache # starting'
    BY <1>2, <1>7, <2>1 DEF Once, PostedOnce, Fresh
  <2> QED
    BY <1>2, <2>2 DEF Once, PostedOnce
<1>9. QueuedOnce'
  <2>1. \A i \in 1 .. Len(queue) : queue[i] \in Cache
    BY DEF Once, TypeOK
  <2> QED
    BY <1>2, <1>7, <2>1 DEF Once, QueuedOnce, Fresh
<1>10. StartedOnce'
  BY <1>1, <1>2, <1>3, <1>5 DEF Once, StartedOnce, Fresh, TypeOK
<1> QED
  BY <1>6, <1>8, <1>9, <1>10 DEF Once

LEMMA DestroyOnce ==
    ASSUME Once, TypeOK', tasks # <<>>, NEW fds \in SUBSET InUse,
           Destroy(fds, Tail(tasks)), UNCHANGED <<starting, queue, added>>
    PROVE  Once'
<1> DEFINE gone == {caches[fd] : fd \in fds}
<1>1. \A c \in gone : c \in Cache /\ stream[c] # NoFd
  <2>1. ASSUME NEW fd \in fds
        PROVE  caches[fd] \in Cache /\ stream[caches[fd]] = fd /\ fd \in Fd
    BY DEF Once, TypeOK, MapMatchesStreams, InUse
  <2> QED
    BY <2>1, ReadLoopAssumption DEF ReadLoopAssumption
<1>2. \A c \in Cache, fd \in fds : caches[fd] = c => c \in gone
  OBVIOUS
<1>3. \A c \in gone : \E fd \in fds : caches[fd] = c
  OBVIOUS
<1> HIDE DEF gone
<1>4. /\ caches' = [fd \in Fd |-> IF fd \in fds THEN NoCache ELSE caches[fd]]
      /\ stream' = [c \in Cache |-> IF c \in gone THEN NoFd ELSE stream[c]]
      /\ finished' = finished \cup gone
  BY DEF Destroy, gone
<1>5. \A c \in Cache : Fresh(c) => Fresh(c)'
  BY <1>1, <1>4 DEF Fresh
<1>6. AddsShift(1)
  BY DestroyShift DEF Once
<1>7. PostedOnce'
  <2>1. \A i \in 1 .. Len(tasks) : IsAdd(i) => tasks[i].cache \in Cache
    BY TaskFields DEF Once, TypeOK, IsAdd
  <2>2. \A i \in 1 .. Len(tasks)' : IsAdd(i)' =>
           /\ i + 1 \in 1 .. Len(tasks)
           /\ IsAdd(i + 1)
           /\ tasks'[i] = tasks[i + 1]
    BY <1>6 DEF AddsShift, IsAdd
  <2>3. \A i \in 1 .. Len(tasks)' : IsAdd(i)' =>
           Fresh(tasks'[i].cache) /\ tasks'[i].cache \in Cache /\ tasks'[i].cache # starting'
    BY <2>1, <2>2 DEF Once, PostedOnce
  <2>4. \A i \in 1 .. Len(tasks)' : IsAdd(i)' =>
           Fresh(tasks[i].cache)' /\ tasks'[i].cache # starting'
    BY <1>5, <2>3 DEF Fresh
  <2> QED
    BY <1>6, <2>4, PostedStays DEF Once, TypeOK
<1>8. QueuedOnce'
  <2>1. \A i \in 1 .. Len(queue) : queue[i] \in Cache
    BY DEF Once, TypeOK
  <2> QED
    BY <1>5, <2>1 DEF Once, QueuedOnce, Fresh
<1>9. StartedOnce'
  BY <1>1, <1>4, <1>5 DEF Once, StartedOnce, TypeOK, Fresh
<1>10. MapMatchesStreams'
  BY <1>1, <1>2, <1>3, <1>4, ReadLoopAssumption
     DEF Once, MapMatchesStreams, TypeOK, InUse, ReadLoopAssumption
<1> QED
  BY <1>7, <1>8, <1>9, <1>10 DEF Once

LEMMA InitOnce == Init => Once
<1> SUFFICES ASSUME Init
             PROVE  Once
  OBVIOUS
<1>1. tasks = <<>> /\ queue = <<>> /\ 1 .. Len(tasks) = {} /\ 1 .. Len(queue) = {}
  BY DEF Init
<1>2. PostedOnce /\ QueuedOnce
  BY <1>1 DEF PostedOnce, QueuedOnce
<1>3. StartedOnce
  BY DEF Init, StartedOnce
<1>4. MapMatchesStreams
  BY ReadLoopAssumption DEF Init, MapMatchesStreams, ReadLoopAssumption
<1> QED
  BY <1>2, <1>3, <1>4, InitType DEF Once

LEMMA NextOnce == Once /\ [Next]_vars => Once'
<1> SUFFICES ASSUME Once, [Next]_vars
             PROVE  Once'
  OBVIOUS
<1>1. TypeOK /\ TypeOK'
  BY NextType DEF Once
<1>2. CASE UNCHANGED <<tasks, starting, queue, caches, stream, finished, added>>
  <2>1. AddsShift(0)
    BY <1>1, <1>2 DEF AddsShift, IsAdd, TypeOK
  <2> QED
    BY <1>1, <1>2, <2>1, NothingStarts
<1>3. ASSUME NEW task \in Task, task.op # "add", tasks' = Append(tasks, task),
             UNCHANGED <<starting, queue, caches, stream, finished, added>>
      PROVE  Once'
  BY <1>1, <1>3, AppendShift, NothingStarts
<1>4. ASSUME NEW c \in Cache, Add(c)
      PROVE  Once'
  BY <1>1, <1>4, AddOnce
<1>5. CASE (\E c \in Cache : Drop(c)) \/ DrainEnd \/ SpawnFails \/ Terminated \/ UNCHANGED vars
  BY <1>2, <1>5 DEF Drop, DrainEnd, SpawnFails, Terminated, vars, loopVars, otherVars
<1>6. ASSUME NEW fd \in Fd \cup {NoFd}, Remove(fd)
      PROVE  Once'
  <2>1. RemoveTask(fd) \in Task /\ RemoveTask(fd).op # "add"
    BY TasksAreTasks DEF RemoveTask
  <2> QED
    BY <1>3, <1>6, <2>1 DEF Remove, Post, loopVars
<1>7. CASE Cancel
  <2>1. CancelTask \in Task /\ CancelTask.op # "add"
    BY TasksAreTasks DEF CancelTask
  <2> QED
    BY <1>3, <1>7, <2>1 DEF Cancel, Post, loopVars
<1>8. ASSUME NEW c \in Cache, Command(c) \/ ReadError(c)
      PROVE  Once'
  <2>1. PICK got \in {"bytes", "end"} : ReadCompletes(c, got)
    BY <1>8 DEF Command, ReadData, ReadEof, ReadError
  <2>2. ReadTask(c, got) \in Task /\ ReadTask(c, got).op # "add"
    BY TasksAreTasks DEF ReadTask
  <2> QED
    BY <1>3, <2>1, <2>2 DEF ReadCompletes, Post
<1>9. CASE RunAdd
  BY <1>1, <1>9, RunAddOnce
<1>10. CASE DrainOne
  BY <1>1, <1>10, DrainOnce
<1>11. CASE StartCommand
  BY <1>1, <1>11, StartOnce
<1>12. CASE RunRemove
  BY <1>1, <1>12, DestroyOnce DEF RunRemove, NextTask, otherVars
<1>13. CASE RunCancel
  BY <1>1, <1>13, DestroyOnce DEF RunCancel, NextTask, otherVars
<1>14. CASE RunRead
  <2>1. tasks # <<>> /\ UNCHANGED <<starting, queue, caches, stream, finished, added>>
    BY <1>14 DEF RunRead, NextTask, otherVars
  <2>2. CASE tasks' = Tail(tasks)
    BY <1>1, <2>1, <2>2, TailShift, NothingStarts
  <2>3. CASE tasks' = Append(Tail(tasks), RemoveTask(stream[Head(tasks).cache]))
    <3>1. stream[Head(tasks).cache] \in Fd \cup {NoFd}
      BY <1>1, <1>14, HeadTail, TaskFields DEF RunRead, NextTask, TypeOK
    <3>2. /\ RemoveTask(stream[Head(tasks).cache]) \in Task
          /\ RemoveTask(stream[Head(tasks).cache]).op # "add"
      BY <3>1, TasksAreTasks DEF RemoveTask
    <3> QED
      BY <1>1, <2>1, <2>3, <3>2, TailAppendShift, NothingStarts
  <2> QED
    BY <1>14, <2>2, <2>3 DEF RunRead
<1> QED
  BY <1>4, <1>5, <1>6, <1>7, <1>8, <1>9, <1>10, <1>11, <1>12, <1>13, <1>14
     DEF Next, Client, IOThread

LEMMA EveryCacheOnce == Spec => []Once
  BY InitOnce, NextOnce, PTL DEF Spec

(* The map and the native handles of the streams agree, although descriptors  *)
(* are reused and entries are removed by number.                             *)
THEOREM MapCorrect == Spec => []MapMatchesStreams
<1>1. Once => MapMatchesStreams
  BY DEF Once
<1> QED
  BY <1>1, EveryCacheOnce, PTL

LEMMA FinishedStep ==
    Once /\ [Next]_vars =>
        [\A c \in finished : c \in finished' /\ size'[c] = size[c]]_vars
<1> SUFFICES ASSUME Once, [Next]_vars, NEW c \in finished
             PROVE  c \in finished' /\ size'[c] = size[c]
  OBVIOUS
<1>1. CASE UNCHANGED <<finished, size>>
  BY <1>1
<1>2. CASE RunRemove \/ RunCancel
  BY <1>2 DEF RunRemove, RunCancel, Destroy
<1>3. CASE RunRead
  <2>1. UNCHANGED finished
    BY <1>3 DEF RunRead
  <2>2. CASE UNCHANGED size
    BY <2>1, <2>2
  <2>3. CASE /\ stream[Head(tasks).cache] # NoFd
             /\ size' = [size EXCEPT ![Head(tasks).cache] = @ + 1]
    <3>1. stream[c] = NoFd
      BY DEF Once, StartedOnce
    <3> QED
      BY <2>1, <2>3, <3>1 DEF Once, TypeOK
  <2> QED
    BY <1>3, <2>2, <2>3 DEF RunRead
<1>4. CASE Client \/ RunAdd \/ DrainOne \/ DrainEnd \/ StartCommand \/ SpawnFails
             \/ Terminated \/ UNCHANGED vars
  BY <1>1, <1>4 DEF Client, Add, Drop, Remove, Cancel, RunAdd, DrainOne, DrainEnd,
                    StartCommand, SpawnFails, Terminated, vars, loopVars
<1>5. ASSUME NEW d \in Cache, Command(d) \/ ReadError(d)
      PROVE  c \in finished' /\ size'[c] = size[c]
  BY <1>1, <1>5 DEF Command, ReadData, ReadEof, ReadError, ReadCompletes
<1> QED
  BY <1>2, <1>3, <1>4, <1>5 DEF Next, IOThread

(* A finished cache stays finished and is never written again: a completion   *)
(* that was posted before its stream was closed does not reach it.           *)
THEOREM FinishedForGood == Spec => FinishedIsFinal
  BY EveryCacheOnce, FinishedStep, PTL DEF Spec, FinishedIsFinal

-----------------------------------------------------------------------------
(* A task waits only while every slot is taken.  When add() starts a command  *)
(* nothing waits; what frees a slot goes on with the queue, except for the    *)
(* handler of cancel(), which is not posted before cancel() is called.        *)

CancelPosted == \A i \in 1 .. Len(tasks) : tasks[i].op = "cancel" => cancelled

Waiting ==
    /\ processLimit = 0 => queue = <<>>
    /\ io = "startAdded" /\ ~cancelled => queue = <<>>
    /\ QueueOnlyWhenFull

LEMMA DestroyPosted ==
    ASSUME TypeOK, CancelPosted, tasks # <<>>, NEW fds \in SUBSET InUse,
           Destroy(fds, Tail(tasks)), UNCHANGED cancelled
    PROVE  CancelPosted'
<1> DEFINE gone == {caches[fd] : fd \in fds}
<1>1. PICK order \in Orders(gone \cap reading) :
         tasks' = Tail(tasks) \o [i \in DOMAIN order |-> ReadTask(order[i], "end")]
  BY DEF Destroy
<1>2. gone \subseteq Cache /\ order \in Seq(gone \cap reading)
  BY <1>1, OrderFacts
<1> DEFINE reads == [i \in DOMAIN order |-> ReadTask(order[i], "end")]
<1>3. reads \in Seq(Task)
  BY <1>2, AbortTasks
<1>4. \A i \in 1 .. Len(reads) : reads[i].op = "read"
  BY <1>2, <1>3 DEF ReadTask
<1> HIDE DEF reads
<1>5. Tail(tasks) \in Seq(Task) /\ Len(Tail(tasks)) = Len(tasks) - 1 /\ Len(tasks) \in Nat
  BY HeadTail DEF TypeOK
<1>6. tasks' = Tail(tasks) \o reads
  BY <1>1 DEF reads
<1>7. \A i \in 1 .. Len(Tail(tasks)) : Tail(tasks)[i].op = "cancel" => cancelled
  BY <1>5, HeadTail DEF TypeOK, CancelPosted
<1>8. ASSUME NEW i \in 1 .. Len(tasks)', tasks'[i].op = "cancel"
      PROVE  cancelled
  <2>1. Len(tasks)' = Len(Tail(tasks)) + Len(reads) /\ Len(reads) \in Nat
    BY <1>3, <1>5, <1>6
  <2>2. CASE i <= Len(Tail(tasks))
    BY <1>3, <1>5, <1>6, <1>7, <1>8, <2>2
  <2>3. CASE i > Len(Tail(tasks))
    <3>1. i - Len(Tail(tasks)) \in 1 .. Len(reads)
      BY <1>5, <2>1, <2>3
    <3>2. tasks'[i] = reads[i - Len(Tail(tasks))]
      BY <1>3, <1>5, <1>6, <2>1, <2>3
    <3> QED
      BY <1>4, <1>8, <3>1, <3>2
  <2> QED
    BY <1>5, <2>1, <2>2, <2>3
<1> QED
  BY <1>8 DEF CancelPosted

LEMMA PostedOnlyBy ==
    ASSUME TypeOK, CancelPosted, [Next]_vars
    PROVE  CancelPosted'
<1>1. \A i \in 1 .. Len(tasks) : tasks[i].op = "cancel" => cancelled
  BY DEF CancelPosted
<1>2. ASSUME UNCHANGED <<tasks, cancelled>>
      PROVE  CancelPosted'
  BY <1>2 DEF CancelPosted
<1>3. ASSUME NEW task \in Task, task.op # "cancel", UNCHANGED cancelled,
             tasks' = Append(tasks, task)
      PROVE  CancelPosted'
  BY <1>1, <1>3 DEF TypeOK, CancelPosted
<1>4. ASSUME tasks # <<>>, tasks' = Tail(tasks), UNCHANGED cancelled
      PROVE  CancelPosted'
  BY <1>1, <1>4, HeadTail DEF TypeOK, CancelPosted
<1>5. ASSUME NEW task \in Task, task.op # "cancel", tasks # <<>>, UNCHANGED cancelled,
             tasks' = Append(Tail(tasks), task)
      PROVE  CancelPosted'
  BY <1>1, <1>5, HeadTail DEF TypeOK, CancelPosted
<1>6. CASE Cancel
  BY <1>6 DEF Cancel, CancelPosted
<1>7. ASSUME NEW c \in Cache, Add(c)
      PROVE  CancelPosted'
  <2>1. AddTask(c) \in Task /\ AddTask(c).op = "add"
    BY TasksAreTasks DEF AddTask
  <2> QED
    BY <1>3, <1>7, <2>1 DEF Add, Post
<1>8. ASSUME NEW fd \in Fd \cup {NoFd}, Remove(fd)
      PROVE  CancelPosted'
  <2>1. RemoveTask(fd) \in Task /\ RemoveTask(fd).op = "remove"
    BY TasksAreTasks DEF RemoveTask
  <2> QED
    BY <1>3, <1>8, <2>1 DEF Remove, Post
<1>9. ASSUME NEW c \in Cache, Command(c) \/ ReadError(c)
      PROVE  CancelPosted'
  <2>1. PICK got \in {"bytes", "end"} : ReadCompletes(c, got)
    BY <1>9 DEF Command, ReadData, ReadEof, ReadError
  <2>2. ReadTask(c, got) \in Task /\ ReadTask(c, got).op = "read"
    BY TasksAreTasks DEF ReadTask
  <2> QED
    BY <1>3, <2>1, <2>2 DEF ReadCompletes, Post
<1>10. CASE RunRead
  <2>1. tasks # <<>> /\ Head(tasks) \in Task /\ Head(tasks).op = "read" /\ UNCHANGED cancelled
    BY <1>10, HeadTail DEF RunRead, NextTask, TypeOK, otherVars
  <2>2. stream[Head(tasks).cache] \in Fd \cup {NoFd}
    BY <2>1, TaskFields DEF TypeOK
  <2>3. /\ RemoveTask(stream[Head(tasks).cache]) \in Task
        /\ RemoveTask(stream[Head(tasks).cache]).op = "remove"
    BY <2>2, TasksAreTasks DEF RemoveTask
  <2> QED
    BY <1>4, <1>5, <1>10, <2>1, <2>3 DEF RunRead
<1>11. CASE RunAdd
  BY <1>4, <1>11 DEF RunAdd, NextTask, otherVars
<1>12. CASE RunRemove
  BY <1>12, DestroyPosted DEF RunRemove, NextTask, otherVars
<1>13. CASE RunCancel
  BY <1>13, DestroyPosted DEF RunCancel, NextTask, otherVars
<1>14. CASE (\E c \in Cache : Drop(c)) \/ DrainOne \/ DrainEnd \/ StartCommand \/ SpawnFails
              \/ Terminated \/ UNCHANGED vars
  BY <1>2, <1>14 DEF Drop, DrainOne, DrainEnd, StartCommand, SpawnFails, Terminated, vars,
                     otherVars
<1> QED
  BY <1>6, <1>7, <1>8, <1>9, <1>10, <1>11, <1>12, <1>13, <1>14
     DEF Next, IOThread, Client

LEMMA NextWaiting ==
    ASSUME TypeOK, ProcessLimited, CancelPosted, Waiting, [Next]_vars
    PROVE  Waiting'
<1>1. processLimit \in Nat /\ Cardinality(InUse) \in Nat
  BY InUseFinite, FS_CardinalityType, ReadLoopAssumption
<1>2. ASSUME UNCHANGED <<io, queue, caches>>, cancelled => cancelled'
      PROVE  Waiting'
  BY <1>2 DEF Waiting, QueueOnlyWhenFull, InUse
<1>3. CASE RunAdd
  <2>1. io = "idle" /\ InUse' = InUse /\ UNCHANGED cancelled
    BY <1>3 DEF RunAdd, NextTask, InUse, otherVars
  <2>2. CASE (processLimit = 0 \/ BelowLimit) /\ UNCHANGED queue
    <3>1. cancelled \/ queue = <<>>
      BY <1>1, <2>1, <2>2 DEF Waiting, QueueOnlyWhenFull, BelowLimit
    <3> QED
      BY <2>1, <2>2, <3>1 DEF Waiting, QueueOnlyWhenFull
  <2>3. CASE processLimit # 0 /\ ~BelowLimit /\ UNCHANGED io
    <3>1. Cardinality(InUse) = processLimit /\ processLimit > 0
      BY <1>1, <2>1, <2>3 DEF ProcessLimited, BelowLimit, TypeOK
    <3> QED
      BY <2>1, <2>3, <3>1 DEF Waiting, QueueOnlyWhenFull
  <2> QED
    BY <1>3, <2>2, <2>3 DEF RunAdd
<1>4. CASE DrainOne
  <2>1. io' \in {"startQueued", "drain"} /\ processLimit # 0
    BY <1>4 DEF DrainOne, DoAdd, Waiting
  <2> QED
    BY <2>1 DEF Waiting, QueueOnlyWhenFull
<1>5. CASE DrainEnd
  <2>1. /\ UNCHANGED <<queue, cancelled>> /\ InUse' = InUse /\ io' = "idle"
        /\ queue = <<>> \/ ~BelowLimit
    BY <1>5 DEF DrainEnd, InUse, loopVars, otherVars
  <2>2. queue # <<>> => processLimit > 0 /\ Cardinality(InUse) = processLimit
    BY <1>1, <1>5, <2>1 DEF DrainEnd, Waiting, ProcessLimited, BelowLimit, TypeOK
  <2> QED
    BY <2>1, <2>2 DEF Waiting, QueueOnlyWhenFull
<1>6. CASE StartCommand
  <2>1. UNCHANGED <<queue, cancelled>> /\ io' \in {"idle", "drain"}
    BY <1>6 DEF StartCommand, otherVars
  <2>2. io' = "idle" /\ ~cancelled => queue = <<>>
    BY <1>6 DEF StartCommand, Waiting
  <2> QED
    BY <2>1, <2>2 DEF Waiting, QueueOnlyWhenFull
<1>7. CASE RunRemove
  <2>1. io' = "drain" /\ UNCHANGED queue
    BY <1>7 DEF RunRemove
  <2> QED
    BY <2>1 DEF Waiting, QueueOnlyWhenFull
<1>8. CASE RunCancel
  <2>1. cancelled /\ cancelled' = cancelled /\ UNCHANGED <<queue, io>> /\ io = "idle"
    BY <1>8, HeadTail DEF RunCancel, NextTask, CancelPosted, TypeOK, otherVars
  <2> QED
    BY <2>1 DEF Waiting, QueueOnlyWhenFull
<1>9. CASE SpawnFails
  <2>1. io' = "dead" /\ UNCHANGED queue
    BY <1>9 DEF SpawnFails, loopVars
  <2> QED
    BY <2>1 DEF Waiting, QueueOnlyWhenFull
<1>10. CASE Client \/ RunRead \/ Terminated \/ UNCHANGED vars
  BY <1>2, <1>10 DEF Client, Add, Drop, Remove, Cancel, RunRead, Terminated, vars, loopVars,
                     otherVars
<1>11. ASSUME NEW c \in Cache, Command(c) \/ ReadError(c)
      PROVE  Waiting'
  BY <1>2, <1>11 DEF Command, ReadData, ReadEof, ReadError, ReadCompletes
<1> QED
  BY <1>3, <1>4, <1>5, <1>6, <1>7, <1>8, <1>9, <1>10, <1>11 DEF Next, IOThread

(* No task is forgotten in the queue, and none that is added overtakes one:   *)
(* between two handlers a task only waits if as many commands run as may.     *)
THEOREM QueueServed == Spec => []QueueOnlyWhenFull
<1>1. Init => CancelPosted /\ Waiting
  BY DEF Init, CancelPosted, Waiting, QueueOnlyWhenFull
<1>2. Waiting => QueueOnlyWhenFull
  BY DEF Waiting
<1> QED
  BY <1>1, <1>2, PostedOnlyBy, NextWaiting, TypeCorrect, LimitRespected, PTL DEF Spec

-----------------------------------------------------------------------------
(* An open stream has one continuation.  A step takes at most the first       *)
(* handler away, and posts new ones behind the rest.                         *)

LEMMA Shifted ==
    ASSUME TypeOK, NEW k \in {0, 1}, k = 1 => tasks # <<>>, NEW new \in Seq(Task),
           tasks' = (IF k = 0 THEN tasks ELSE Tail(tasks)) \o new
    PROVE  /\ Len(tasks) \in Nat /\ Len(new) \in Nat /\ k <= Len(tasks)
           /\ Len(tasks)' = Len(tasks) - k + Len(new)
           /\ \A i \in 1 .. Len(tasks) - k : tasks'[i] = tasks[i + k]
           /\ \A i \in 1 .. Len(new) : tasks'[Len(tasks) - k + i] = new[i]
<1>1. CASE k = 0
  <2>1. tasks' = tasks \o new /\ tasks \in Seq(Task)
    BY <1>1 DEF TypeOK
  <2> QED
    BY <1>1, <2>1
<1>2. CASE k = 1
  <2>1. tasks' = Tail(tasks) \o new
    BY <1>2
  <2>2. /\ Tail(tasks) \in Seq(Task) /\ Len(Tail(tasks)) = Len(tasks) - 1
        /\ Len(tasks) \in Nat \ {0}
        /\ \A i \in 1 .. Len(tasks) - 1 : Tail(tasks)[i] = tasks[i + 1]
    BY <1>2, HeadTail DEF TypeOK
  <2> QED
    BY <1>2, <2>1, <2>2
<1> QED
  BY <1>1, <1>2

ReadIsPosted(c) == \E i \in 1 .. Len(tasks) : tasks[i].op = "read" /\ tasks[i].cache = c

RemovalIsPosted(fd) == \E i \in 1 .. Len(tasks) : tasks[i].op = "remove" /\ tasks[i].fd = fd

ReadsApart ==
    \A i, j \in 1 .. Len(tasks) :
        /\ tasks[i].op = "read" /\ tasks[j].op = "read"
        /\ tasks[i].cache = tasks[j].cache
        => i = j

ReadsWereStarted ==
    \A c \in Cache : ReadIsPosted(c) =>
        c \notin reading /\ (c \in finished \/ stream[c] # NoFd)

Continued ==
    \A c \in Cache : stream[c] # NoFd =>
        c \in reading \/ ReadIsPosted(c) \/ RemovalIsPosted(stream[c])

Continuations == ReadsApart /\ ReadsWereStarted /\ Continued

(* What a step has to make sure of, if it has taken away the first k handlers *)
(* and posted new ones.                                                      *)
NewReads(new) ==
    /\ \A i \in 1 .. Len(new) : new[i].op = "read" =>
          /\ new[i].cache \in Cache
          /\ new[i].cache \in reading /\ new[i].cache \notin reading'
          /\ new[i].cache \in finished' \/ stream'[new[i].cache] # NoFd
    /\ \A i, j \in 1 .. Len(new) :
          new[i].op = "read" /\ new[j].op = "read" /\ new[i].cache = new[j].cache => i = j

Started(k) ==
    /\ finished \subseteq finished'
    /\ \A c \in Cache : stream[c] # NoFd => c \in finished' \/ stream'[c] # NoFd
    /\ \A c \in reading' :
          \/ c \in reading
          \/ ~ReadIsPosted(c)
          \/ k = 1 /\ tasks[1].op = "read" /\ tasks[1].cache = c

GoesOn(k, new) ==
    \A c \in Cache : stream'[c] # NoFd /\ c \notin reading' =>
        /\ stream'[c] = stream[c]
        /\ c \in reading => \E i \in 1 .. Len(new) : new[i].op = "read" /\ new[i].cache = c
        /\ k = 1 /\ tasks[1].op = "read" /\ tasks[1].cache = c =>
              \E i \in 1 .. Len(new) : new[i].op = "remove" /\ new[i].fd = stream[c]
        /\ k = 1 => ~(tasks[1].op = "remove" /\ tasks[1].fd = stream[c])

LEMMA ContinuationsShift ==
    ASSUME TypeOK, TypeOK', Continuations, NEW k \in {0, 1}, k = 1 => tasks # <<>>,
           NEW new \in Seq(Task),
           tasks' = (IF k = 0 THEN tasks ELSE Tail(tasks)) \o new,
           NewReads(new), Started(k), GoesOn(k, new)
    PROVE  Continuations'
<1>1. /\ Len(tasks) \in Nat /\ Len(new) \in Nat /\ k <= Len(tasks)
      /\ Len(tasks)' = Len(tasks) - k + Len(new)
      /\ \A i \in 1 .. Len(tasks) - k : tasks'[i] = tasks[i + k]
      /\ \A i \in 1 .. Len(new) : tasks'[Len(tasks) - k + i] = new[i]
  BY Shifted
<1>2. \A i \in 1 .. Len(tasks)' :
         \/ i \in 1 .. Len(tasks) - k
         \/ i - (Len(tasks) - k) \in 1 .. Len(new)
  BY <1>1
<1>3. \A i \in 1 .. Len(tasks)' : i - (Len(tasks) - k) \in 1 .. Len(new) =>
         tasks'[i] = new[i - (Len(tasks) - k)]
  BY <1>1
<1>4. \A i \in 1 .. Len(tasks) - k : i + k \in 1 .. Len(tasks)
  BY <1>1
<1>5. \A i \in 1 .. Len(tasks) : i > k =>
         i - k \in 1 .. Len(tasks) - k /\ i - k \in 1 .. Len(tasks)' /\ tasks'[i - k] = tasks[i]
  <2> SUFFICES ASSUME NEW i \in 1 .. Len(tasks), i > k
               PROVE  /\ i - k \in 1 .. Len(tasks) - k
                      /\ i - k \in 1 .. Len(tasks)'
                      /\ tasks'[i - k] = tasks[i]
    OBVIOUS
  <2>1. PICK j \in 1 .. Len(tasks) - k : j = i - k /\ j + k = i
    BY <1>1
  <2>2. tasks'[j] = tasks[j + k]
    BY <1>1
  <2>3. j \in 1 .. Len(tasks)'
    BY <1>1
  <2> QED
    BY <2>1, <2>2, <2>3
<1>6. \A i \in 1 .. Len(new) :
         Len(tasks) - k + i \in 1 .. Len(tasks)' /\ tasks'[Len(tasks) - k + i] = new[i]
  <2> SUFFICES ASSUME NEW i \in 1 .. Len(new)
               PROVE  /\ Len(tasks) - k + i \in 1 .. Len(tasks)'
                      /\ tasks'[Len(tasks) - k + i] = new[i]
    OBVIOUS
  <2>1. Len(tasks) - k + i \in 1 .. Len(tasks)'
    BY <1>1
  <2>2. tasks'[Len(tasks) - k + i] = new[i]
    BY <1>1
  <2> QED
    BY <2>1, <2>2
<1>7. \A i \in 1 .. Len(tasks) : tasks[i].op = "read" => tasks[i].cache \in Cache
  BY TaskFields DEF TypeOK
<1>8. ReadsApart'
  <2> SUFFICES ASSUME NEW i \in 1 .. Len(tasks)', NEW j \in 1 .. Len(tasks)',
                      tasks'[i].op = "read", tasks'[j].op = "read",
                      tasks'[i].cache = tasks'[j].cache
               PROVE  i = j
    BY DEF ReadsApart
  <2>1. CASE i \in 1 .. Len(tasks) - k /\ j \in 1 .. Len(tasks) - k
    <3>1. i + k = j + k
      BY <1>1, <1>4, <2>1 DEF Continuations, ReadsApart
    <3> QED
      BY <2>1, <3>1
  <2>2. ASSUME NEW m \in 1 .. Len(tasks) - k, NEW n \in 1 .. Len(new),
               tasks[m + k].op = "read", new[n].op = "read",
               tasks[m + k].cache = new[n].cache
        PROVE  FALSE
    BY <1>4, <1>7, <2>2 DEF Continuations, ReadsWereStarted, ReadIsPosted, NewReads
  <2>3. CASE /\ i - (Len(tasks) - k) \in 1 .. Len(new)
             /\ j - (Len(tasks) - k) \in 1 .. Len(new)
    <3>1. i - (Len(tasks) - k) = j - (Len(tasks) - k)
      BY <1>3, <2>3 DEF NewReads
    <3> QED
      BY <1>1, <3>1
  <2>4. CASE i \in 1 .. Len(tasks) - k /\ j - (Len(tasks) - k) \in 1 .. Len(new)
    <3>1. PICK n \in 1 .. Len(new) : n = j - (Len(tasks) - k) /\ tasks'[j] = new[n]
      BY <1>3, <2>4
    <3>2. tasks'[i] = tasks[i + k]
      BY <1>1, <2>4
    <3> QED
      BY <2>2, <2>4, <3>1, <3>2
  <2>5. CASE j \in 1 .. Len(tasks) - k /\ i - (Len(tasks) - k) \in 1 .. Len(new)
    <3>1. PICK n \in 1 .. Len(new) : n = i - (Len(tasks) - k) /\ tasks'[i] = new[n]
      BY <1>3, <2>5
    <3>2. tasks'[j] = tasks[j + k]
      BY <1>1, <2>5
    <3> QED
      BY <2>2, <2>5, <3>1, <3>2
  <2> QED
    BY <1>2, <2>1, <2>3, <2>4, <2>5
<1>9. ReadsWereStarted'
  <2> SUFFICES ASSUME NEW c \in Cache, NEW i \in 1 .. Len(tasks)',
                      tasks'[i].op = "read", tasks'[i].cache = c
               PROVE  c \notin reading' /\ (c \in finished' \/ stream'[c] # NoFd)
    BY DEF ReadsWereStarted, ReadIsPosted
  <2>1. CASE i \in 1 .. Len(tasks) - k
    <3>1. i + k \in 1 .. Len(tasks) /\ tasks[i + k].op = "read" /\ tasks[i + k].cache = c
      BY <1>1, <1>4, <2>1
    <3>2. ReadIsPosted(c)
      BY <3>1 DEF ReadIsPosted
    <3>3. c \notin reading /\ (c \in finished \/ stream[c] # NoFd)
      BY <3>2 DEF Continuations, ReadsWereStarted
    <3>4. ~(k = 1 /\ tasks[1].op = "read" /\ tasks[1].cache = c)
      <4> SUFFICES ASSUME k = 1, tasks[1].op = "read", tasks[1].cache = c
                   PROVE  FALSE
        OBVIOUS
      <4>1. 1 \in 1 .. Len(tasks) /\ i + k # 1
        BY <1>1, <2>1
      <4> QED
        BY <3>1, <4>1 DEF Continuations, ReadsApart
    <3> QED
      BY <3>2, <3>3, <3>4 DEF Started
  <2>2. CASE i - (Len(tasks) - k) \in 1 .. Len(new)
    BY <1>3, <2>2 DEF NewReads
  <2> QED
    BY <1>2, <2>1, <2>2
<1>10. Continued'
  <2> SUFFICES ASSUME NEW c \in Cache, stream'[c] # NoFd, c \notin reading'
               PROVE  ReadIsPosted(c)' \/ RemovalIsPosted(stream[c])'
    BY DEF Continued
  <2>1. stream'[c] = stream[c]
    BY DEF GoesOn
  <2>2. CASE c \in reading
    <3>1. PICK i \in 1 .. Len(new) : new[i].op = "read" /\ new[i].cache = c
      BY <2>2 DEF GoesOn
    <3> QED
      BY <1>6, <3>1 DEF ReadIsPosted
  <2>3. CASE ReadIsPosted(c)
    <3>1. PICK i \in 1 .. Len(tasks) : tasks[i].op = "read" /\ tasks[i].cache = c
      BY <2>3 DEF ReadIsPosted
    <3>2. CASE i > k
      BY <1>5, <3>1, <3>2 DEF ReadIsPosted
    <3>3. CASE i <= k
      <4>1. k = 1 /\ i = 1
        BY <3>3
      <4>2. PICK n \in 1 .. Len(new) : new[n].op = "remove" /\ new[n].fd = stream[c]
        BY <3>1, <4>1 DEF GoesOn
      <4>3. RemovalIsPosted(stream[c])'
        BY <1>6, <2>1, <4>2 DEF RemovalIsPosted
      <4> QED
        BY <4>3
    <3> QED
      BY <3>2, <3>3
  <2>4. CASE RemovalIsPosted(stream[c])
    <3>1. PICK i \in 1 .. Len(tasks) : tasks[i].op = "remove" /\ tasks[i].fd = stream[c]
      BY <2>4 DEF RemovalIsPosted
    <3>2. i > k
      BY <3>1 DEF GoesOn
    <3> QED
      BY <1>5, <2>1, <3>1, <3>2 DEF RemovalIsPosted
  <2> QED
    BY <2>1, <2>2, <2>3, <2>4 DEF Continuations, Continued
<1> QED
  BY <1>8, <1>9, <1>10 DEF Continuations
(* The same if no handler has been taken away. *)
LEMMA ContinuationsPost ==
    ASSUME TypeOK, TypeOK', Continuations, NEW new \in Seq(Task), tasks' = tasks \o new,
           NewReads(new), Started(0), GoesOn(0, new)
    PROVE  Continuations'
<1> DEFINE k == 0
<1>1. k \in {0, 1} /\ k # 1 /\ k = 0 /\ Started(k) /\ GoesOn(k, new)
  OBVIOUS
<1> HIDE DEF k
<1>2. tasks' = (IF k = 0 THEN tasks ELSE Tail(tasks)) \o new
  BY <1>1
<1> QED
  BY <1>1, <1>2, ContinuationsShift

LEMMA OneNew ==
    ASSUME NEW t \in Task
    PROVE  /\ <<t>> \in Seq(Task)
           /\ Len(<<t>>) = 1
           /\ <<t>>[1] = t
    OBVIOUS

(* A handler that is not a read is posted. *)
LEMMA PostOther ==
    ASSUME TypeOK, TypeOK', Continuations, NEW t \in Task, t.op # "read", Post(t),
           UNCHANGED <<stream, reading, finished>>
    PROVE  Continuations'
<1>1. tasks' = tasks \o <<t>>
  BY DEF Post, TypeOK
<1>2. NewReads(<<t>>)
  BY OneNew DEF NewReads
<1>3. Started(0) /\ GoesOn(0, <<t>>)
  BY DEF Started, GoesOn
<1> QED
  BY <1>1, <1>2, <1>3, OneNew, ContinuationsPost

LEMMA StayContinued ==
    ASSUME TypeOK, Continuations, UNCHANGED <<tasks, stream, reading, finished>>
    PROVE  Continuations'
BY DEF Continuations, ReadsApart, ReadsWereStarted, Continued, ReadIsPosted, RemovalIsPosted

LEMMA ReadContinued ==
    ASSUME TypeOK, TypeOK', BufferOwned, Continuations,
           NEW c \in Cache, NEW got \in {"bytes", "end"}, ReadCompletes(c, got)
    PROVE  Continuations'
<1> DEFINE t == ReadTask(c, got)
<1>1. t \in Task /\ t.op = "read" /\ t.cache = c
  BY TasksAreTasks DEF ReadTask
<1>2. tasks' = tasks \o <<t>>
  BY <1>1 DEF ReadCompletes, Post, TypeOK
<1>3. c \in reading /\ reading' = reading \ {c} /\ UNCHANGED <<stream, finished>>
  BY DEF ReadCompletes
<1> HIDE DEF t
<1>4. NewReads(<<t>>)
  BY <1>1, <1>3, OneNew DEF NewReads, BufferOwned
<1>5. Started(0)
  BY <1>3 DEF Started
<1>6. GoesOn(0, <<t>>)
  BY <1>1, <1>3, OneNew DEF GoesOn
<1> QED
  BY <1>1, <1>2, <1>4, <1>5, <1>6, OneNew, ContinuationsPost

LEMMA NoNew == <<>> \in Seq(Task) /\ NewReads(<<>>)
BY DEF NewReads

LEMMA StartContinued ==
    ASSUME Once, TypeOK', Continuations, StartCommand
    PROVE  Continuations'
<1>1. PICK fd \in Fd \ InUse : stream' = [stream EXCEPT ![starting] = fd]
  BY DEF StartCommand
<1>2. /\ starting \in Cache /\ Fresh(starting)
      /\ reading' = reading \cup {starting} /\ UNCHANGED <<tasks, finished>>
  BY DEF StartCommand, Once, TypeOK, StartedOnce, otherVars
<1>3. tasks' = tasks \o <<>>
  BY <1>2, ConcatEmptySeq DEF Once, TypeOK
<1>4. Started(0)
  BY <1>1, <1>2, ReadLoopAssumption
     DEF Started, Continuations, ReadsWereStarted, Fresh, Once, TypeOK, ReadLoopAssumption
<1>5. GoesOn(0, <<>>)
  BY <1>1, <1>2 DEF GoesOn, Once, TypeOK
<1> QED
  BY <1>3, <1>4, <1>5, NoNew, ContinuationsPost DEF Once

LEMMA AddContinued ==
    ASSUME TypeOK, TypeOK', Continuations, RunAdd
    PROVE  Continuations'
<1>1. tasks # <<>> /\ tasks[1].op = "add" /\ UNCHANGED <<stream, reading, finished>>
  BY HeadTail DEF RunAdd, NextTask, TypeOK
<1>2. tasks' = (IF 1 = 0 THEN tasks ELSE Tail(tasks)) \o <<>>
  BY <1>1, HeadTail, ConcatEmptySeq DEF RunAdd, TypeOK
<1>3. Started(1) /\ GoesOn(1, <<>>)
  BY <1>1 DEF Started, GoesOn
<1> QED
  BY <1>1, <1>2, <1>3, NoNew, ContinuationsShift

LEMMA RunReadContinued ==
    ASSUME TypeOK, TypeOK', Continuations, RunRead
    PROVE  Continuations'
<1> DEFINE c == tasks[1].cache
<1>1. tasks # <<>> /\ tasks[1].op = "read" /\ Head(tasks) = tasks[1] /\ c \in Cache
  BY HeadTail, TaskFields DEF RunRead, NextTask, TypeOK
<1>2. UNCHANGED <<stream, finished>> /\ Tail(tasks) \in Seq(Task)
  BY <1>1, HeadTail DEF RunRead, TypeOK
<1>3. CASE /\ reading' = reading \cup {c}
           /\ tasks' = Tail(tasks)
  <2>1. tasks' = (IF 1 = 0 THEN tasks ELSE Tail(tasks)) \o <<>>
    BY <1>2, <1>3, ConcatEmptySeq
  <2>2. Started(1)
    BY <1>1, <1>2, <1>3 DEF Started
  <2>3. GoesOn(1, <<>>)
    BY <1>1, <1>2, <1>3 DEF GoesOn
  <2> QED
    BY <1>1, <2>1, <2>2, <2>3, NoNew, ContinuationsShift
<1>4. CASE tasks' = Append(Tail(tasks), RemoveTask(stream[c])) /\ reading' = reading
  <2> DEFINE t == RemoveTask(stream[c])
  <2>1. t \in Task /\ t.op = "remove" /\ t.fd = stream[c]
    BY <1>1, TasksAreTasks DEF TypeOK, RemoveTask
  <2>2. tasks' = (IF 1 = 0 THEN tasks ELSE Tail(tasks)) \o <<t>>
    BY <1>2, <1>4
  <2> HIDE DEF t
  <2>3. NewReads(<<t>>)
    BY <2>1, OneNew DEF NewReads
  <2>4. Started(1)
    BY <1>2, <1>4 DEF Started
  <2>5. GoesOn(1, <<t>>)
    BY <1>1, <1>2, <1>4, <2>1, OneNew DEF GoesOn
  <2> QED
    BY <1>1, <2>1, <2>2, <2>3, <2>4, <2>5, OneNew, ContinuationsShift
<1> QED
  BY <1>1, <1>3, <1>4 DEF RunRead

LEMMA DestroyContinued ==
    ASSUME Once, TypeOK', Continuations, tasks # <<>>,
           NEW fds \in SUBSET InUse, Destroy(fds, Tail(tasks)),
           tasks[1].op # "read", tasks[1].op = "remove" => InUse \cap {tasks[1].fd} \subseteq fds
    PROVE  Continuations'
<1> DEFINE gone == {caches[fd] : fd \in fds}
<1>1. PICK order \in Orders(gone \cap reading) :
         tasks' = Tail(tasks) \o [i \in DOMAIN order |-> ReadTask(order[i], "end")]
  BY DEF Destroy
<1>2. /\ gone \subseteq Cache
      /\ order \in Seq(gone \cap reading)
      /\ DOMAIN order = 1 .. Len(order)
      /\ \A i, j \in 1 .. Len(order) : order[i] = order[j] => i = j
  BY <1>1, OrderFacts DEF Once
<1> DEFINE new == [i \in DOMAIN order |-> ReadTask(order[i], "end")]
<1>3. new \in Seq(Task)
  BY <1>2, AbortTasks
<1>4. /\ Len(new) = Len(order) /\ Len(order) \in Nat
      /\ \A i \in 1 .. Len(order) : new[i].op = "read" /\ new[i].cache = order[i]
  <2>1. Len(order) \in Nat
    BY <1>2
  <2>2. DOMAIN new = 1 .. Len(order)
    BY <1>2
  <2>3. Len(new) = Len(order)
    BY <1>3, <2>1, <2>2, LenProperties
  <2>4. \A i \in 1 .. Len(order) : new[i] = ReadTask(order[i], "end")
    BY <1>2
  <2> QED
    BY <2>1, <2>3, <2>4 DEF ReadTask
<1>5. \A i \in 1 .. Len(order) : order[i] \in gone \cap reading
  BY <1>2
<1>6. \A c \in Cache : stream[c] # NoFd /\ stream[c] \in fds => c \in gone
  BY DEF Once, MapMatchesStreams, TypeOK, InUse
<1>7. \A c \in Cache : stream[c] # NoFd => stream[c] \in InUse
  BY ReadLoopAssumption DEF Once, MapMatchesStreams, TypeOK, InUse, ReadLoopAssumption
<1>8. tasks' = (IF 1 = 0 THEN tasks ELSE Tail(tasks)) \o new
  BY <1>1
<1>9. /\ stream' = [c \in Cache |-> IF c \in gone THEN NoFd ELSE stream[c]]
      /\ finished' = finished \cup gone
      /\ reading' = reading \ (gone \cap reading)
  BY DEF Destroy
<1> HIDE DEF gone, new
<1>10. NewReads(new)
  <2>1. ASSUME NEW i \in 1 .. Len(order)
        PROVE  /\ new[i].cache \in Cache
               /\ new[i].cache \in reading /\ new[i].cache \notin reading'
               /\ new[i].cache \in finished'
    BY <1>2, <1>4, <1>5, <1>9, <2>1
  <2> QED
    BY <1>2, <1>4, <2>1 DEF NewReads
<1>11. Started(1)
  BY <1>9 DEF Started, Once, TypeOK
<1>12. GoesOn(1, new)
  <2> SUFFICES ASSUME NEW c \in Cache, stream'[c] # NoFd, c \notin reading'
               PROVE  /\ stream'[c] = stream[c] /\ c \notin reading
                      /\ ~(tasks[1].op = "remove" /\ tasks[1].fd = stream[c])
    BY DEF GoesOn
  <2>1. c \notin gone /\ stream'[c] = stream[c]
    BY <1>9
  <2> QED
    BY <1>6, <1>7, <1>9, <2>1
<1> QED
  BY <1>3, <1>8, <1>10, <1>11, <1>12, ContinuationsShift DEF Once

LEMMA NextContinued ==
    ASSUME Once, TypeOK', BufferOwned, Continuations, [Next]_vars
    PROVE  Continuations'
<1>1. TypeOK
  BY DEF Once
<1>2. CASE UNCHANGED <<tasks, stream, reading, finished>>
  BY <1>1, <1>2, StayContinued
<1>3. ASSUME NEW c \in Cache, Command(c) \/ ReadError(c)
      PROVE  Continuations'
  <2>1. \E got \in {"bytes", "end"} : ReadCompletes(c, got)
    BY <1>3 DEF Command, ReadData, ReadEof, ReadError
  <2> QED
    BY <1>1, <2>1, ReadContinued
<1>4. ASSUME NEW c \in Cache, Add(c)
      PROVE  Continuations'
  <2>1. AddTask(c) \in Task /\ AddTask(c).op = "add"
    BY TasksAreTasks DEF AddTask
  <2>2. Post(AddTask(c)) /\ UNCHANGED <<stream, reading, finished>>
    BY <1>4 DEF Add, loopVars
  <2> QED
    BY <1>1, <2>1, <2>2, PostOther
<1>5. ASSUME NEW fd \in Fd \cup {NoFd}, Remove(fd)
      PROVE  Continuations'
  <2>1. RemoveTask(fd) \in Task /\ RemoveTask(fd).op = "remove"
    BY TasksAreTasks DEF RemoveTask
  <2>2. Post(RemoveTask(fd)) /\ UNCHANGED <<stream, reading, finished>>
    BY <1>5 DEF Remove, loopVars
  <2> QED
    BY <1>1, <2>1, <2>2, PostOther
<1>6. CASE Cancel
  <2>1. CancelTask \in Task /\ CancelTask.op = "cancel"
    BY TasksAreTasks DEF CancelTask
  <2>2. Post(CancelTask) /\ UNCHANGED <<stream, reading, finished>>
    BY <1>6 DEF Cancel, loopVars
  <2> QED
    BY <1>1, <2>1, <2>2, PostOther
<1>7. ASSUME NEW c \in Cache, Drop(c)
      PROVE  Continuations'
  BY <1>2, <1>7 DEF Drop, loopVars
<1>8. CASE DrainOne \/ DrainEnd \/ SpawnFails \/ Terminated \/ UNCHANGED vars
  BY <1>2, <1>8 DEF DrainOne, DrainEnd, SpawnFails, Terminated, vars, loopVars
<1>9. CASE RunRemove
  <2>1. tasks # <<>> /\ Head(tasks) = tasks[1] /\ tasks[1].op = "remove"
    BY <1>1, <1>9, HeadTail DEF RunRemove, NextTask, TypeOK
  <2>2. Destroy(InUse \cap {tasks[1].fd}, Tail(tasks))
    BY <1>9, <2>1 DEF RunRemove
  <2> QED
    BY <2>1, <2>2, DestroyContinued
<1>10. CASE RunCancel
  <2>1. tasks # <<>> /\ tasks[1].op = "cancel"
    BY <1>1, <1>10, HeadTail DEF RunCancel, NextTask, TypeOK
  <2>2. Destroy(InUse, Tail(tasks))
    BY <1>10 DEF RunCancel
  <2> QED
    BY <2>1, <2>2, DestroyContinued
<1> QED
  BY <1>1, <1>2, <1>3, <1>4, <1>5, <1>6, <1>7, <1>8, <1>9, <1>10,
     StartContinued, AddContinued, RunReadContinued DEF Next, Client, IOThread

LEMMA ContinuationsMean == TypeOK /\ Continuations => OneContinuation
<1> SUFFICES ASSUME TypeOK, Continuations, NEW c \in Cache
             PROVE  /\ stream[c] # NoFd =>
                           c \in reading \/ Reads(c) # {} \/ Pending(RemoveTask(stream[c]))
                    /\ Cardinality(Reads(c)) + (IF c \in reading THEN 1 ELSE 0) <= 1
  BY DEF OneContinuation
<1>1. ReadIsPosted(c) <=> Reads(c) # {}
  BY DEF ReadIsPosted, Reads
<1>2. stream[c] # NoFd => c \in reading \/ Reads(c) # {} \/ Pending(RemoveTask(stream[c]))
  <2>1. \A i \in 1 .. Len(tasks) : tasks[i].op = "remove" => tasks[i] = RemoveTask(tasks[i].fd)
    BY TaskFields DEF TypeOK
  <2>2. RemovalIsPosted(stream[c]) => Pending(RemoveTask(stream[c]))
    BY <2>1 DEF RemovalIsPosted, Pending
  <2> QED
    BY <1>1, <2>2 DEF Continuations, Continued
<1>3. ASSUME Reads(c) = {}
      PROVE  Cardinality(Reads(c)) + (IF c \in reading THEN 1 ELSE 0) <= 1
  BY <1>3, FS_EmptySet
<1>4. ASSUME Reads(c) # {}
      PROVE  Cardinality(Reads(c)) + (IF c \in reading THEN 1 ELSE 0) <= 1
  <2>1. PICK i \in Reads(c) : TRUE
    BY <1>4
  <2>2. Reads(c) = {i}
    BY <2>1 DEF Reads, Continuations, ReadsApart
  <2>3. Cardinality(Reads(c)) = 1
    BY <2>2, FS_Singleton
  <2>4. c \notin reading
    BY <1>1, <1>4 DEF Continuations, ReadsWereStarted
  <2> QED
    BY <2>3, <2>4
<1> QED
  BY <1>2, <1>3, <1>4

(* No open stream is forgotten and none is read twice at a time, whatever is  *)
(* removed, cancelled or fails: the chunks of a command come in order, and an *)
(* entry whose command has ended is going to be removed.                      *)
THEOREM StreamsContinued == Spec => []OneContinuation
<1>1. Init => Continuations
  BY DEF Init, Continuations, ReadsApart, ReadsWereStarted, Continued, ReadIsPosted
<1> QED
  BY <1>1, NextContinued, ContinuationsMean, EveryCacheOnce, TypeCorrect, BuffersOutliveReads,
     PTL DEF Spec
-----------------------------------------------------------------------------
(* While only the loop itself removes entries, a stream ends before its entry *)
(* is removed: the handler that posts remove() has the end of the output, and *)
(* nothing of this stream is posted beside the removal.                       *)

OwnRemovals == removals = 0 /\ ~cancelled

Done(c) == c \in failed \/ size[c] = Output[c]

RemovalsSound ==
    \A i \in 1 .. Len(tasks) : tasks[i].op = "remove" /\ tasks[i].fd # NoFd =>
        \E c \in Cache : /\ caches[tasks[i].fd] = c
                         /\ c \notin reading /\ ~ReadIsPosted(c) /\ Done(c)

RemovalsApart ==
    \A i, j \in 1 .. Len(tasks) :
        /\ tasks[i].op = "remove" /\ tasks[j].op = "remove"
        /\ tasks[i].fd = tasks[j].fd /\ tasks[i].fd # NoFd
        => i = j

EndsSound ==
    \A i \in 1 .. Len(tasks) :
        tasks[i].op = "read" /\ tasks[i].got = "end" => Done(tasks[i].cache)

FinishedDone == \A c \in finished : Done(c)

Ends == RemovalsSound /\ RemovalsApart /\ EndsSound /\ FinishedDone

(* What a step has to make sure of, as in Continuations. *)
HeadReads(k, c) == k = 1 /\ tasks[1].op = "read" /\ tasks[1].cache = c

KeepsEnds(k) ==
    /\ \A c \in Cache : Done(c) => Done(c)' \/ HeadReads(k, c)
    /\ \A c \in reading' : c \in reading \/ HeadReads(k, c) \/ stream[c] = NoFd
    /\ \A fd \in Fd : caches[fd] # NoCache =>
          caches'[fd] = caches[fd] \/ (k = 1 /\ tasks[1].op = "remove" /\ tasks[1].fd = fd)

NewEnds(k, new) ==
    \A n \in 1 .. Len(new) :
        /\ new[n].op = "read" =>
              new[n].cache \in reading /\ (new[n].got = "end" => Done(new[n].cache)')
        /\ new[n].op = "remove" /\ new[n].fd # NoFd =>
              \E c \in Cache : /\ HeadReads(k, c) /\ stream[c] = new[n].fd
                               /\ caches'[new[n].fd] = c /\ c \notin reading' /\ Done(c)'

LEMMA EndsShift ==
    ASSUME Once, TypeOK', Continuations, Ends, NEW k \in {0, 1}, k = 1 => tasks # <<>>,
           NEW new \in Seq(Task), Len(new) <= 1,
           tasks' = (IF k = 0 THEN tasks ELSE Tail(tasks)) \o new,
           KeepsEnds(k), NewEnds(k, new), FinishedDone'
    PROVE  Ends'
<1>1. /\ Len(tasks) \in Nat /\ Len(new) \in Nat /\ k <= Len(tasks)
      /\ Len(tasks)' = Len(tasks) - k + Len(new)
      /\ \A i \in 1 .. Len(tasks) - k : tasks'[i] = tasks[i + k]
      /\ \A i \in 1 .. Len(new) : tasks'[Len(tasks) - k + i] = new[i]
  BY Shifted DEF Once
<1> DEFINE Kept(i, j) == j \in 1 .. Len(tasks) /\ j = i + k /\ tasks'[i] = tasks[j]
           Posted(i, n) == n \in 1 .. Len(new) /\ i = Len(tasks) - k + n /\ tasks'[i] = new[n]
<1>2. \A i \in 1 .. Len(tasks)' :
         \/ \E j \in 1 .. Len(tasks) : Kept(i, j)
         \/ \E n \in 1 .. Len(new) : Posted(i, n)
  <2> SUFFICES ASSUME NEW i \in 1 .. Len(tasks)'
               PROVE  \/ \E j \in 1 .. Len(tasks) : Kept(i, j)
                      \/ \E n \in 1 .. Len(new) : Posted(i, n)
    OBVIOUS
  <2>1. CASE i \in 1 .. Len(tasks) - k
    <3>1. i + k \in 1 .. Len(tasks) /\ tasks'[i] = tasks[i + k]
      BY <1>1, <2>1
    <3> QED
      BY <3>1
  <2>2. CASE i \notin 1 .. Len(tasks) - k
    <3>1. PICK n \in 1 .. Len(new) : i = Len(tasks) - k + n
      BY <1>1, <2>2
    <3>2. tasks'[i] = new[n]
      BY <1>1, <3>1
    <3> QED
      BY <3>1, <3>2
  <2> QED
    BY <2>1, <2>2
<1>3. \A i \in 1 .. Len(tasks)', j \in 1 .. Len(tasks) : Kept(i, j) => j \in 1 .. Len(tasks) /\ tasks'[i] = tasks[j]
  OBVIOUS
<1>4. \A i \in 1 .. Len(tasks)', j \in 1 .. Len(tasks) : Kept(i, j) /\ k = 1 => j # 1 /\ 1 \in 1 .. Len(tasks)
  BY <1>1
<1>5. \A i \in 1 .. Len(tasks)', n \in 1 .. Len(new) : Posted(i, n) => n \in 1 .. Len(new) /\ tasks'[i] = new[n]
  OBVIOUS
<1>6. \A h, i \in 1 .. Len(tasks)', m, n \in 1 .. Len(new) : Posted(h, m) /\ Posted(i, n) => h = i /\ m = n
  BY <1>1
<1>7. \A h, i \in 1 .. Len(tasks)', j \in 1 .. Len(tasks) : Kept(h, j) /\ Kept(i, j) => h = i
  BY <1>1
<1> HIDE DEF Kept, Posted
<1>8. \A c \in Cache, fd \in Fd : caches[fd] = c => stream[c] = fd /\ stream[c] # NoFd
  BY ReadLoopAssumption DEF Once, MapMatchesStreams, ReadLoopAssumption
<1>9. ASSUME NEW i \in 1 .. Len(tasks)', NEW j \in 1 .. Len(tasks), Kept(i, j),
             tasks[j].op = "remove", tasks[j].fd # NoFd
      PROVE  \E c \in Cache : /\ caches'[tasks[j].fd] = c
                              /\ c \notin reading' /\ ~ReadIsPosted(c)' /\ Done(c)'
  <2>1. PICK c \in Cache : /\ caches[tasks[j].fd] = c
                           /\ c \notin reading /\ ~ReadIsPosted(c) /\ Done(c)
    BY <1>9 DEF Ends, RemovalsSound
  <2>2. tasks[j].fd \in Fd
    BY <1>9, TaskFields DEF Once, TypeOK
  <2>3. caches'[tasks[j].fd] = c
    BY <1>4, <1>9, <2>1, <2>2, ReadLoopAssumption
       DEF KeepsEnds, Ends, RemovalsApart, ReadLoopAssumption
  <2>4. ~HeadReads(k, c)
    BY <1>4, <1>9, <2>1 DEF HeadReads, ReadIsPosted
  <2>5. c \notin reading' /\ Done(c)'
    BY <1>8, <2>1, <2>2, <2>4 DEF KeepsEnds
  <2>6. ASSUME NEW h \in 1 .. Len(tasks)', tasks'[h].op = "read", tasks'[h].cache = c
        PROVE  FALSE
    <3>1. CASE \E m \in 1 .. Len(tasks) : Kept(h, m)
      <4>1. PICK m \in 1 .. Len(tasks) : Kept(h, m)
        BY <3>1
      <4>2. tasks[m] = tasks'[h]
        BY <1>3, <4>1
      <4> QED
        BY <2>1, <2>6, <4>2 DEF ReadIsPosted
    <3>2. CASE \E n \in 1 .. Len(new) : Posted(h, n)
      <4>1. PICK n \in 1 .. Len(new) : Posted(h, n)
        BY <3>2
      <4>2. new[n].op = "read" /\ new[n].cache = c
        BY <1>5, <2>6, <4>1
      <4> QED
        BY <2>1, <4>2 DEF NewEnds
    <3> QED
      BY <1>2, <3>1, <3>2
  <2>7. ~ReadIsPosted(c)'
    BY <2>6 DEF ReadIsPosted
  <2> QED
    BY <2>3, <2>5, <2>7
<1>10. ASSUME NEW i \in 1 .. Len(tasks)', NEW n \in 1 .. Len(new), Posted(i, n),
              new[n].op = "remove", new[n].fd # NoFd
       PROVE  \E c \in Cache : /\ caches'[new[n].fd] = c
                               /\ c \notin reading' /\ ~ReadIsPosted(c)' /\ Done(c)'
  <2>1. PICK c \in Cache : /\ HeadReads(k, c) /\ stream[c] = new[n].fd
                           /\ caches'[new[n].fd] = c /\ c \notin reading' /\ Done(c)'
    BY <1>10 DEF NewEnds
  <2>2. ASSUME NEW h \in 1 .. Len(tasks)', tasks'[h].op = "read", tasks'[h].cache = c
        PROVE  FALSE
    <3>1. CASE \E m \in 1 .. Len(tasks) : Kept(h, m)
      <4>1. PICK m \in 1 .. Len(tasks) : Kept(h, m)
        BY <3>1
      <4>2. tasks[m].op = "read" /\ tasks[m].cache = c /\ k = 1 /\ m # 1 /\ 1 \in 1 .. Len(tasks)
        BY <1>3, <1>4, <2>1, <2>2, <4>1 DEF HeadReads
      <4> QED
        BY <2>1, <4>2 DEF HeadReads, Continuations, ReadsApart
    <3>2. CASE \E m \in 1 .. Len(new) : Posted(h, m)
      BY <1>5, <1>6, <1>10, <2>2, <3>2
    <3> QED
      BY <1>2, <3>1, <3>2
  <2>3. ~ReadIsPosted(c)'
    BY <2>2 DEF ReadIsPosted
  <2> QED
    BY <2>1, <2>3
<1>11. RemovalsSound'
  <2> SUFFICES ASSUME NEW i \in 1 .. Len(tasks)', tasks'[i].op = "remove", tasks'[i].fd # NoFd
               PROVE  \E c \in Cache : /\ caches'[tasks'[i].fd] = c
                                       /\ c \notin reading' /\ ~ReadIsPosted(c)' /\ Done(c)'
    BY DEF RemovalsSound
  <2>1. ASSUME NEW j \in 1 .. Len(tasks), Kept(i, j)
        PROVE  \E c \in Cache : /\ caches'[tasks'[i].fd] = c
                                /\ c \notin reading' /\ ~ReadIsPosted(c)' /\ Done(c)'
    <3>1. tasks'[i] = tasks[j]
      BY <1>3, <2>1
    <3> QED
      BY <1>9, <2>1, <3>1
  <2>2. ASSUME NEW n \in 1 .. Len(new), Posted(i, n)
        PROVE  \E c \in Cache : /\ caches'[tasks'[i].fd] = c
                                /\ c \notin reading' /\ ~ReadIsPosted(c)' /\ Done(c)'
    <3>1. tasks'[i] = new[n]
      BY <1>5, <2>2
    <3> QED
      BY <1>10, <2>2, <3>1
  <2> QED
    BY <1>2, <2>1, <2>2
<1>12. ASSUME NEW h \in 1 .. Len(tasks)', NEW i \in 1 .. Len(tasks)',
              NEW j \in 1 .. Len(tasks), Kept(h, j), NEW n \in 1 .. Len(new), Posted(i, n),
              tasks[j].op = "remove", new[n].op = "remove",
              tasks[j].fd = new[n].fd, new[n].fd # NoFd
       PROVE  FALSE
  <2>1. PICK c \in Cache : HeadReads(k, c) /\ stream[c] = new[n].fd
    BY <1>12 DEF NewEnds
  <2>2. PICK d \in Cache : caches[tasks[j].fd] = d /\ ~ReadIsPosted(d)
    BY <1>12 DEF Ends, RemovalsSound
  <2>3. tasks[j].fd \in Fd
    BY <1>12, TaskFields DEF Once, TypeOK
  <2>4. c = d
    BY <1>12, <2>1, <2>2, <2>3 DEF Once, MapMatchesStreams
  <2> QED
    BY <1>4, <1>12, <2>1, <2>2, <2>4 DEF HeadReads, ReadIsPosted
<1>13. RemovalsApart'
  <2> SUFFICES ASSUME NEW h \in 1 .. Len(tasks)', NEW i \in 1 .. Len(tasks)',
                      tasks'[h].op = "remove", tasks'[i].op = "remove",
                      tasks'[h].fd = tasks'[i].fd, tasks'[h].fd # NoFd
               PROVE  h = i
    BY DEF RemovalsApart
  <2>1. ASSUME NEW j \in 1 .. Len(tasks), NEW m \in 1 .. Len(tasks), Kept(h, j), Kept(i, m)
        PROVE  h = i
    <3>1. tasks[j] = tasks'[h] /\ tasks[m] = tasks'[i]
      BY <1>3, <2>1
    <3>2. j = m
      BY <3>1 DEF Ends, RemovalsApart
    <3> QED
      BY <1>7, <2>1, <3>2
  <2>2. ASSUME NEW j \in 1 .. Len(tasks), NEW n \in 1 .. Len(new), Kept(h, j), Posted(i, n)
        PROVE  FALSE
    <3>1. tasks[j] = tasks'[h] /\ new[n] = tasks'[i]
      BY <1>3, <1>5, <2>2
    <3> QED
      BY <1>12, <2>2, <3>1
  <2>3. ASSUME NEW j \in 1 .. Len(tasks), NEW n \in 1 .. Len(new), Kept(i, j), Posted(h, n)
        PROVE  FALSE
    <3>1. tasks[j] = tasks'[i] /\ new[n] = tasks'[h]
      BY <1>3, <1>5, <2>3
    <3> QED
      BY <1>12, <2>3, <3>1
  <2> QED
    BY <1>2, <1>6, <2>1, <2>2, <2>3
<1>14. EndsSound'
  <2> SUFFICES ASSUME NEW i \in 1 .. Len(tasks)', tasks'[i].op = "read", tasks'[i].got = "end"
               PROVE  Done(tasks[i].cache)'
    BY DEF EndsSound
  <2>1. ASSUME NEW j \in 1 .. Len(tasks), Kept(i, j)
        PROVE  Done(tasks[i].cache)'
    <3> tasks[j] = tasks'[i] /\ tasks[j] \in Task
      BY <1>3, <2>1 DEF Once, TypeOK
    <3>1. tasks[j].op = "read" /\ tasks[j].got = "end" /\ tasks[j].cache \in Cache
      BY TaskFields
    <3>2. Done(tasks[j].cache)
      BY <3>1 DEF Ends, EndsSound
    <3>3. ~HeadReads(k, tasks[j].cache)
      BY <1>4, <2>1, <3>1 DEF HeadReads, Continuations, ReadsApart
    <3>4. PICK c \in Cache : c = tasks[j].cache /\ c = tasks'[i].cache
      BY <1>3, <2>1, <3>1
    <3>5. Done(c)'
      BY <3>2, <3>3, <3>4 DEF KeepsEnds
    <3> QED
      BY <3>4, <3>5 DEF Done
  <2>2. ASSUME NEW n \in 1 .. Len(new), Posted(i, n)
        PROVE  Done(tasks[i].cache)'
    BY <1>5, <2>2 DEF NewEnds, Done
  <2> QED
    BY <1>2, <2>1, <2>2
<1> QED
  BY <1>11, <1>13, <1>14 DEF Ends
LEMMA EndsPost ==
    ASSUME Once, TypeOK', Continuations, Ends, NEW new \in Seq(Task), Len(new) <= 1,
           tasks' = tasks \o new, KeepsEnds(0), NewEnds(0, new), FinishedDone'
    PROVE  Ends'
<1> DEFINE k == 0
<1>1. k \in {0, 1} /\ k # 1 /\ k = 0 /\ KeepsEnds(k) /\ NewEnds(k, new)
  OBVIOUS
<1> HIDE DEF k
<1>2. tasks' = (IF k = 0 THEN tasks ELSE Tail(tasks)) \o new
  BY <1>1
<1> QED
  BY <1>1, <1>2, EndsShift

LEMMA NoNewEnds == <<>> \in Seq(Task) /\ Len(<<>>) <= 1 /\ \A k : NewEnds(k, <<>>)
BY DEF NewEnds

LEMMA StayEnds ==
    ASSUME TypeOK, Ends, UNCHANGED <<tasks, caches, reading, finished, size, failed>>
    PROVE  Ends'
BY DEF Ends, RemovalsSound, RemovalsApart, EndsSound, FinishedDone, Done, ReadIsPosted

LEMMA AddPostEnds ==
    ASSUME Once, TypeOK', Continuations, Ends, NEW c \in Cache, Add(c)
    PROVE  Ends'
<1> DEFINE t == AddTask(c)
<1>1. t \in Task /\ t.op = "add"
  BY TasksAreTasks DEF AddTask
<1>2. tasks' = tasks \o <<t>> /\ UNCHANGED <<caches, stream, reading, finished, size, failed>>
  BY <1>1 DEF Add, Post, loopVars, Once, TypeOK
<1> HIDE DEF t
<1>3. KeepsEnds(0) /\ FinishedDone'
  BY <1>2 DEF KeepsEnds, FinishedDone, Ends, Done
<1>4. NewEnds(0, <<t>>)
  BY <1>1, OneNew DEF NewEnds
<1>5. <<t>> \in Seq(Task) /\ Len(<<t>>) <= 1
  BY <1>1, OneNew
<1> QED
  BY <1>2, <1>3, <1>4, <1>5, EndsPost

LEMMA ReadEnds ==
    ASSUME Once, TypeOK', Continuations, Ends,
           NEW c \in Cache, NEW got \in {"bytes", "end"}, ReadCompletes(c, got),
           failed \subseteq failed', got = "end" => Done(c)'
    PROVE  Ends'
<1> DEFINE t == ReadTask(c, got)
<1>1. t \in Task /\ t.op = "read" /\ t.cache = c /\ t.got = got
  BY TasksAreTasks DEF ReadTask
<1>2. /\ tasks' = tasks \o <<t>> /\ c \in reading /\ reading' = reading \ {c}
      /\ UNCHANGED <<caches, stream, finished, size>>
  BY <1>1 DEF ReadCompletes, Post, Once, TypeOK
<1> HIDE DEF t
<1>3. KeepsEnds(0) /\ FinishedDone'
  BY <1>2 DEF KeepsEnds, FinishedDone, Ends, Done
<1>4. NewEnds(0, <<t>>)
  BY <1>1, <1>2, OneNew DEF NewEnds
<1>5. <<t>> \in Seq(Task) /\ Len(<<t>>) <= 1
  BY <1>1, OneNew
<1> QED
  BY <1>2, <1>3, <1>4, <1>5, EndsPost

LEMMA StartEnds ==
    ASSUME Once, TypeOK', Continuations, Ends, StartCommand
    PROVE  Ends'
<1>1. PICK fd \in Fd \ InUse : caches' = [caches EXCEPT ![fd] = starting]
  BY DEF StartCommand
<1>2. /\ starting \in Cache /\ Fresh(starting)
      /\ reading' = reading \cup {starting} /\ UNCHANGED <<tasks, finished, size, failed>>
  BY DEF StartCommand, Once, TypeOK, StartedOnce, otherVars
<1>3. tasks' = tasks \o <<>>
  BY <1>2, ConcatEmptySeq DEF Once, TypeOK
<1>4. KeepsEnds(0)
  BY <1>1, <1>2 DEF KeepsEnds, Done, Fresh, InUse, Once, TypeOK
<1>5. FinishedDone'
  BY <1>2 DEF FinishedDone, Ends, Done
<1> QED
  BY <1>3, <1>4, <1>5, NoNewEnds, EndsPost

LEMMA AddEnds ==
    ASSUME Once, TypeOK', Continuations, Ends, RunAdd
    PROVE  Ends'
<1>1. tasks # <<>> /\ UNCHANGED <<caches, stream, reading, finished, size, failed>>
  BY DEF RunAdd, NextTask, otherVars
<1>2. tasks' = (IF 1 = 0 THEN tasks ELSE Tail(tasks)) \o <<>>
  BY <1>1, HeadTail, ConcatEmptySeq DEF RunAdd, Once, TypeOK
<1>3. KeepsEnds(1) /\ FinishedDone'
  BY <1>1 DEF KeepsEnds, FinishedDone, Ends, Done
<1> QED
  BY <1>1, <1>2, <1>3, NoNewEnds, EndsShift

LEMMA RunReadEnds ==
    ASSUME Once, TypeOK', Continuations, Ends, RunRead
    PROVE  Ends'
<1>0. /\ tasks # <<>> /\ tasks[1].op = "read" /\ Head(tasks) = tasks[1]
      /\ tasks[1].cache \in Cache /\ tasks[1].got \in {"bytes", "end"} /\ 1 \in 1 .. Len(tasks)
  BY HeadTail, TaskFields DEF RunRead, NextTask, Once, TypeOK
<1> PICK c \in Cache : c = tasks[1].cache
  BY <1>0
<1>1. /\ tasks # <<>> /\ tasks[1].op = "read" /\ Head(tasks) = tasks[1] /\ c = tasks[1].cache
      /\ c \in Cache /\ tasks[1].got \in {"bytes", "end"} /\ 1 \in 1 .. Len(tasks)
  BY <1>0
<1>2. UNCHANGED <<caches, stream, finished, failed>> /\ Tail(tasks) \in Seq(Task)
  BY <1>1, HeadTail DEF RunRead, Once, TypeOK, otherVars
<1>3. CASE /\ stream[c] # NoFd
           /\ size' = [size EXCEPT ![c] = @ + 1]
           /\ reading' = reading \cup {c}
           /\ tasks' = Tail(tasks)
  <2>1. tasks' = (IF 1 = 0 THEN tasks ELSE Tail(tasks)) \o <<>>
    BY <1>2, <1>3, ConcatEmptySeq
  <2>2. KeepsEnds(1)
    BY <1>1, <1>2, <1>3 DEF KeepsEnds, Done, HeadReads, Once, TypeOK
  <2>3. FinishedDone'
    BY <1>1, <1>2, <1>3 DEF FinishedDone, Ends, Done, Once, TypeOK, StartedOnce
  <2> QED
    BY <1>1, <2>1, <2>2, <2>3, NoNewEnds, EndsShift
<1>4. CASE /\ stream[c] = NoFd \/ tasks[1].got = "end"
           /\ tasks' = Append(Tail(tasks), RemoveTask(stream[c]))
           /\ UNCHANGED <<size, reading>>
  <2> DEFINE t == RemoveTask(stream[c])
  <2>1. t \in Task /\ t.op = "remove" /\ t.fd = stream[c]
    BY <1>1, TasksAreTasks DEF Once, TypeOK, RemoveTask
  <2>2. tasks' = (IF 1 = 0 THEN tasks ELSE Tail(tasks)) \o <<t>>
    BY <1>2, <1>4
  <2> HIDE DEF t
  <2>3. KeepsEnds(1) /\ FinishedDone'
    BY <1>2, <1>4 DEF KeepsEnds, FinishedDone, Ends, Done
  <2>4. NewEnds(1, <<t>>)
    <3> SUFFICES ASSUME t.fd # NoFd
                 PROVE  /\ HeadReads(1, c) /\ stream[c] = t.fd
                        /\ caches'[t.fd] = c /\ c \notin reading' /\ Done(c)'
      BY <1>1, <2>1, OneNew DEF NewEnds
    <3>1. Done(c)'
      BY <1>1, <1>2, <1>4, <2>1 DEF Ends, EndsSound, Done
    <3>2. c \notin reading'
      BY <1>1, <1>4 DEF Continuations, ReadsWereStarted, ReadIsPosted
    <3>3. t.fd \in Fd /\ caches'[t.fd] = c
      BY <1>1, <1>2, <2>1 DEF Once, TypeOK, MapMatchesStreams
    <3> QED
      BY <1>1, <2>1, <3>1, <3>2, <3>3 DEF HeadReads
  <2>5. <<t>> \in Seq(Task) /\ Len(<<t>>) <= 1
    BY <2>1, OneNew
  <2> QED
    BY <1>1, <2>2, <2>3, <2>4, <2>5, EndsShift
<1> QED
  BY <1>1, <1>3, <1>4 DEF RunRead

LEMMA RemoveEnds ==
    ASSUME Once, TypeOK', Continuations, Ends, RunRemove
    PROVE  Ends'
<1> DEFINE fds  == InUse \cap {tasks[1].fd}
           gone == {caches[fd] : fd \in fds}
<1>1. /\ tasks # <<>> /\ tasks[1].op = "remove" /\ Head(tasks) = tasks[1]
      /\ Tail(tasks) \in Seq(Task) /\ 1 \in 1 .. Len(tasks)
  BY HeadTail DEF RunRemove, NextTask, Once, TypeOK
<1>2. Destroy(fds, Tail(tasks)) /\ UNCHANGED <<size, failed>>
  BY <1>1 DEF RunRemove, otherVars
<1>3. \A c \in gone : c \in Cache /\ c \notin reading /\ Done(c)
  BY <1>1, ReadLoopAssumption
     DEF Ends, RemovalsSound, InUse, ReadLoopAssumption
<1>4. PICK order \in Orders(gone \cap reading) :
         tasks' = Tail(tasks) \o [i \in DOMAIN order |-> ReadTask(order[i], "end")]
  BY <1>2 DEF Destroy
<1>5. gone \cap reading = {}
  BY <1>3
<1>6. DOMAIN order = {}
  BY <1>4, <1>5, FS_EmptySet DEF Orders
<1>7. [i \in DOMAIN order |-> ReadTask(order[i], "end")] = <<>>
  BY <1>6
<1>8. tasks' = (IF 1 = 0 THEN tasks ELSE Tail(tasks)) \o <<>>
  BY <1>4, <1>7
<1>9. /\ caches' = [fd \in Fd |-> IF fd \in fds THEN NoCache ELSE caches[fd]]
      /\ finished' = finished \cup gone /\ reading' \subseteq reading
  BY <1>2 DEF Destroy
<1> HIDE DEF gone
<1>10. KeepsEnds(1)
  BY <1>1, <1>2, <1>9 DEF KeepsEnds, Done
<1>11. FinishedDone'
  BY <1>2, <1>3, <1>9 DEF FinishedDone, Ends, Done
<1> QED
  BY <1>1, <1>8, <1>10, <1>11, NoNewEnds, EndsShift

LoopEnds == OwnRemovals => Ends

LEMMA NextEnds ==
    ASSUME Once, TypeOK', CancelPosted, Continuations, LoopEnds, [Next]_vars
    PROVE  LoopEnds'
<1> SUFFICES ASSUME OwnRemovals'
             PROVE  Ends'
  BY DEF LoopEnds
<1>1. TypeOK
  BY DEF Once
<1>2. ASSUME UNCHANGED <<removals, cancelled>>
      PROVE  Ends
  BY <1>2 DEF LoopEnds, OwnRemovals
<1>3. ASSUME UNCHANGED <<removals, cancelled>>,
             UNCHANGED <<tasks, caches, reading, finished, size, failed>>
      PROVE  Ends'
  BY <1>1, <1>2, <1>3, StayEnds
<1>4. ASSUME NEW c \in Cache, Command(c) \/ ReadError(c)
      PROVE  Ends'
  <2>1. CASE ReadData(c)
    <3>1. ReadCompletes(c, "bytes") /\ UNCHANGED <<failed, removals, cancelled>>
      BY <2>1 DEF ReadData, ReadCompletes
    <3> QED
      BY <1>2, <3>1, ReadEnds
  <2>2. CASE ReadEof(c)
    <3>1. ReadCompletes(c, "end") /\ UNCHANGED <<failed, removals, cancelled>> /\ Done(c)'
      BY <2>2 DEF ReadEof, ReadCompletes, Done
    <3> QED
      BY <1>2, <3>1, ReadEnds
  <2>3. CASE ReadError(c)
    <3>1. /\ ReadCompletes(c, "end") /\ UNCHANGED <<removals, cancelled>>
          /\ failed \subseteq failed' /\ Done(c)'
      BY <2>3 DEF ReadError, ReadCompletes, Done
    <3> QED
      BY <1>2, <3>1, ReadEnds
  <2> QED
    BY <1>4, <2>1, <2>2, <2>3 DEF Command
<1>5. ASSUME NEW c \in Cache, Add(c)
      PROVE  Ends'
  <2>1. UNCHANGED <<removals, cancelled>>
    BY <1>5 DEF Add
  <2> QED
    BY <1>2, <1>5, <2>1, AddPostEnds
<1>6. ASSUME NEW fd \in Fd \cup {NoFd}, Remove(fd)
      PROVE  FALSE
  BY <1>1, <1>6 DEF Remove, OwnRemovals, TypeOK
<1>7. CASE Cancel
  BY <1>7 DEF Cancel, OwnRemovals
<1>8. ASSUME NEW c \in Cache, Drop(c)
      PROVE  Ends'
  BY <1>3, <1>8 DEF Drop, loopVars
<1>9. CASE DrainOne \/ DrainEnd \/ SpawnFails \/ Terminated \/ UNCHANGED vars
  BY <1>3, <1>9 DEF DrainOne, DrainEnd, SpawnFails, Terminated, vars, loopVars, otherVars
<1>10. CASE StartCommand
  BY <1>2, <1>10, StartEnds DEF StartCommand, otherVars
<1>11. CASE RunAdd
  BY <1>2, <1>11, AddEnds DEF RunAdd, otherVars
<1>12. CASE RunRead
  BY <1>2, <1>12, RunReadEnds DEF RunRead, otherVars
<1>13. CASE RunRemove
  BY <1>2, <1>13, RemoveEnds DEF RunRemove, otherVars
<1>14. CASE RunCancel
  BY <1>1, <1>14, HeadTail DEF RunCancel, NextTask, TypeOK, CancelPosted, OwnRemovals, otherVars
<1> QED
  BY <1>4, <1>5, <1>6, <1>7, <1>8, <1>9, <1>10, <1>11, <1>12, <1>13, <1>14
     DEF Next, Client, IOThread

LEMMA EveryEnd == Spec => [](Once /\ LoopEnds)
<1>1. Init => LoopEnds /\ CancelPosted /\ Continuations
  BY DEF Init, LoopEnds, Ends, RemovalsSound, RemovalsApart, EndsSound, FinishedDone,
         CancelPosted, Continuations, ReadsApart, ReadsWereStarted, Continued, ReadIsPosted
<1> QED
  BY <1>1, NextEnds, NextContinued, PostedOnlyBy, EveryCacheOnce, TypeCorrect,
     BuffersOutliveReads, PTL DEF Spec

(* Unless clients remove or cancel, a removal that is on its way is for the   *)
(* stream that is open under its number: it cannot hit another command that   *)
(* got the number since.                                                      *)
THEOREM RemovalsMeetTheirStream == Spec => []NoStaleRemoval
<1>1. Once /\ LoopEnds => NoStaleRemoval
  BY ReadLoopAssumption
     DEF NoStaleRemoval, LoopEnds, OwnRemovals, Ends, RemovalsSound, ReadIsPosted, Reads,
         ReadLoopAssumption
<1> QED
  BY <1>1, EveryEnd, PTL

(* Unless clients remove or cancel, readers that find a cache finished have   *)
(* all of the command's output, or its stream failed.                         *)
THEOREM FinishedHaveAll == Spec => []FinishedComplete
<1>1. Once /\ LoopEnds => FinishedComplete
  BY DEF FinishedComplete, LoopEnds, OwnRemovals, Ends, FinishedDone, Done
<1> QED
  BY <1>1, EveryEnd, PTL

-----------------------------------------------------------------------------
(* The n-th of a finite set of positions is the one of rank n.               *)

UpTo(S, i) == {j \in S : j <= i}

LEMMA RanksGrow ==
    ASSUME NEW S, S \subseteq Nat, IsFiniteSet(S), NEW i \in S
    PROVE  /\ IsFiniteSet(UpTo(S, i))
           /\ Cardinality(UpTo(S, i)) \in 1 .. Cardinality(S)
           /\ \A j \in S : i < j => Cardinality(UpTo(S, i)) < Cardinality(UpTo(S, j))
<1>1. \A j \in S : /\ IsFiniteSet(UpTo(S, j))
                   /\ Cardinality(UpTo(S, j)) \in Nat
                   /\ Cardinality(UpTo(S, j)) <= Cardinality(S)
  <2> TAKE j \in S
  <2>1. UpTo(S, j) \in SUBSET S
    BY DEF UpTo
  <2> QED
    BY <2>1, FS_Subset, FS_CardinalityType
<1>2. Cardinality(S) \in Nat
  BY FS_CardinalityType
<1>3. Cardinality(UpTo(S, i)) # 0
  <2>1. i \in UpTo(S, i)
    BY DEF UpTo
  <2> QED
    BY <1>1, <2>1, FS_EmptySet
<1>4. ASSUME NEW j \in S, i < j
      PROVE  Cardinality(UpTo(S, i)) < Cardinality(UpTo(S, j))
  <2>1. UpTo(S, i) \in SUBSET UpTo(S, j)
    <3>1. \A m \in S : m \in Nat
      OBVIOUS
    <3>2. \A m \in UpTo(S, i) : m \in UpTo(S, j)
      BY <1>4, <3>1 DEF UpTo
    <3> QED
      BY <3>2
  <2>2. j \in UpTo(S, j) /\ j \notin UpTo(S, i)
    <3>1. i \in Nat /\ j \in Nat
      OBVIOUS
    <3> QED
      BY <1>4, <3>1 DEF UpTo
  <2>3. /\ Cardinality(UpTo(S, i)) <= Cardinality(UpTo(S, j))
        /\ Cardinality(UpTo(S, i)) # Cardinality(UpTo(S, j))
    BY <1>1, <2>1, <2>2, FS_Subset
  <2> QED
    BY <1>1, <2>3
<1> QED
  BY <1>1, <1>2, <1>3, <1>4

LEMMA Ranks ==
    ASSUME NEW S, S \subseteq Nat, IsFiniteSet(S)
    PROVE  /\ \A i, j \in S : Cardinality(UpTo(S, i)) = Cardinality(UpTo(S, j)) => i = j
           /\ \A n \in 1 .. Cardinality(S) : \E i \in S : Cardinality(UpTo(S, i)) = n
<1>1. \A i \in S : Cardinality(UpTo(S, i)) \in 1 .. Cardinality(S)
  BY RanksGrow
<1>2. \A i, j \in S : Cardinality(UpTo(S, i)) = Cardinality(UpTo(S, j)) => i = j
  <2> SUFFICES ASSUME NEW i \in S, NEW j \in S,
                      Cardinality(UpTo(S, i)) = Cardinality(UpTo(S, j)), i # j
               PROVE  FALSE
    OBVIOUS
  <2>1. i < j \/ j < i
    OBVIOUS
  <2>2. \A a, b \in S : a < b => Cardinality(UpTo(S, a)) < Cardinality(UpTo(S, b))
    BY RanksGrow
  <2>3. Cardinality(UpTo(S, i)) \in Nat /\ Cardinality(UpTo(S, j)) \in Nat
    BY <1>1
  <2> QED
    BY <2>1, <2>2, <2>3
<1> DEFINE card == Cardinality(S)
           rank == [i \in S |-> Cardinality(UpTo(S, i))]
<1>3. rank \in Injection(S, 1 .. card)
  <2>1. rank \in [S -> 1 .. card]
    BY <1>1
  <2>2. \A i, j \in S : rank[i] = rank[j] => i = j
    BY <1>2
  <2> QED
    BY <2>1, <2>2 DEF Injection, IsInjective
<1>4. card \in Nat /\ IsFiniteSet(1 .. card) /\ Cardinality(1 .. card) = card
  BY FS_CardinalityType, FS_Interval
<1>5. rank \in Surjection(S, 1 .. card)
  BY <1>3, <1>4, FS_Injection
<1>6. \A n \in 1 .. card : \E i \in S : rank[i] = n
  BY <1>5 DEF Surjection
<1> QED
  BY <1>2, <1>6

(* If the first positions, up to k of them, go, the others move up. *)
MovesUp(S, T, k) == \A i \in Nat \ {0} : i \in T <=> i + k \in S

Leaving(S, k) == IF k = 1 /\ 1 \in S THEN 1 ELSE 0

RanksMove(S, T, k) ==
    /\ Cardinality(S) = Cardinality(T) + Leaving(S, k)
    /\ \A i \in T : Cardinality(UpTo(S, i + k)) = Cardinality(UpTo(T, i)) + Leaving(S, k)

LEMMA RanksShift ==
    ASSUME NEW k \in {0, 1}, NEW S, S \subseteq Nat \ {0}, IsFiniteSet(S),
           NEW T, T \subseteq Nat \ {0}, IsFiniteSet(T),
           MovesUp(S, T, k)
    PROVE  RanksMove(S, T, k)
<1>1. ASSUME NEW U, U \subseteq S, NEW V, V \subseteq T, \A i \in Nat \ {0} : i \in V <=> i + k \in U,
             k = 1 /\ 1 \in S => 1 \in U
      PROVE  Cardinality(U) = Cardinality(V) + Leaving(S, k)
  <2> DEFINE W == IF k = 1 THEN U \ {1} ELSE U
             move == [i \in V |-> i + k]
  <2>1. IsFiniteSet(U) /\ IsFiniteSet(V)
    BY <1>1, FS_Subset
  <2>2. /\ IsFiniteSet(W)
        /\ Cardinality(U) = Cardinality(W) + Leaving(S, k)
        /\ Cardinality(U) \in Nat /\ Cardinality(V) \in Nat
    <3>1. IsFiniteSet(U \ {1}) /\ Cardinality(U) \in Nat /\ Cardinality(V) \in Nat
      BY <2>1, FS_RemoveElement, FS_CardinalityType
    <3>2. Cardinality(U \ {1}) = IF 1 \in U THEN Cardinality(U) - 1 ELSE Cardinality(U)
      BY <2>1, FS_RemoveElement
    <3>3. 1 \in S /\ k = 1 => 1 \in U
      BY <1>1
    <3>4. 1 \in U => 1 \in S
      BY <1>1
    <3> QED
      BY <2>1, <3>1, <3>2, <3>3, <3>4 DEF Leaving
  <2>3. \A w \in W : w - k \in V /\ (w - k) + k = w
    BY <1>1
  <2>4. \A i \in V : i + k \in W
    BY <1>1
  <2>5. move \in Bijection(V, W)
    <3>1. move \in [V -> W]
      BY <2>4
    <3>2. \A i, j \in V : move[i] = move[j] => i = j
      <4>1. \A i \in V : i \in Nat /\ move[i] = i + k
        BY <1>1
      <4> QED
        BY <4>1
    <3>3. \A w \in W : \E i \in V : move[i] = w
      BY <2>3
    <3> QED
      BY <3>1, <3>2, <3>3 DEF Bijection, Injection, IsInjective, Surjection
  <2>6. Cardinality(W) = Cardinality(V)
    BY <2>1, <2>5, FS_Bijection DEF ExistsBijection
  <2> QED
    BY <2>2, <2>6
<1>2. Cardinality(S) = Cardinality(T) + Leaving(S, k)
  BY <1>1 DEF MovesUp
<1>3. ASSUME NEW i \in T
      PROVE  Cardinality(UpTo(S, i + k)) = Cardinality(UpTo(T, i)) + Leaving(S, k)
  <2>1. UpTo(S, i + k) \subseteq S /\ UpTo(T, i) \subseteq T
    BY DEF UpTo
  <2>2. \A j \in Nat \ {0} : j \in UpTo(T, i) <=> j + k \in UpTo(S, i + k)
    BY <1>3 DEF MovesUp, UpTo
  <2>3. k = 1 /\ 1 \in S => 1 \in UpTo(S, i + k)
    BY <1>3 DEF UpTo
  <2> QED
    BY <1>1, <2>1, <2>2, <2>3
<1> QED
  BY <1>2, <1>3 DEF RanksMove

-----------------------------------------------------------------------------
(* The order in which caches wait that are posted.                           *)

LEMMA AddsFinite ==
    ASSUME NEW s \in Seq(Task)
    PROVE  /\ AddsIn(s) \subseteq Nat \ {0} /\ AddsIn(s) \subseteq Nat
           /\ IsFiniteSet(AddsIn(s))
           /\ Cardinality(AddsIn(s)) \in Nat
<1>1. Len(s) \in Nat /\ AddsIn(s) \subseteq 1 .. Len(s)
  BY DEF AddsIn
<1>2. IsFiniteSet(1 .. Len(s))
  BY <1>1, FS_Interval
<1>3. IsFiniteSet(AddsIn(s))
  BY <1>1, <1>2, FS_Subset
<1> QED
  BY <1>1, <1>3, FS_CardinalityType

LEMMA RankIs == \A s, i : RankIn(s, i) = Cardinality(UpTo(AddsIn(s), i))
  BY DEF RankIn, UpTo

LEMMA AddedInOrder ==
    ASSUME NEW s \in Seq(Task)
    PROVE  /\ CachesAdded(s) \in Seq(Cache)
           /\ Len(CachesAdded(s)) = Cardinality(AddsIn(s))
           /\ \A i \in AddsIn(s) : /\ RankIn(s, i) \in 1 .. Cardinality(AddsIn(s))
                                   /\ CachesAdded(s)[RankIn(s, i)] = s[i].cache
           /\ \A n \in 1 .. Cardinality(AddsIn(s)) : \E i \in AddsIn(s) : RankIn(s, i) = n
<1> DEFINE A == AddsIn(s)
           card == Cardinality(A)
<1>1. A \subseteq Nat /\ IsFiniteSet(A) /\ card \in Nat
  BY AddsFinite
<1>2. \A i \in A : Cardinality(UpTo(A, i)) \in 1 .. card
  BY <1>1, RanksGrow
<1>3. /\ \A i, j \in A : Cardinality(UpTo(A, i)) = Cardinality(UpTo(A, j)) => i = j
      /\ \A n \in 1 .. card : \E i \in A : Cardinality(UpTo(A, i)) = n
  BY <1>1, Ranks
<1>4. /\ \A i \in A : RankIn(s, i) \in 1 .. card
      /\ \A i, j \in A : RankIn(s, i) = RankIn(s, j) => i = j
      /\ \A n \in 1 .. card : \E i \in A : RankIn(s, i) = n
  BY <1>2, <1>3, RankIs
<1>5. \A i \in A : s[i].cache \in Cache
  BY TaskFields DEF AddsIn
<1> DEFINE nth(n) == CHOOSE i \in A : RankIn(s, i) = n
<1>6. \A n \in 1 .. card : nth(n) \in A /\ RankIn(s, nth(n)) = n
  BY <1>4
<1>7. CachesAdded(s) = [n \in 1 .. card |-> s[nth(n)].cache]
  BY DEF CachesAdded
<1> HIDE DEF nth, card, A
<1>8. CachesAdded(s) \in [1 .. card -> Cache]
  BY <1>5, <1>6, <1>7
<1>9. CachesAdded(s) \in Seq(Cache) /\ Len(CachesAdded(s)) = card
  BY <1>1, <1>8, FunctionIsSeq
<1>10. \A i \in A : CachesAdded(s)[RankIn(s, i)] = s[i].cache
  <2> TAKE i \in A
  <2>1. nth(RankIn(s, i)) = i
    BY <1>4, <1>6
  <2> QED
    BY <1>4, <1>7, <2>1
<1> QED
  BY <1>4, <1>9, <1>10 DEF card, A

(* The adds in t are those in s behind the first k handlers. *)
Moved(s, t, k) ==
    /\ MovesUp(AddsIn(s), AddsIn(t), k)
    /\ \A i \in AddsIn(t) : t[i] = s[i + k]

LEMMA ShiftMoves ==
    ASSUME TypeOK, NEW k \in {0, 1}, k = 1 => tasks # <<>>, NEW new \in Seq(Task),
           tasks' = (IF k = 0 THEN tasks ELSE Tail(tasks)) \o new,
           \A n \in 1 .. Len(new) : new[n].op # "add"
    PROVE  Moved(tasks, tasks', k)
<1>1. /\ Len(tasks) \in Nat /\ Len(new) \in Nat /\ k <= Len(tasks)
      /\ Len(tasks)' = Len(tasks) - k + Len(new)
      /\ \A i \in 1 .. Len(tasks) - k : tasks'[i] = tasks[i + k]
      /\ \A i \in 1 .. Len(new) : tasks'[Len(tasks) - k + i] = new[i]
  BY Shifted
<1>2. ASSUME NEW i \in 1 .. Len(tasks)', tasks'[i].op = "add"
      PROVE  i \in 1 .. Len(tasks) - k
  <2> SUFFICES ASSUME i \notin 1 .. Len(tasks) - k
               PROVE  FALSE
    OBVIOUS
  <2>1. i - (Len(tasks) - k) \in 1 .. Len(new) /\ i = Len(tasks) - k + (i - (Len(tasks) - k))
    BY <1>1
  <2>2. PICK n \in 1 .. Len(new) : i = Len(tasks) - k + n
    BY <2>1
  <2> QED
    BY <1>1, <1>2, <2>2
<1>3. \A i \in 1 .. Len(tasks) - k : i \in 1 .. Len(tasks)' /\ i + k \in 1 .. Len(tasks)
  BY <1>1
<1>4. \A i \in Nat \ {0} : i + k \in 1 .. Len(tasks) => i \in 1 .. Len(tasks) - k
  BY <1>1
<1>5. \A i \in 1 .. Len(tasks) - k : tasks'[i] = tasks[i + k]
  BY <1>1
<1> QED
  BY <1>2, <1>3, <1>4, <1>5 DEF Moved, MovesUp, AddsIn

LEMMA MovedInOrder ==
    ASSUME NEW s \in Seq(Task), NEW t \in Seq(Task), NEW k \in {0, 1}, Moved(s, t, k)
    PROVE  CachesAdded(s) =
              (IF k = 1 /\ 1 \in AddsIn(s) THEN <<s[1].cache>> ELSE <<>>) \o CachesAdded(t)
<1> DEFINE first == IF k = 1 /\ 1 \in AddsIn(s) THEN <<s[1].cache>> ELSE <<>>
           S == AddsIn(s)
           T == AddsIn(t)
           g == Leaving(S, k)
<1>1. /\ S \subseteq Nat \ {0} /\ IsFiniteSet(S) /\ T \subseteq Nat \ {0} /\ IsFiniteSet(T)
      /\ Cardinality(S) \in Nat /\ Cardinality(T) \in Nat
  BY AddsFinite
<1>2. MovesUp(S, T, k)
  BY DEF Moved
<1>3. /\ Cardinality(S) = Cardinality(T) + g
      /\ \A i \in T : Cardinality(UpTo(S, i + k)) = Cardinality(UpTo(T, i)) + g
  <2> HIDE DEF S, T
  <2>1. RanksMove(S, T, k)
    BY <1>1, <1>2, RanksShift
  <2> QED
    BY <2>1 DEF RanksMove
<1>4. g \in {0, 1} /\ (g = 1 <=> k = 1 /\ 1 \in S)
  BY DEF Leaving
<1>5. /\ CachesAdded(t) \in Seq(Cache) /\ Len(CachesAdded(t)) = Cardinality(T)
      /\ \A i \in T : CachesAdded(t)[RankIn(t, i)] = t[i].cache
      /\ \A n \in 1 .. Cardinality(T) : \E i \in T : RankIn(t, i) = n
  BY AddedInOrder
<1>6. /\ CachesAdded(s) \in Seq(Cache) /\ Len(CachesAdded(s)) = Cardinality(S)
      /\ \A i \in S : CachesAdded(s)[RankIn(s, i)] = s[i].cache
  BY AddedInOrder
<1>7. first \in Seq(Cache) /\ Len(first) = g /\ (g = 1 => first[1] = s[1].cache)
  <2>1. 1 \in S => s[1].cache \in Cache
    BY TaskFields DEF AddsIn
  <2>2. CASE g = 1
    BY <1>4, <2>1, <2>2
  <2>3. CASE g = 0
    BY <1>4, <2>3
  <2> QED
    BY <1>4, <2>2, <2>3
<1>8. \A i \in T : i + k \in S /\ t[i] = s[i + k] /\ RankIn(s, i + k) = RankIn(t, i) + g
  BY <1>1, <1>2, <1>3, RankIs DEF Moved, MovesUp
<1>9. 1 \in S => RankIn(s, 1) = 1
  <2> SUFFICES ASSUME 1 \in S PROVE RankIn(s, 1) = 1
    OBVIOUS
  <2>1. \A j \in S : j <= 1 <=> j = 1
    BY <1>1
  <2>2. UpTo(S, 1) = {1}
    BY <2>1 DEF UpTo
  <2> QED
    BY <2>2, RankIs, FS_Singleton
<1> HIDE DEF S, T, g, first
<1>10. /\ first \o CachesAdded(t) \in Seq(Cache)
       /\ Len(first \o CachesAdded(t)) = Cardinality(S)
       /\ \A n \in 1 .. Cardinality(S) : (first \o CachesAdded(t))[n] =
              IF n <= g THEN first[n] ELSE CachesAdded(t)[n - g]
  BY <1>1, <1>3, <1>4, <1>5, <1>7, ConcatProperties
<1>11. ASSUME NEW n \in 1 .. Cardinality(S)
       PROVE  CachesAdded(s)[n] = (first \o CachesAdded(t))[n]
  <2>1. CASE n <= g
    <3>1. n = 1 /\ g = 1 /\ 1 \in S
      BY <1>4, <2>1
    <3> QED
      BY <1>6, <1>7, <1>9, <1>10, <2>1, <3>1
  <2>2. CASE ~(n <= g)
    <3>1. n - g \in 1 .. Cardinality(T)
      BY <1>1, <1>3, <1>4, <2>2
    <3>2. PICK i \in T : RankIn(t, i) = n - g
      BY <1>5, <3>1
    <3>3. i + k \in S /\ RankIn(s, i + k) = n
      BY <1>1, <1>4, <1>8, <3>1, <3>2
    <3>4. CachesAdded(s)[n] = t[i].cache
      BY <1>6, <1>8, <3>3
    <3>5. CachesAdded(t)[n - g] = t[i].cache
      BY <1>5, <3>2
    <3> QED
      BY <1>10, <2>2, <3>4, <3>5
  <2> QED
    BY <2>1, <2>2
<1>12. CachesAdded(s) = first \o CachesAdded(t)
  BY <1>6, <1>10, <1>11, SeqEqual
<1> QED
  BY <1>12 DEF first, S

(* Handlers that are not adds leave the order alone, wherever they come and go. *)
LEMMA OrderStays ==
    ASSUME TypeOK, TypeOK', NEW k \in {0, 1},
           k = 1 => tasks # <<>> /\ tasks[1].op # "add", NEW new \in Seq(Task),
           tasks' = (IF k = 0 THEN tasks ELSE Tail(tasks)) \o new,
           \A n \in 1 .. Len(new) : new[n].op # "add"
    PROVE  CachesAdded(tasks') = CachesAdded(tasks)
<1>1. Moved(tasks, tasks', k)
  BY ShiftMoves
<1>2. tasks \in Seq(Task) /\ tasks' \in Seq(Task)
  BY DEF TypeOK
<1>3. k = 1 => 1 \notin AddsIn(tasks)
  BY DEF AddsIn
<1>4. CachesAdded(tasks) = <<>> \o CachesAdded(tasks')
  BY <1>1, <1>2, <1>3, MovedInOrder
<1> QED
  BY <1>2, <1>4, AddedInOrder, ConcatEmptySeq

LEMMA PostKeepsOrder ==
    ASSUME TypeOK, TypeOK', NEW t \in Task, t.op # "add", tasks' = Append(tasks, t)
    PROVE  CachesAdded(tasks') = CachesAdded(tasks)
<1> DEFINE new == <<t>>
<1>1. PICK k \in {0, 1} : k = 0
  OBVIOUS
<1>2. new \in Seq(Task) /\ tasks' = (IF k = 0 THEN tasks ELSE Tail(tasks)) \o new
  BY <1>1 DEF TypeOK
<1>3. \A n \in 1 .. Len(new) : new[n].op # "add"
  OBVIOUS
<1>4. k = 1 => tasks # <<>> /\ tasks[1].op # "add"
  BY <1>1
<1> HIDE DEF new
<1> QED
  BY <1>2, <1>3, <1>4, OrderStays

LEMMA AddTaken ==
    ASSUME TypeOK, TypeOK', tasks # <<>>, tasks[1].op = "add", tasks' = Tail(tasks)
    PROVE  CachesAdded(tasks) = <<tasks[1].cache>> \o CachesAdded(tasks')
<1>1. tasks \in Seq(Task) /\ tasks' \in Seq(Task) /\ 1 \in 1 .. Len(tasks)
  BY HeadTail DEF TypeOK
<1>2. tasks' = (IF 1 = 0 THEN tasks ELSE Tail(tasks)) \o <<>>
  BY <1>1, HeadTail, ConcatEmptySeq
<1>3. <<>> \in Seq(Task) /\ \A n \in 1 .. Len(<<>>) : FALSE
  OBVIOUS
<1>4. Moved(tasks, tasks', 1)
  BY <1>2, <1>3, ShiftMoves
<1>5. 1 \in AddsIn(tasks)
  BY <1>1 DEF AddsIn
<1> QED
  BY <1>1, <1>4, <1>5, MovedInOrder

LEMMA AddPosted ==
    ASSUME NEW s \in Seq(Task), NEW c \in Cache, NEW t, t = Append(s, AddTask(c))
    PROVE  CachesAdded(t) = Append(CachesAdded(s), c)
<1> DEFINE S == AddsIn(s)
           T == AddsIn(t)
           m == Len(s) + 1
<1>1. /\ t \in Seq(Task) /\ Len(t) = m /\ Len(s) \in Nat
      /\ t[m] = AddTask(c) /\ \A i \in 1 .. Len(s) : t[i] = s[i]
  BY TasksAreTasks
<1>2. T = S \cup {m} /\ m \notin S /\ \A i \in S : t[i] = s[i] /\ i \in Nat /\ i < m
  BY <1>1 DEF AddsIn, AddTask
<1>3. IsFiniteSet(S) /\ Cardinality(S) \in Nat
  BY AddsFinite
<1>4. Cardinality(T) = Cardinality(S) + 1
  BY <1>2, <1>3, FS_AddElement
<1>5. \A i \in S : RankIn(t, i) = RankIn(s, i)
  <2> TAKE i \in S
  <2>1. UpTo(T, i) = UpTo(S, i)
    BY <1>1, <1>2 DEF UpTo
  <2> QED
    BY <2>1, RankIs
<1>6. RankIn(t, m) = Cardinality(T)
  <2>1. UpTo(T, m) = T
    BY <1>1, <1>2 DEF UpTo
  <2> QED
    BY <2>1, RankIs
<1>7. /\ CachesAdded(s) \in Seq(Cache) /\ Len(CachesAdded(s)) = Cardinality(S)
      /\ \A i \in S : CachesAdded(s)[RankIn(s, i)] = s[i].cache
      /\ \A n \in 1 .. Cardinality(S) : \E i \in S : RankIn(s, i) = n
  BY AddedInOrder
<1>8. /\ CachesAdded(t) \in Seq(Cache) /\ Len(CachesAdded(t)) = Cardinality(T)
      /\ \A i \in T : CachesAdded(t)[RankIn(t, i)] = t[i].cache
  BY <1>1, AddedInOrder
<1>9. /\ Append(CachesAdded(s), c) \in Seq(Cache)
      /\ Len(Append(CachesAdded(s), c)) = Cardinality(S) + 1
      /\ \A n \in 1 .. Cardinality(S) : Append(CachesAdded(s), c)[n] = CachesAdded(s)[n]
      /\ Append(CachesAdded(s), c)[Cardinality(S) + 1] = c
  BY <1>7, AppendProperties
<1>10. T # {} /\ S \subseteq T /\ m \in T
  BY <1>2
<1> HIDE DEF S, T, m
<1>11. ASSUME NEW n \in 1 .. Cardinality(T)
       PROVE  CachesAdded(t)[n] = Append(CachesAdded(s), c)[n]
  <2>1. CASE n = Cardinality(T)
    <3>1. CachesAdded(t)[n] = t[m].cache
      BY <1>6, <1>8, <1>10, <2>1
    <3> QED
      BY <1>1, <1>4, <1>9, <2>1, <3>1 DEF AddTask
  <2>2. CASE n \in 1 .. Cardinality(S)
    <3>1. PICK i \in S : RankIn(s, i) = n
      BY <1>7, <2>2
    <3>2. CachesAdded(t)[n] = t[i].cache
      BY <1>5, <1>8, <1>10, <3>1
    <3>3. CachesAdded(s)[n] = s[i].cache
      BY <1>7, <3>1
    <3> QED
      BY <1>2, <1>9, <2>2, <3>2, <3>3
  <2>3. n = Cardinality(T) \/ n \in 1 .. Cardinality(S)
    <3> DEFINE a == Cardinality(S)
               b == Cardinality(T)
    <3>1. n \in 1 .. b /\ b = a + 1 /\ a \in Nat
      BY <1>3, <1>4
    <3> HIDE DEF a, b
    <3>2. n = b \/ n \in 1 .. a
      BY <3>1
    <3> QED
      BY <3>2 DEF a, b
  <2> QED
    BY <2>1, <2>2, <2>3
<1> QED
  BY <1>4, <1>8, <1>9, <1>11, SeqEqual

-----------------------------------------------------------------------------
(* The read loop implements Translations.                                    *)

Running == {c \in Cache : stream[c] # NoFd \/ c = starting}

Waits == queue \o CachesAdded(tasks)

(* What has not been started has delivered nothing. *)
Unwritten == \A c \in Cache : stream[c] = NoFd /\ c \notin finished => size[c] = 0

Refines == Once /\ CancelPosted /\ QueueOnlyWhenFull /\ Unwritten

LEMMA NextUnwritten == Once /\ Unwritten /\ TypeOK' /\ [Next]_vars => Unwritten'
<1> SUFFICES ASSUME Once, Unwritten, TypeOK', [Next]_vars
             PROVE  Unwritten'
  OBVIOUS
<1>1. TypeOK
  BY DEF Once
<1>2. CASE UNCHANGED <<stream, finished, size>>
  BY <1>2 DEF Unwritten
<1>3. CASE RunRemove \/ RunCancel
  BY <1>1, <1>3 DEF RunRemove, RunCancel, Destroy, Unwritten, TypeOK
<1>4. CASE RunRead
  BY <1>1, <1>4 DEF RunRead, Unwritten, TypeOK
<1>5. CASE StartCommand
  <2>1. PICK fd \in Fd : stream' = [stream EXCEPT ![starting] = fd]
    BY <1>5 DEF StartCommand
  <2>2. fd # NoFd /\ UNCHANGED <<finished, size>>
    BY <1>5, ReadLoopAssumption DEF StartCommand, ReadLoopAssumption
  <2> QED
    BY <1>1, <2>1, <2>2 DEF Unwritten, TypeOK
<1>6. CASE Client \/ RunAdd \/ DrainOne \/ DrainEnd \/ SpawnFails \/ Terminated \/ UNCHANGED vars
  BY <1>2, <1>6 DEF Client, Add, Drop, Remove, Cancel, RunAdd, DrainOne, DrainEnd, SpawnFails,
                    Terminated, vars, loopVars
<1>7. ASSUME NEW c \in Cache, Command(c) \/ ReadError(c)
      PROVE  Unwritten'
  BY <1>2, <1>7 DEF Command, ReadData, ReadEof, ReadError, ReadCompletes
<1> QED
  BY <1>3, <1>4, <1>5, <1>6, <1>7 DEF Next, IOThread

LEMMA AllRefines == Spec => []Refines
<1>1. Init => CancelPosted /\ Unwritten
  BY DEF Init, CancelPosted, Unwritten
<1> QED
  BY <1>1, PostedOnlyBy, NextUnwritten, TypeCorrect, QueueServed, EveryCacheOnce, PTL
     DEF Spec, Refines

(* Between two handlers as many translations run as the map has entries. *)
LEMMA RunningInUse ==
    ASSUME Once, starting = NoCache
    PROVE  Cardinality(Running) = Cardinality(InUse)
<1> DEFINE open == [fd \in InUse |-> caches[fd]]
<1>1. TypeOK /\ starting \notin Cache
  BY ReadLoopAssumption DEF Once, ReadLoopAssumption
<1>2. \A fd \in InUse : caches[fd] \in Running /\ stream[caches[fd]] = fd
  BY <1>1, ReadLoopAssumption
     DEF InUse, Running, Once, MapMatchesStreams, TypeOK, ReadLoopAssumption
<1>3. \A c \in Running : stream[c] \in InUse /\ caches[stream[c]] = c
  BY <1>1, ReadLoopAssumption
     DEF InUse, Running, Once, MapMatchesStreams, TypeOK, ReadLoopAssumption
<1>4. open \in Bijection(InUse, Running)
  <2>1. open \in [InUse -> Running]
    BY <1>2
  <2>2. \A a, b \in InUse : open[a] = open[b] => a = b
    BY <1>2
  <2>3. \A c \in Running : \E fd \in InUse : open[fd] = c
    BY <1>3
  <2> QED
    BY <2>1, <2>2, <2>3 DEF Bijection, Injection, IsInjective, Surjection
<1> QED
  BY <1>4, InUseFinite, FS_Bijection DEF ExistsBijection

(* r is w without its i-th element, which is c. *)
TakesOut(w, i, c, r) ==
    /\ i \in 1 .. Len(w) /\ w[i] = c
    /\ r = SubSeq(w, 1, i - 1) \o SubSeq(w, i + 1, Len(w))

LEMMA TakenOut ==
    ASSUME NEW S, NEW p \in Seq(S), NEW q \in Seq(S), NEW c \in S,
           NEW w, w = p \o (<<c>> \o q), NEW i, i = Len(p) + 1, NEW r, r = p \o q
    PROVE  TakesOut(w, i, c, r)
<1>1. Len(p) \in Nat /\ Len(q) \in Nat /\ i \in Nat \ {0}
  OBVIOUS
<1>2. /\ <<c>> \o q \in Seq(S) /\ Len(<<c>> \o q) = 1 + Len(q)
      /\ (<<c>> \o q)[1] = c
      /\ \A j \in 1 .. Len(q) : (<<c>> \o q)[j + 1] = q[j]
  OBVIOUS
<1>3. /\ w \in Seq(S) /\ Len(w) = Len(p) + 1 + Len(q)
      /\ \A j \in 1 .. Len(w) : w[j] = IF j <= Len(p) THEN p[j] ELSE (<<c>> \o q)[j - Len(p)]
  BY <1>1, <1>2, ConcatProperties
<1>4. i \in 1 .. Len(w) /\ w[i] = c
  BY <1>1, <1>2, <1>3
<1> DEFINE left  == SubSeq(w, 1, i - 1)
           right == SubSeq(w, i + 1, Len(w))
<1>5. \A j \in 1 .. Len(w) : w[j] \in S
  BY <1>3, ElementOfSeq
<1>6. /\ left \in Seq(S) /\ Len(left) = Len(p)
      /\ \A j \in 1 .. Len(p) : left[j] = w[j]
  <2>1. \A j \in 1 .. i - 1 : w[j] \in S
    BY <1>1, <1>3, <1>5
  <2> QED
    BY <1>1, <2>1, SubSeqProperties
<1>7. /\ right \in Seq(S) /\ Len(right) = Len(q)
      /\ \A j \in 1 .. Len(q) : right[j] = w[i + j]
  <2>1. \A j \in i + 1 .. Len(w) : w[j] \in S
    BY <1>1, <1>3, <1>5
  <2> QED
    BY <1>1, <1>3, <2>1, SubSeqProperties
<1>8. \A j \in 1 .. Len(p) : left[j] = p[j]
  BY <1>1, <1>3, <1>6
<1>9. \A j \in 1 .. Len(q) : right[j] = q[j]
  <2> TAKE j \in 1 .. Len(q)
  <2>1. w[i + j] = (<<c>> \o q)[j + 1]
    BY <1>1, <1>3
  <2> QED
    BY <1>2, <1>7, <2>1
<1> HIDE DEF left, right
<1>10. left = p /\ right = q
  BY <1>6, <1>7, <1>8, <1>9, SeqEqual
<1> QED
  BY <1>4, <1>10 DEF left, right, TakesOut

(* Steps Translations does not see. *)
LEMMA Unseen ==
    ASSUME UNCHANGED <<Waits, held, Running, finished, size, cancelled>>, (io = "dead") <=> (io' = "dead")
    PROVE  UNCHANGED Abstract!vars
BY DEF Abstract!vars, Waits, Running

LEMMA WaitsSeqs ==
    ASSUME TypeOK
    PROVE  /\ tasks \in Seq(Task) /\ queue \in Seq(Cache) /\ CachesAdded(tasks) \in Seq(Cache)
           /\ Waits \in Seq(Cache) /\ Len(Waits) \in Nat
<1>1. tasks \in Seq(Task) /\ queue \in Seq(Cache)
  BY DEF TypeOK
<1>2. CachesAdded(tasks) \in Seq(Cache)
  BY <1>1, AddedInOrder
<1>3. Waits \in Seq(Cache)
  BY <1>1, <1>2, ConcatProperties DEF Waits
<1> QED
  BY <1>1, <1>2, <1>3, LenProperties

LEMMA AskStep ==
    ASSUME TypeOK, io # "dead", NEW c \in Cache, Add(c)
    PROVE  Abstract!Next
<1>1. /\ ~cancelled /\ held' = held \cup {c} /\ tasks' = Append(tasks, AddTask(c))
      /\ UNCHANGED <<io, queue, stream, starting, finished, size, cancelled>>
  BY DEF Add, Post, loopVars
<1>2. CachesAdded(tasks') = Append(CachesAdded(tasks), c)
  BY <1>1, AddPosted DEF TypeOK
<1>3. queue \o Append(CachesAdded(tasks), c) = Append(queue \o CachesAdded(tasks), c)
  <2> DEFINE p == CachesAdded(tasks)
  <2>1. p \in Seq(Cache) /\ queue \in Seq(Cache) /\ queue \o p \in Seq(Cache) /\ <<c>> \in Seq(Cache)
    BY WaitsSeqs DEF Waits
  <2> HIDE DEF p
  <2>2. Append(p, c) = p \o <<c>> /\ Append(queue \o p, c) = (queue \o p) \o <<c>>
    BY <2>1, AppendIsConcat
  <2>3. queue \o (p \o <<c>>) = (queue \o p) \o <<c>>
    BY <2>1, ConcatAssociative
  <2> QED
    BY <2>2, <2>3 DEF p
<1>4. Abstract!Ask(c)
  BY <1>1, <1>2, <1>3 DEF Abstract!Ask
<1> QED
  BY <1>4 DEF Abstract!Next

LEMMA AbandonStep ==
    ASSUME io # "dead", NEW c \in Cache, Drop(c)
    PROVE  Abstract!Next
<1>1. Abstract!Abandon(c)
  BY DEF Drop, loopVars, Abstract!Abandon
<1> QED
  BY <1>1 DEF Abstract!Next

LEMMA CloseStep ==
    ASSUME TypeOK, TypeOK', io # "dead", Cancel
    PROVE  Abstract!Next
<1>1. /\ cancelled' = TRUE /\ tasks' = Append(tasks, CancelTask)
      /\ UNCHANGED <<io, queue, stream, starting, finished, size, held>>
  BY DEF Cancel, Post, loopVars
<1>2. CancelTask \in Task /\ CancelTask.op # "add"
  BY TasksAreTasks DEF CancelTask
<1>3. CachesAdded(tasks') = CachesAdded(tasks)
  BY <1>1, <1>2, PostKeepsOrder
<1>4. Abstract!Close
  BY <1>1, <1>3 DEF Abstract!Close
<1> QED
  BY <1>4 DEF Abstract!Next

(* A step that posts a handler which is not an add. *)
LEMMA PostUnseen ==
    ASSUME TypeOK, TypeOK', NEW t \in Task, t.op # "add", tasks' = Append(tasks, t),
           UNCHANGED <<io, queue, stream, starting, finished, size, held, cancelled>>
    PROVE  UNCHANGED Abstract!vars
<1>1. CachesAdded(tasks') = CachesAdded(tasks)
  BY PostKeepsOrder
<1> QED
  BY <1>1, Unseen DEF Waits, Running

(* The abstract module counts as this one does. *)
LEMMA SameCount == \A S : Abstract!Cardinality(S) = Cardinality(S)
  BY DEF Abstract!Cardinality, Cardinality, Abstract!IsFiniteSet, IsFiniteSet

(* doAdd() takes c out of those that wait: it starts it or drops it. *)
LEMMA LeaveStep ==
    ASSUME Once, TypeOK', io # "dead", io' # "dead", starting = NoCache,
           processLimit = 0 \/ BelowLimit,
           NEW p \in Seq(Cache), NEW q \in Seq(Cache), NEW c \in Cache,
           NEW start, NEW after,
           Waits = p \o (<<c>> \o q), Waits' = p \o q,
           p = <<>> \/ cancelled,
           DoAdd(c, start, after),
           UNCHANGED <<stream, finished, size, held, cancelled>>
    PROVE  Abstract!Next
<1>1. PICK w : w = Waits
  OBVIOUS
<1>2. PICK i : i = Len(p) + 1
  OBVIOUS
<1>3. /\ i \in 1 .. Len(w) /\ w[i] = c
      /\ Waits' = SubSeq(w, 1, i - 1) \o SubSeq(w, i + 1, Len(w))
  <2>1. PICK r : r = p \o q
    OBVIOUS
  <2>2. w = p \o (<<c>> \o q)
    BY <1>1
  <2>3. TakesOut(w, i, c, r)
    BY <1>2, <2>1, <2>2, TakenOut
  <2> QED
    BY <2>1, <2>3 DEF TakesOut
<1>4. i = 1 \/ cancelled
  BY <1>2
<1>5. starting \notin Cache
  BY ReadLoopAssumption DEF ReadLoopAssumption
<1>6. CASE c \notin held
  <2>1. starting' = starting
    BY <1>6 DEF DoAdd
  <2>2. Running' = Running
    BY <2>1 DEF Running
  <2>3. Abstract!Skip(i)
    BY <1>1, <1>3, <1>4, <1>6, <2>2 DEF Abstract!Skip, Abstract!Leave, Waits, Running
  <2> QED
    BY <1>1, <1>3, <2>3 DEF Abstract!Next, Waits
<1>7. CASE c \in held
  <2>1. starting' = c
    BY <1>7 DEF DoAdd
  <2>2. Running' = Running \cup {c}
    BY <1>5, <2>1 DEF Running
  <2>3. Cardinality(Running) = Cardinality(InUse)
    BY RunningInUse
  <2>4. processLimit = 0 \/ Cardinality(Running) < processLimit
    BY <2>3 DEF BelowLimit
  <2>5. Abstract!Start(i)
    BY <1>1, <1>3, <1>4, <1>7, <2>2, <2>4, SameCount DEF Abstract!Start, Abstract!Leave, Waits, Running
  <2> QED
    BY <1>1, <1>3, <2>5 DEF Abstract!Next, Waits
<1> QED
  BY <1>6, <1>7

LEMMA RunAddStep ==
    ASSUME Refines, TypeOK', RunAdd
    PROVE  Abstract!Next \/ UNCHANGED Abstract!vars
<1>1. /\ TypeOK /\ Once /\ io = "idle" /\ starting = NoCache
      /\ tasks # <<>> /\ Head(tasks) = tasks[1] /\ tasks[1] \in Task /\ tasks[1].op = "add"
      /\ tasks' = Tail(tasks)
      /\ UNCHANGED <<stream, finished, size, held, cancelled>>
  BY HeadTail DEF Refines, Once, TypeOK, RunAdd, NextTask, otherVars
<1>2. PICK c \in Cache : c = Head(tasks).cache
  BY <1>1, TaskFields
<1>3. CachesAdded(tasks) = <<c>> \o CachesAdded(tasks')
  BY <1>1, <1>2, AddTaken
<1>4. PICK p : p = queue
  OBVIOUS
<1>5. PICK q : q = CachesAdded(tasks')
  OBVIOUS
<1>6. p \in Seq(Cache) /\ q \in Seq(Cache) /\ Waits = p \o (<<c>> \o q)
  BY <1>1, <1>3, <1>4, <1>5, AddedInOrder DEF Waits, TypeOK
<1>7. CASE /\ processLimit = 0 \/ BelowLimit
           /\ DoAdd(c, "startAdded", "idle") /\ UNCHANGED queue
  <2>1. Waits' = p \o q
    BY <1>4, <1>5, <1>7 DEF Waits
  <2>2. p = <<>> \/ cancelled
    BY <1>1, <1>4, <1>7, InUseFinite, FS_CardinalityType, ReadLoopAssumption
       DEF Refines, QueueOnlyWhenFull, BelowLimit, ReadLoopAssumption
  <2>3. io # "dead" /\ io' # "dead"
    BY <1>1, <1>7 DEF DoAdd
  <2>4. Abstract!Next
    BY <1>1, <1>6, <1>7, <2>1, <2>2, <2>3, LeaveStep
  <2> QED
    BY <2>4
<1>8. CASE queue' = Append(queue, c) /\ UNCHANGED <<io, starting>>
  <2>1. queue' = p \o <<c>>
    BY <1>4, <1>6, <1>8
  <2>2. (p \o <<c>>) \o q = p \o (<<c>> \o q)
    BY <1>6, ConcatAssociative
  <2>3. Waits' = Waits
    BY <1>5, <1>6, <2>1, <2>2 DEF Waits
  <2> QED
    BY <1>1, <1>8, <2>3, Unseen DEF Running
<1> QED
  BY <1>2, <1>7, <1>8 DEF RunAdd

LEMMA DrainStep ==
    ASSUME Refines, TypeOK', DrainOne
    PROVE  Abstract!Next
<1>1. /\ TypeOK /\ Once /\ io = "drain" /\ starting = NoCache /\ BelowLimit
      /\ queue # <<>> /\ queue' = Tail(queue) /\ DoAdd(Head(queue), "startQueued", "drain")
      /\ UNCHANGED <<tasks, stream, finished, size, held, cancelled>>
  BY DEF Refines, Once, TypeOK, DrainOne, otherVars
<1>2. io # "dead" /\ io' # "dead"
  BY <1>1 DEF DoAdd
<1>3. PICK c \in Cache : c = Head(queue)
  BY <1>1 DEF TypeOK
<1>4. PICK p : p = CachesAdded(tasks)
  OBVIOUS
<1>5. PICK rest \in Seq(Cache) : rest = Tail(queue)
  BY <1>1 DEF TypeOK
<1>6. p \in Seq(Cache) /\ <<c>> \in Seq(Cache) /\ rest \o p \in Seq(Cache)
      /\ queue = <<c>> \o rest
  BY <1>1, <1>3, <1>4, <1>5, WaitsSeqs
<1>7. Waits = <<>> \o (<<c>> \o (rest \o p))
  <2>1. Waits = (<<c>> \o rest) \o p
    BY <1>4, <1>6 DEF Waits
  <2>2. (<<c>> \o rest) \o p = <<c>> \o (rest \o p)
    BY <1>6, ConcatAssociative
  <2>3. <<c>> \o (rest \o p) \in Seq(Cache)
    BY <1>6, ConcatProperties
  <2> QED
    BY <2>1, <2>2, <2>3, ConcatEmptySeq
<1>8. Waits' = <<>> \o (rest \o p)
  BY <1>1, <1>4, <1>5, <1>6, ConcatEmptySeq DEF Waits
<1>9. <<>> \in Seq(Cache)
  OBVIOUS
<1> QED
  BY <1>1, <1>2, <1>3, <1>6, <1>7, <1>8, <1>9, LeaveStep

LEMMA StartUnseen ==
    ASSUME Refines, StartCommand
    PROVE  UNCHANGED Abstract!vars
<1>1. PICK fd \in Fd : stream' = [stream EXCEPT ![starting] = fd]
  BY DEF StartCommand
<1>2. /\ TypeOK /\ starting \in Cache /\ starting' = NoCache /\ io # "dead" /\ io' # "dead"
      /\ fd # NoFd
      /\ UNCHANGED <<tasks, queue, finished, size, held, cancelled>>
  BY ReadLoopAssumption DEF Refines, Once, TypeOK, StartCommand, otherVars, ReadLoopAssumption
<1>3. \A c \in Cache : /\ stream'[c] = IF c = starting THEN fd ELSE stream[c]
                       /\ c # starting'
  BY <1>1, <1>2, ReadLoopAssumption DEF TypeOK, ReadLoopAssumption
<1>4. Running' = Running
  BY <1>2, <1>3 DEF Running
<1> QED
  BY <1>2, <1>4, Unseen DEF Waits

LEMMA CrashStep ==
    ASSUME Refines, SpawnFails
    PROVE  Abstract!Next
<1>1. /\ io # "dead" /\ io' = "dead" /\ starting \in Cache /\ starting # NoCache
      /\ UNCHANGED <<tasks, queue, stream, starting, finished, size, held, cancelled>>
  BY DEF Refines, Once, TypeOK, SpawnFails, loopVars, otherVars
<1>2. size[starting] = 0
  BY <1>1 DEF Refines, Once, StartedOnce, Fresh, Unwritten
<1>3. Abstract!Crash
  BY <1>1, <1>2 DEF Abstract!Crash
<1> QED
  BY <1>1, <1>3 DEF Abstract!Next

LEMMA DeliverStep ==
    ASSUME Refines, TypeOK', RunRead
    PROVE  Abstract!Next \/ UNCHANGED Abstract!vars
<1>1. /\ TypeOK /\ io = "idle" /\ UNCHANGED io
      /\ tasks # <<>> /\ Head(tasks) = tasks[1] /\ tasks[1] \in Task /\ tasks[1].op = "read"
      /\ Tail(tasks) \in Seq(Task)
      /\ UNCHANGED <<starting, queue, stream, finished, held, cancelled>>
  BY HeadTail DEF Refines, Once, TypeOK, RunRead, NextTask, otherVars
<1>2. PICK c \in Cache : c = Head(tasks).cache
  BY <1>1, TaskFields
<1>3. PICK k \in {0, 1} : k = 1
  OBVIOUS
<1>4. k = 1 => tasks # <<>> /\ tasks[1].op # "add"
  BY <1>1
<1>5. CASE /\ stream[c] # NoFd /\ size' = [size EXCEPT ![c] = @ + 1]
           /\ tasks' = Tail(tasks)
  <2>1. tasks' = (IF k = 0 THEN tasks ELSE Tail(tasks)) \o <<>>
    BY <1>1, <1>3, <1>5, ConcatEmptySeq
  <2>2. <<>> \in Seq(Task) /\ \A n \in 1 .. Len(<<>>) : FALSE
    OBVIOUS
  <2>3. CachesAdded(tasks') = CachesAdded(tasks)
    BY <1>1, <1>4, <2>1, <2>2, OrderStays
  <2>4. Abstract!Deliver(c)
    BY <1>1, <1>5, <2>3 DEF Abstract!Deliver
  <2> QED
    BY <1>1, <2>4 DEF Abstract!Next
<1>6. CASE UNCHANGED size /\ tasks' = Append(Tail(tasks), RemoveTask(stream[c]))
  <2>1. PICK t \in Task : t = RemoveTask(stream[c])
    BY <1>1, TasksAreTasks DEF TypeOK
  <2> DEFINE new == <<t>>
  <2>2. new \in Seq(Task) /\ tasks' = (IF k = 0 THEN tasks ELSE Tail(tasks)) \o new
    BY <1>1, <1>3, <1>6, <2>1
  <2>3. \A n \in 1 .. Len(new) : new[n].op # "add"
    BY <2>1 DEF RemoveTask
  <2> HIDE DEF new
  <2>4. CachesAdded(tasks') = CachesAdded(tasks)
    BY <1>1, <1>4, <2>2, <2>3, OrderStays
  <2> QED
    BY <1>1, <1>6, <2>4, Unseen DEF Waits, Running
<1> QED
  BY <1>1, <1>2, <1>5, <1>6 DEF RunRead

LEMMA EndStep ==
    ASSUME Refines, TypeOK', io = "idle", io' # "dead", tasks # <<>>, tasks[1].op # "add",
           NEW fds \in SUBSET InUse, Destroy(fds, Tail(tasks)),
           cancelled \/ \E fd : fds \subseteq {fd},
           UNCHANGED <<starting, queue, size, held, cancelled>>
    PROVE  Abstract!Next \/ UNCHANGED Abstract!vars
<1>1. PICK gone : gone = {caches[fd] : fd \in fds}
  OBVIOUS
<1>2. PICK order \in Orders(gone \cap reading) :
         tasks' = Tail(tasks) \o [i \in DOMAIN order |-> ReadTask(order[i], "end")]
  BY <1>1 DEF Destroy
<1>3. /\ TypeOK /\ Once /\ starting = NoCache
      /\ gone \subseteq Cache /\ order \in Seq(gone \cap reading)
  BY <1>1, <1>2, OrderFacts DEF Refines, Once, TypeOK
<1> DEFINE new == [i \in DOMAIN order |-> ReadTask(order[i], "end")]
<1>4. new \in Seq(Task)
  BY <1>3, AbortTasks
<1>5. \A n \in 1 .. Len(new) : new[n].op # "add"
  BY <1>3, <1>4 DEF ReadTask
<1>6. CachesAdded(tasks') = CachesAdded(tasks)
  <2>1. PICK k \in {0, 1} : k = 1
    OBVIOUS
  <2>2. tasks' = (IF k = 0 THEN tasks ELSE Tail(tasks)) \o new
    BY <1>2, <2>1
  <2> HIDE DEF new
  <2> QED
    BY <1>3, <1>4, <1>5, <2>1, <2>2, OrderStays
<1>7. /\ finished' = finished \cup gone
      /\ stream' = [c \in Cache |-> IF c \in gone THEN NoFd ELSE stream[c]]
  BY <1>1 DEF Destroy
<1>8. starting \notin Cache
  BY <1>3, ReadLoopAssumption DEF ReadLoopAssumption
<1>9. Running' = Running \ gone
  BY <1>7, <1>8 DEF Running
<1>10. gone \subseteq Running
  <2>1. \A fd \in fds : caches[fd] \in Cache /\ fd \in Fd /\ fd # NoFd /\ stream[caches[fd]] = fd
    BY <1>3, ReadLoopAssumption DEF InUse, Once, MapMatchesStreams, TypeOK, ReadLoopAssumption
  <2> QED
    BY <1>1, <2>1 DEF Running
<1>11. CASE gone = {}
  <2>1. Running' = Running /\ finished' = finished
    BY <1>7, <1>9, <1>11
  <2> QED
    BY <1>6, <2>1, Unseen DEF Waits
<1>12. CASE gone # {}
  <2>1. Cardinality(gone) = 1 \/ cancelled
    <3> SUFFICES ASSUME NEW fd, fds \subseteq {fd}
                 PROVE  Cardinality(gone) = 1
      OBVIOUS
    <3>1. gone = {caches[fd]}
      BY <1>1, <1>12
    <3> QED
      BY <3>1, FS_Singleton
  <2>2. Abstract!End(gone)
    BY <1>6, <1>7, <1>9, <1>12, <2>1, SameCount DEF Abstract!End, Running
  <2> QED
    BY <1>10, <2>2 DEF Abstract!Next, Running
<1> QED
  BY <1>11, <1>12

LEMMA TranslationsStep ==
    ASSUME Refines, TypeOK', [Next]_vars
    PROVE  Abstract!Next \/ UNCHANGED Abstract!vars
<1>1. TypeOK /\ Once
  BY DEF Refines, Once
<1>2. CASE UNCHANGED vars
  BY <1>2, Unseen DEF vars, loopVars, otherVars, Waits, Running
<1>3. ASSUME NEW c \in Cache, io # "dead", Add(c) \/ Drop(c)
      PROVE  Abstract!Next
  BY <1>1, <1>3, AskStep, AbandonStep
<1>4. ASSUME NEW fd \in Fd \cup {NoFd}, Remove(fd)
      PROVE  UNCHANGED Abstract!vars
  <2>1. RemoveTask(fd) \in Task /\ RemoveTask(fd).op # "add"
    BY TasksAreTasks DEF RemoveTask
  <2> QED
    BY <1>1, <1>4, <2>1, PostUnseen DEF Remove, Post, loopVars
<1>5. ASSUME NEW c \in Cache, Command(c) \/ ReadError(c)
      PROVE  UNCHANGED Abstract!vars
  <2>1. PICK got \in {"bytes", "end"} : ReadCompletes(c, got)
    BY <1>5 DEF Command, ReadData, ReadEof, ReadError
  <2>2. ReadTask(c, got) \in Task /\ ReadTask(c, got).op # "add"
    BY TasksAreTasks DEF ReadTask
  <2> QED
    BY <1>1, <2>1, <2>2, PostUnseen DEF ReadCompletes, Post
<1>6. CASE DrainEnd
  BY <1>6, Unseen DEF DrainEnd, loopVars, otherVars, Waits, Running
<1>7. CASE RunRemove
  <2>1. /\ tasks # <<>> /\ Head(tasks) = tasks[1] /\ tasks[1].op = "remove"
        /\ io = "idle" /\ io' = "drain"
        /\ UNCHANGED <<starting, queue, size, held, cancelled>>
        /\ Destroy(InUse \cap {Head(tasks).fd}, Tail(tasks))
    BY <1>1, <1>7, HeadTail DEF RunRemove, NextTask, otherVars, TypeOK
  <2>2. PICK fds : fds = InUse \cap {Head(tasks).fd}
    OBVIOUS
  <2>3. fds \subseteq InUse /\ \E fd : fds \subseteq {fd}
    BY <2>2
  <2> QED
    BY <2>1, <2>2, <2>3, EndStep
<1>8. CASE RunCancel
  <2>1. /\ tasks # <<>> /\ tasks[1].op = "cancel" /\ 1 \in 1 .. Len(tasks) /\ io = "idle"
        /\ io' # "dead" /\ UNCHANGED <<starting, queue, size, held, cancelled>>
        /\ Destroy(InUse, Tail(tasks))
    BY <1>1, <1>8, HeadTail DEF RunCancel, NextTask, otherVars, TypeOK
  <2>2. cancelled
    BY <2>1 DEF Refines, CancelPosted
  <2> QED
    BY <2>1, <2>2, EndStep
<1>9. CASE io # "dead" /\ Cancel
  BY <1>1, <1>9, CloseStep
<1>10. CASE Terminated
  BY <1>2, <1>10 DEF Terminated
<1> QED
  BY <1>2, <1>3, <1>4, <1>5, <1>6, <1>7, <1>8, <1>9, <1>10, RunAddStep, DrainStep, StartUnseen,
     CrashStep, DeliverStep DEF Next, Client, IOThread

LEMMA TranslationsInit == Init => Abstract!Init
<1> SUFFICES ASSUME Init PROVE Abstract!Init
  OBVIOUS
<1>1. tasks = <<>> /\ queue = <<>>
  BY DEF Init
<1>2. AddsIn(tasks) = {}
  BY <1>1 DEF AddsIn
<1>3. CachesAdded(tasks) = <<>>
  BY <1>1, <1>2, FS_EmptySet DEF CachesAdded
<1>4. {c \in Cache : stream[c] # NoFd \/ c = starting} = {}
  BY ReadLoopAssumption DEF Init, ReadLoopAssumption
<1> QED
  BY <1>1, <1>3, <1>4 DEF Init, Abstract!Init

(* The read loop implements Translations: tasks start in the order they were  *)
(* added, at most processLimit at a time, and deliver output only while they  *)
(* run.                                                                      *)
THEOREM LoopIsTranslations == Spec => ImplementsTranslations
<1>1. Refines /\ TypeOK' /\ [Next]_vars => [Abstract!Next]_(Abstract!vars)
  BY TranslationsStep
<1> QED
  BY <1>1, TranslationsInit, AllRefines, TypeCorrect, PTL
     DEF Spec, ImplementsTranslations, Abstract!Spec
=============================================================================
