--------------------------- MODULE SeekableProofs ---------------------------
(***************************************************************************)
(* Theorems about SeekableController, for any files, descriptors, blocks    *)
(* of memory, outputs and process limit.                                   *)
(***************************************************************************)
EXTENDS SeekableController, ReadLoopProofs

-----------------------------------------------------------------------------
(* Types, and the controller as a client of the read loop.                   *)

LEMMA SeekInitType == SeekInit => SeekTypeOK
<1> SUFFICES ASSUME SeekInit PROVE SeekTypeOK
  OBVIOUS
<1>1. TypeOK
  BY InitType DEF SeekInit
<1> QED
  BY <1>1 DEF SeekInit, SeekTypeOK

LEMMA ClientStep == SeekTypeOK /\ [SeekNext]_seekVars => [Next]_vars
<1> SUFFICES ASSUME SeekTypeOK, [SeekNext]_seekVars PROVE [Next]_vars
  OBVIOUS
<1>1. CASE UNCHANGED seekVars
  BY <1>1 DEF seekVars
<1>2. CASE io # "dead" /\ (Unmount \/ \E c \in Cache : FileRequest(c))
  <2>1. CASE Unmount
    BY <1>2, <2>1 DEF Unmount, Next, Client
  <2>2. ASSUME NEW c \in Cache, OpenSeekable(c) \/ FreeFileData(c)
        PROVE  Next
    BY <1>2, <2>2 DEF OpenSeekable, FreeFileData, Next, Client
  <2>3. ASSUME NEW c \in Cache, ReleaseSeekable(c)
        PROVE  Next
    <3>1. fileFd[fileData[c]] \in Fd \cup {NoFd}
      BY <2>3 DEF SeekTypeOK
    <3> QED
      BY <1>2, <2>3, <3>1 DEF ReleaseSeekable, Next, Client
  <2> QED
    BY <1>2, <2>1, <2>2, <2>3 DEF FileRequest
<1>3. CASE io # "dead" /\ \E c \in Cache : Command(c) \/ ReadError(c)
  BY <1>3 DEF Next
<1>4. CASE LoopStep
  BY <1>4 DEF LoopStep, LoopOnly, StartSeekable, SpawnSeekableFails, Next, IOThread
<1>5. CASE Terminated
  BY <1>5 DEF Next
<1> QED
  BY <1>1, <1>2, <1>3, <1>4, <1>5 DEF SeekNext

LEMMA SeekNextType == SeekTypeOK /\ [SeekNext]_seekVars => SeekTypeOK'
<1> SUFFICES ASSUME SeekTypeOK, [SeekNext]_seekVars PROVE SeekTypeOK'
  OBVIOUS
<1>1. TypeOK /\ TypeOK'
  BY ClientStep, NextType DEF SeekTypeOK
<1>2. CASE UNCHANGED <<handleVars, inputs, ownFd, early>>
  BY <1>1, <1>2 DEF SeekTypeOK, handleVars
<1>3. ASSUME NEW c \in Cache, FileRequest(c)
      PROVE  SeekTypeOK'
  BY <1>1, <1>3 DEF FileRequest, OpenSeekable, ReleaseSeekable, FreeFileData, SeekTypeOK
<1>4. CASE StartSeekable
  <2>1. starting \in Cache /\ stream'[starting] \in Fd \cup {NoFd}
    BY <1>1, <1>4 DEF StartSeekable, StartCommand, TypeOK
  <2> QED
    BY <1>1, <1>4, <2>1 DEF StartSeekable, SeekTypeOK
<1>5. CASE SpawnSeekableFails
  BY <1>1, <1>5 DEF SpawnSeekableFails, SeekTypeOK, handleVars
<1> QED
  BY <1>2, <1>3, <1>4, <1>5 DEF SeekNext, LoopStep, Unmount, seekVars

LEMMA SeekTypeCorrect == SeekSpec => []SeekTypeOK
  BY SeekInitType, SeekNextType, PTL DEF SeekSpec

(* The steps of the controller are written with those of ReadLoop, so the      *)
(* theorems about the loop hold in seekable mode.                            *)
LEMMA ControllerIsClient == SeekSpec => Spec
<1>1. SeekInit => Init
  BY DEF SeekInit
<1> QED
  BY <1>1, SeekTypeCorrect, ClientStep, PTL DEF SeekSpec, Spec

-----------------------------------------------------------------------------
(* The descriptor in the FileData of a file that is in use is its command's.  *)

(* ownFd says which descriptor a file's command has or had. *)
OwnKnown ==
    \A c \in Cache :
        /\ ownFd[c] # NoFd => stream[c] # NoFd \/ c \in finished
        /\ stream[c] # NoFd => ownFd[c] = stream[c]

(* What the controller owns is what is in memory, no two in one block. *)
Apart ==
    /\ held = InMemory
    /\ \A c, d \in InMemory : fileData[c] = fileData[d] => c = d

(* If createCommand()'s pointer dangles, the file that has the memory now has  *)
(* no descriptor stored in it yet.                                           *)
Dangling ==
    starting # NoCache /\ starting \notin InMemory =>
        \A c \in InMemory : fileData[c] = fileData[starting] => ownFd[c] = NoFd

Late ==
    \A c \in Cache \ early : handle[c] \in {"releasing", "released"} => ownFd[c] # NoFd

SeekInv ==
    /\ SeekTypeOK
    /\ OwnKnown
    /\ Apart
    /\ DescriptorKept
    /\ Dangling
    /\ Late
    /\ ReleaseReaches

LEMMA SeekInitInv == SeekInit => SeekInv
<1> SUFFICES ASSUME SeekInit PROVE SeekInv
  OBVIOUS
<1>1. \A c \in Cache : /\ handle[c] = "none"
                       /\ ownFd[c] = NoFd
                       /\ stream[c] = NoFd
  BY DEF SeekInit, Init
<1>2. InMemory = {} /\ held = {} /\ starting = NoCache
  BY <1>1 DEF InMemory, SeekInit, Init
<1>3. ReleaseReaches
  BY <1>1 DEF ReleaseReaches
<1>4. OwnKnown /\ Late
  BY <1>1 DEF OwnKnown, Late
<1>5. Apart /\ DescriptorKept /\ Dangling
  BY <1>2 DEF Apart, DescriptorKept, Dangling
<1> QED
  BY <1>3, <1>4, <1>5, SeekInitType DEF SeekInv

-----------------------------------------------------------------------------
(* A handler that is posted stays posted until it is executed.               *)

LEMMA AppendKeeps ==
    ASSUME TypeOK, NEW task \in Task, tasks' = Append(tasks, task)
    PROVE  /\ Pending(task)'
           /\ \A t : Pending(t) => Pending(t)'
<1>1. /\ Len(tasks) \in Nat
      /\ Len(tasks') = Len(tasks) + 1
      /\ \A i \in 1 .. Len(tasks) : tasks'[i] = tasks[i]
      /\ tasks'[Len(tasks) + 1] = task
  BY DEF TypeOK
<1> QED
  BY <1>1 DEF Pending

LEMMA TailKeeps ==
    ASSUME TypeOK, tasks # <<>>, NEW rest \in Seq(Task), tasks' = Tail(tasks) \o rest,
           NEW t, t # Head(tasks), Pending(t)
    PROVE  Pending(t)'
<1>1. PICK i \in 1 .. Len(tasks) : tasks[i] = t
  BY DEF Pending
<1>2. /\ Len(tasks) \in Nat \ {0}
      /\ Head(tasks) = tasks[1]
      /\ Tail(tasks) \in Seq(Task)
      /\ Len(Tail(tasks)) = Len(tasks) - 1
      /\ \A j \in 1 .. Len(tasks) - 1 : Tail(tasks)[j] = tasks[j + 1]
  BY HeadTail DEF TypeOK
<1>3. i - 1 \in 1 .. Len(tasks) - 1 /\ Tail(tasks)[i - 1] = t
  BY <1>1, <1>2
<1>4. /\ Len(tasks') = Len(Tail(tasks)) + Len(rest)
      /\ Len(rest) \in Nat
      /\ \A j \in 1 .. Len(Tail(tasks)) : tasks'[j] = Tail(tasks)[j]
  BY <1>2
<1>5. i - 1 \in 1 .. Len(tasks') /\ tasks'[i - 1] = t
  BY <1>2, <1>3, <1>4
<1> QED
  BY <1>5 DEF Pending

(* A handler takes no other handler away. *)
LEMMA HandlersKeep ==
    ASSUME SeekTypeOK, RunAdd \/ RunRead \/ RunCancel \/ RunRemove,
           NEW t, Pending(t), Head(tasks) # t
    PROVE  Pending(t)'
<1>1. TypeOK
  BY DEF SeekTypeOK
<1>2. tasks # <<>> /\ Head(tasks) \in Task /\ Tail(tasks) \in Seq(Task)
  <2>1. tasks # <<>>
    BY DEF RunAdd, RunRead, RunCancel, RunRemove, NextTask
  <2> QED
    BY <1>1, <2>1, HeadTail DEF TypeOK
<1>3. ASSUME NEW rest \in Seq(Task), tasks' = Tail(tasks) \o rest
      PROVE  Pending(t)'
  BY <1>1, <1>2, <1>3, TailKeeps
<1>4. ASSUME tasks' = Tail(tasks)
      PROVE  Pending(t)'
  <2>1. <<>> \in Seq(Task) /\ Tail(tasks) \o <<>> = Tail(tasks)
    BY <1>2, ConcatEmptySeq
  <2> QED
    BY <1>3, <1>4, <2>1
<1>5. CASE RunAdd
  BY <1>4, <1>5 DEF RunAdd
<1>6. CASE RunRead
  <2>1. CASE tasks' = Tail(tasks)
    BY <1>4, <2>1
  <2>2. CASE tasks' = Append(Tail(tasks), RemoveTask(stream[Head(tasks).cache]))
    <3>1. RemoveTask(stream[Head(tasks).cache]) \in Task
      BY <1>1, <1>2, <1>6, TaskFields, TasksAreTasks DEF RunRead, NextTask, TypeOK
    <3> DEFINE rest == <<RemoveTask(stream[Head(tasks).cache])>>
    <3>2. rest \in Seq(Task) /\ tasks' = Tail(tasks) \o rest
      BY <1>2, <2>2, <3>1
    <3> QED
      BY <1>3, <3>2
  <2> QED
    BY <1>6, <2>1, <2>2 DEF RunRead
<1>7. ASSUME NEW fds \in SUBSET InUse, Destroy(fds, Tail(tasks))
      PROVE  Pending(t)'
  <2> DEFINE gone == {caches[f] : f \in fds}
  <2>1. PICK order \in Orders(gone \cap reading) :
           tasks' = Tail(tasks) \o [i \in DOMAIN order |-> ReadTask(order[i], "end")]
    BY <1>7 DEF Destroy
  <2>2. gone \subseteq Cache /\ order \in Seq(gone \cap reading)
    BY <1>1, <2>1, OrderFacts
  <2>3. [i \in DOMAIN order |-> ReadTask(order[i], "end")] \in Seq(Task)
    BY <2>2, AbortTasks
  <2> QED
    BY <1>3, <2>1, <2>3
<1>8. CASE RunCancel
  BY <1>7, <1>8 DEF RunCancel
<1>9. CASE RunRemove
  <2>1. InUse \cap {Head(tasks).fd} \in SUBSET InUse
    OBVIOUS
  <2> QED
    BY <1>7, <1>9, <2>1 DEF RunRemove
<1> QED
  BY <1>5, <1>6, <1>8, <1>9

-----------------------------------------------------------------------------
(* The steps.                                                                *)

LEMMA OpenInv ==
    ASSUME SeekInv, Once, SeekTypeOK', NEW c \in Cache, OpenSeekable(c)
    PROVE  SeekInv'
<1> USE DEF SeekTypeOK
<1>1. /\ c \notin added
      /\ tasks' = Append(tasks, AddTask(c))
      /\ held' = held \cup {c}
      /\ UNCHANGED <<starting, stream, finished, ownFd, early>>
  BY DEF OpenSeekable, Add, Post, loopVars
<1>2. PICK b \in Block \ {fileData[d] : d \in InMemory} :
         /\ fileData' = [fileData EXCEPT ![c] = b]
         /\ fileFd' = [fileFd EXCEPT ![b] = NoFd]
  BY DEF OpenSeekable
<1>3. handle' = [handle EXCEPT ![c] = "open"]
  BY DEF OpenSeekable
<1>4. ownFd[c] = NoFd /\ stream[c] = NoFd
  BY <1>1 DEF SeekInv, OwnKnown, Once, StartedOnce
<1>5. InMemory' = InMemory \cup {c} /\ InMemory \subseteq Cache
  BY <1>3 DEF SeekInv, InMemory
<1>6. c \notin InMemory
  BY <1>1 DEF SeekInv, Apart, TypeOK
<1>7. \A d \in InMemory : d # c /\ fileData'[d] = fileData[d] /\ fileData[d] # b
  BY <1>2, <1>5, <1>6 DEF SeekInv
<1>8. fileData'[c] = b
  BY <1>2 DEF SeekInv
<1>9. OwnKnown' /\ Late'
  BY <1>1, <1>3, <1>4 DEF SeekInv, OwnKnown, Late
<1>10. Apart'
  BY <1>1, <1>5, <1>7, <1>8 DEF SeekInv, Apart
<1>11. DescriptorKept'
  <2>1. \A d \in InMemory : fileFd'[fileData'[d]] = fileFd[fileData[d]]
    BY <1>2, <1>5, <1>7 DEF SeekInv
  <2> QED
    BY <1>1, <1>4, <1>5, <2>1 DEF SeekInv, DescriptorKept
<1>12. Dangling'
  <2> SUFFICES ASSUME starting # NoCache, starting \notin InMemory', NEW d \in InMemory',
                      fileData'[d] = fileData'[starting]
               PROVE  ownFd[d] = NoFd
    BY <1>1 DEF Dangling
  <2>1. starting # c /\ starting \in Cache
    BY <1>1 DEF Once, StartedOnce, Fresh, SeekInv, TypeOK
  <2>2. fileData'[starting] = fileData[starting]
    BY <1>2, <2>1 DEF SeekInv
  <2> QED
    BY <1>4, <1>5, <1>7, <2>2 DEF SeekInv, Dangling
<1>13. ReleaseReaches'
  <2>1. AddTask(c) \in Task
    BY TasksAreTasks
  <2> QED
    BY <1>1, <1>3, <1>4, <2>1, AppendKeeps DEF SeekInv, ReleaseReaches
<1> QED
  BY <1>9, <1>10, <1>11, <1>12, <1>13 DEF SeekInv

LEMMA ReleaseInv ==
    ASSUME SeekInv, SeekTypeOK', NEW c \in Cache, ReleaseSeekable(c)
    PROVE  SeekInv'
<1> USE DEF SeekTypeOK
<1>1. /\ handle[c] = "open"
      /\ tasks' = Append(tasks, RemoveTask(fileFd[fileData[c]]))
      /\ handle' = [handle EXCEPT ![c] = "releasing"]
      /\ early' = IF ownFd[c] = NoFd THEN early \cup {c} ELSE early
      /\ UNCHANGED <<held, starting, stream, finished, fileData, fileFd, ownFd>>
  BY DEF ReleaseSeekable, Remove, Post, loopVars
<1>2. InMemory' = InMemory /\ c \in InMemory
  BY <1>1 DEF SeekInv, InMemory
<1>3. OwnKnown' /\ Apart' /\ DescriptorKept' /\ Dangling'
  BY <1>1, <1>2 DEF SeekInv, OwnKnown, Apart, DescriptorKept, Dangling
<1>4. Late'
  BY <1>1 DEF SeekInv, Late
<1>5. ReleaseReaches'
  <2>1. RemoveTask(fileFd[fileData[c]]) \in Task
    BY TasksAreTasks DEF SeekInv
  <2>2. stream[c] # NoFd => fileFd[fileData[c]] = stream[c]
    BY <1>2 DEF SeekInv, OwnKnown, DescriptorKept
  <2>3. stream[c] # NoFd => Pending(RemoveTask(stream[c]))'
    BY <1>1, <2>1, <2>2, AppendKeeps DEF SeekInv
  <2>4. \A t : Pending(t) => Pending(t)'
    BY <1>1, <2>1, AppendKeeps DEF SeekInv
  <2> QED
    BY <1>1, <2>3, <2>4 DEF SeekInv, ReleaseReaches
<1> QED
  BY <1>3, <1>4, <1>5 DEF SeekInv

LEMMA FreeInv ==
    ASSUME SeekInv, SeekTypeOK', NEW c \in Cache, FreeFileData(c)
    PROVE  SeekInv'
<1> USE DEF SeekTypeOK
<1>1. /\ handle[c] = "releasing"
      /\ handle' = [handle EXCEPT ![c] = "released"]
      /\ held' = held \ {c}
      /\ UNCHANGED <<tasks, starting, stream, finished, fileData, fileFd, ownFd, early>>
  BY DEF FreeFileData, Drop, loopVars
<1>2. InMemory' = InMemory \ {c} /\ c \in InMemory
  BY <1>1 DEF SeekInv, InMemory
<1>3. OwnKnown' /\ Apart' /\ DescriptorKept' /\ Late' /\ ReleaseReaches'
  BY <1>1, <1>2 DEF SeekInv, OwnKnown, Apart, DescriptorKept, Late, ReleaseReaches, Pending
<1>4. Dangling'
  BY <1>1, <1>2 DEF SeekInv, Apart, Dangling
<1> QED
  BY <1>3, <1>4 DEF SeekInv

LEMMA StartInv ==
    ASSUME SeekInv, Once, SeekTypeOK', StartSeekable
    PROVE  SeekInv'
<1> USE DEF SeekTypeOK
<1>1. PICK fd \in Fd : stream' = [stream EXCEPT ![starting] = fd]
  BY DEF StartSeekable, StartCommand
<1>2. /\ starting \in Cache
      /\ starting' = NoCache
      /\ UNCHANGED <<tasks, finished, held>>
      /\ UNCHANGED <<handle, fileData, early>>
  BY DEF StartSeekable, StartCommand, otherVars, SeekInv, TypeOK
<1>3. /\ stream'[starting] = fd
      /\ fd # NoFd
      /\ \A c \in Cache : c # starting => stream'[c] = stream[c]
  BY <1>1, <1>2, ReadLoopAssumption DEF SeekInv, TypeOK, ReadLoopAssumption
<1>4. /\ ownFd' = [ownFd EXCEPT ![starting] = fd]
      /\ fileFd' = [fileFd EXCEPT ![fileData[starting]] = fd]
  BY <1>3 DEF StartSeekable
<1>5. ownFd[starting] = NoFd
  BY <1>2, ReadLoopAssumption DEF SeekInv, OwnKnown, Once, StartedOnce, Fresh, ReadLoopAssumption, TypeOK
<1>6. InMemory' = InMemory /\ InMemory \subseteq Cache
  BY <1>2 DEF InMemory
<1>7. OwnKnown' /\ Apart' /\ Dangling' /\ Late'
  <2>1. OwnKnown'
    BY <1>2, <1>3, <1>4 DEF SeekInv, OwnKnown
  <2>2. Apart' /\ Dangling'
    BY <1>2, <1>6 DEF SeekInv, Apart, Dangling
  <2>3. Late'
    BY <1>2, <1>3, <1>4 DEF SeekInv, Late
  <2> QED
    BY <2>1, <2>2, <2>3
<1>8. DescriptorKept'
  <2> SUFFICES ASSUME NEW c \in InMemory, ownFd'[c] # NoFd
               PROVE  fileFd'[fileData[c]] = ownFd'[c]
    BY <1>2, <1>6 DEF DescriptorKept
  <2>1. CASE c = starting
    BY <1>2, <1>4, <2>1 DEF SeekInv
  <2>2. CASE c # starting
    <3>1. ownFd'[c] = ownFd[c]
      BY <1>2, <1>4, <1>6, <2>2 DEF SeekInv
    <3>2. fileData[c] # fileData[starting]
      BY <1>2, <2>2, <3>1, ReadLoopAssumption DEF SeekInv, Apart, Dangling, ReadLoopAssumption
    <3>3. fileFd'[fileData[c]] = fileFd[fileData[c]]
      BY <1>4, <1>6, <3>2 DEF SeekInv
    <3> QED
      BY <3>1, <3>3 DEF SeekInv, DescriptorKept
  <2> QED
    BY <2>1, <2>2
<1>9. ReleaseReaches'
  BY <1>2, <1>3, <1>5 DEF SeekInv, Late, ReleaseReaches, Pending
<1> QED
  BY <1>7, <1>8, <1>9 DEF SeekInv

(* Steps the controller has no part in: they let go of no FileData, they      *)
(* begin to start only what the controller owns, and close the streams whose  *)
(* removals they take away.                                                  *)
LEMMA LoopInv ==
    ASSUME SeekInv, SeekTypeOK',
           UNCHANGED <<handle, fileData, fileFd, ownFd, early, held>>,
           starting' \in {starting, NoCache} \cup held,
           finished \subseteq finished',
           \A c \in Cache : stream'[c] = stream[c] \/ (stream'[c] = NoFd /\ c \in finished'),
           \A c \in Cache, fd \in Fd :
               stream[c] = fd /\ stream'[c] = fd /\ Pending(RemoveTask(fd)) =>
                   Pending(RemoveTask(fd))'
    PROVE  SeekInv'
<1>1. InMemory' = InMemory
  BY DEF InMemory
<1>2. OwnKnown'
  BY <1>1 DEF SeekInv, OwnKnown
<1>3. Apart' /\ DescriptorKept' /\ Late'
  BY <1>1 DEF SeekInv, Apart, DescriptorKept, Late
<1>4. Dangling'
  BY <1>1 DEF SeekInv, Apart, Dangling
<1>5. ReleaseReaches'
  <2> SUFFICES ASSUME NEW c \in Cache \ early, handle[c] \in {"releasing", "released"},
                      NEW fd, fd = stream'[c], fd # NoFd
               PROVE  Pending(RemoveTask(fd))'
    BY DEF ReleaseReaches
  <2>1. stream[c] = fd /\ fd \in Fd
    BY DEF SeekTypeOK, TypeOK
  <2>2. Pending(RemoveTask(fd))
    BY <2>1 DEF SeekInv, ReleaseReaches
  <2> QED
    BY <2>1, <2>2
<1> QED
  BY <1>2, <1>3, <1>4, <1>5 DEF SeekInv

LEMMA DestroyCloses ==
    ASSUME SeekInv, Once, NEW fds \in SUBSET InUse, NEW rest, Destroy(fds, rest)
    PROVE  /\ finished \subseteq finished'
           /\ \A c \in Cache : stream'[c] = stream[c] \/ (stream'[c] = NoFd /\ c \in finished')
           /\ \A c \in Cache : stream[c] \in fds => stream'[c] = NoFd
<1> DEFINE gone == {caches[fd] : fd \in fds}
<1>1. /\ finished' = finished \cup gone
      /\ stream' = [c \in Cache |-> IF c \in gone THEN NoFd ELSE stream[c]]
  BY DEF Destroy
<1>2. \A c \in Cache : stream[c] \in fds => c \in gone
  BY DEF Once, MapMatchesStreams, InUse
<1> HIDE DEF gone
<1> QED
  BY <1>1, <1>2

LEMMA NextSeekInv == SeekInv /\ Once /\ [SeekNext]_seekVars => SeekInv'
<1> SUFFICES ASSUME SeekInv, Once, [SeekNext]_seekVars
             PROVE  SeekInv'
  OBVIOUS
<1>1. SeekTypeOK /\ SeekTypeOK' /\ TypeOK
  BY SeekNextType DEF SeekInv, SeekTypeOK
<1>2. ASSUME NEW c \in Cache, FileRequest(c)
      PROVE  SeekInv'
  BY <1>1, <1>2, OpenInv, ReleaseInv, FreeInv DEF FileRequest
<1>3. CASE StartSeekable
  BY <1>1, <1>3, StartInv
<1>4. CASE UNCHANGED <<tasks, starting, stream, finished, held, handle, fileData, fileFd,
                       ownFd, early>>
  BY <1>1, <1>4, LoopInv DEF Pending
<1>5. CASE SpawnSeekableFails \/ (Terminated /\ UNCHANGED seekVars) \/ UNCHANGED seekVars
  BY <1>4, <1>5 DEF SpawnSeekableFails, SpawnFails, seekVars, handleVars, vars, loopVars, otherVars
<1>6. ASSUME NEW task \in Task, tasks' = Append(tasks, task),
             UNCHANGED <<starting, stream, finished, held, handle, fileData, fileFd,
                       ownFd, early>>
      PROVE  SeekInv'
  BY <1>1, <1>6, AppendKeeps, LoopInv
<1>7. CASE Unmount
  BY <1>6, <1>7, TasksAreTasks DEF Unmount, Cancel, Post, loopVars, handleVars
<1>8. ASSUME NEW c \in Cache, Command(c) \/ ReadError(c),
             UNCHANGED <<handleVars, inputs, ownFd, early>>
      PROVE  SeekInv'
  BY <1>6, <1>8, TasksAreTasks DEF Command, ReadData, ReadEof, ReadError, ReadCompletes, Post,
                               handleVars
<1>9. CASE LoopOnly /\ UNCHANGED <<handleVars, inputs, ownFd, early>>
  <2> UNCHANGED <<handle, fileData, fileFd, ownFd, early>>
    BY <1>9 DEF handleVars
  <2>1. ASSUME RunAdd \/ RunRead \/ RunCancel, NEW fd \in Fd, Pending(RemoveTask(fd))
        PROVE  Pending(RemoveTask(fd))'
    <3>1. Head(tasks) # RemoveTask(fd)
      BY <2>1 DEF RunAdd, RunRead, RunCancel, NextTask, RemoveTask
    <3> QED
      BY <1>1, <2>1, <3>1, HandlersKeep
  <2>2. CASE DrainEnd
    BY <1>4, <1>9, <2>2 DEF DrainEnd, loopVars, otherVars
  <2>3. CASE DrainOne
    <3>1. UNCHANGED <<tasks, stream, finished, held>>
      BY <2>3 DEF DrainOne, otherVars
    <3>2. starting' \in {starting, NoCache} \cup held
      BY <2>3 DEF DrainOne, DoAdd
    <3> QED
      BY <1>1, <1>9, <3>1, <3>2, LoopInv DEF Pending
  <2>4. CASE RunAdd
    <3>1. UNCHANGED <<stream, finished, held>>
      BY <2>4 DEF RunAdd, otherVars
    <3>2. starting' \in {starting, NoCache} \cup held
      BY <2>4 DEF RunAdd, DoAdd
    <3> QED
      BY <1>1, <1>9, <2>1, <2>4, <3>1, <3>2, LoopInv
  <2>5. CASE RunRead
    <3>1. UNCHANGED <<starting, stream, finished, held>>
      BY <2>5 DEF RunRead, otherVars
    <3> QED
      BY <1>1, <1>9, <2>1, <2>5, <3>1, LoopInv
  <2>6. CASE RunCancel
    <3>1. UNCHANGED <<starting, held>> /\ Destroy(InUse, Tail(tasks))
      BY <2>6 DEF RunCancel, otherVars
    <3>2. /\ finished \subseteq finished'
          /\ \A c \in Cache : stream'[c] = stream[c] \/ (stream'[c] = NoFd /\ c \in finished')
      BY <3>1, DestroyCloses
    <3> QED
      BY <1>1, <1>9, <2>1, <2>6, <3>1, <3>2, LoopInv
  <2>7. CASE RunRemove
    <3> DEFINE fds == InUse \cap {Head(tasks).fd}
    <3>1. UNCHANGED <<starting, held>> /\ Destroy(fds, Tail(tasks))
      BY <2>7 DEF RunRemove, otherVars
    <3>2. /\ finished \subseteq finished'
          /\ \A c \in Cache : stream'[c] = stream[c] \/ (stream'[c] = NoFd /\ c \in finished')
          /\ \A c \in Cache : stream[c] \in fds => stream'[c] = NoFd
      BY <3>1, DestroyCloses
    <3>3. ASSUME NEW c \in Cache, NEW fd \in Fd, stream[c] = fd, stream'[c] = fd,
                 Pending(RemoveTask(fd))
          PROVE  Pending(RemoveTask(fd))'
      <4>1. fd # NoFd /\ fd \notin fds
        BY <3>2, <3>3, ReadLoopAssumption DEF ReadLoopAssumption
      <4>2. fd \in InUse
        BY <3>3, ReadLoopAssumption DEF Once, MapMatchesStreams, InUse, ReadLoopAssumption
      <4>3. Head(tasks) # RemoveTask(fd)
        BY <4>1, <4>2 DEF RemoveTask
      <4> QED
        BY <1>1, <2>7, <3>3, <4>3, HandlersKeep
    <3> QED
      BY <1>1, <1>9, <3>1, <3>2, <3>3, LoopInv
  <2> QED
    BY <1>9, <2>2, <2>3, <2>4, <2>5, <2>6, <2>7 DEF LoopOnly
<1> QED
  BY <1>2, <1>3, <1>5, <1>7, <1>8, <1>9 DEF SeekNext, LoopStep

LEMMA SeekCorrect == SeekSpec => []SeekInv
<1>1. SeekSpec => []Once
  BY ControllerIsClient, EveryCacheOnce, PTL
<1> QED
  BY <1>1, SeekInitInv, NextSeekInv, PTL DEF SeekSpec

(* A createCommand() whose FileData is gone does not harm the file that has     *)
(* its memory now: one that has been started keeps its descriptor.           *)
THEOREM DescriptorsKept == SeekSpec => []DescriptorKept
<1>1. SeekInv => DescriptorKept
  BY DEF SeekInv
<1> QED
  BY <1>1, SeekCorrect, PTL

(* A release stops its file's command if it has been started: the descriptor  *)
(* in a FileData that is in use is not overwritten by a createCommand() whose *)
(* own FileData is gone.                                                     *)
THEOREM ReleasesReach == SeekSpec => []ReleaseReaches
<1>1. SeekInv => ReleaseReaches
  BY DEF SeekInv
<1> QED
  BY <1>1, SeekCorrect, PTL

(* In seekable mode, files are translated in the order they were opened in, at *)
(* most so many at a time: what Translations says, whatever readers do.       *)
THEOREM SeekIsTranslations == SeekSpec => ImplementsTranslations
  BY ControllerIsClient, LoopIsTranslations

(* The process limit holds in seekable mode, whatever is released when.      *)
THEOREM SeekLimit == SeekSpec => []ProcessLimited
  BY ControllerIsClient, LimitRespected, PTL

-----------------------------------------------------------------------------
(* The read loop has something to do for a file whose input is open, unless   *)
(* the file is released: what it drops, nobody owns.                         *)

InLoop(c) == Pending(AddTask(c)) \/ starting = c \/ \E i \in 1 .. Len(queue) : queue[i] = c

InputsInv == \A c \in inputs : handle[c] # "none" /\ (handle[c] = "released" \/ InLoop(c))

(* Steps after which a file that had something to be done for it still has,   *)
(* or is of no interest to anybody.                                          *)
LEMMA InputsStay ==
    ASSUME InputsInv, inputs' \subseteq inputs, UNCHANGED handle,
           \A c \in inputs' : InLoop(c) => InLoop(c)' \/ handle[c] \in {"none", "released"}
    PROVE  InputsInv'
BY DEF InputsInv

LEMMA NotHeld ==
    ASSUME SeekInv, NEW c \in Cache, c \notin held
    PROVE  handle[c] \in {"none", "released"}
BY DEF SeekInv, SeekTypeOK, Apart, InMemory

LEMMA RunAddInputs ==
    ASSUME SeekInv, Once, RunAdd, NEW c \in Cache, InLoop(c)
    PROVE  InLoop(c)' \/ handle[c] \in {"none", "released"}
<1>1. /\ SeekTypeOK /\ TypeOK
      /\ tasks # <<>> /\ Head(tasks) = tasks[1] /\ Head(tasks) \in Task
      /\ Head(tasks).op = "add" /\ starting = NoCache
  BY HeadTail DEF SeekInv, SeekTypeOK, TypeOK, RunAdd, NextTask
<1>2. PICK d \in Cache : d = Head(tasks).cache /\ Head(tasks) = AddTask(d)
  BY <1>1, TaskFields DEF AddTask
<1>3. CASE c = d
  <2>1. CASE c \notin held
    BY <2>1, NotHeld
  <2>2. CASE starting' = c
    BY <2>2 DEF InLoop
  <2>3. CASE queue' = Append(queue, c)
    <3>1. Len(queue)' \in 1 .. Len(queue)' /\ queue'[Len(queue)'] = c
      BY <1>1, <2>3 DEF TypeOK
    <3> QED
      BY <3>1 DEF InLoop
  <2> QED
    BY <1>2, <1>3, <2>1, <2>2, <2>3 DEF RunAdd, DoAdd
<1>4. CASE c # d
  <2>1. CASE Pending(AddTask(c))
    <3>1. Head(tasks) # AddTask(c)
      BY <1>2, <1>4 DEF AddTask
    <3>2. Pending(AddTask(c))'
      BY <1>1, <2>1, <3>1, HandlersKeep
    <3> QED
      BY <3>2 DEF InLoop
  <2>2. CASE starting = c
    BY <1>1, <2>2, ReadLoopAssumption DEF ReadLoopAssumption
  <2>3. ASSUME NEW i \in 1 .. Len(queue), queue[i] = c
        PROVE  InLoop(c)'
    <3>1. queue' = queue \/ queue' = Append(queue, d)
      BY <1>2 DEF RunAdd
    <3>2. i \in 1 .. Len(queue)' /\ queue'[i] = c
      BY <1>1, <2>3, <3>1 DEF TypeOK
    <3> QED
      BY <3>2 DEF InLoop
  <2> QED
    BY <2>1, <2>2, <2>3 DEF InLoop
<1> QED
  BY <1>3, <1>4

LEMMA DrainInputs ==
    ASSUME SeekInv, DrainOne, NEW c \in Cache, InLoop(c)
    PROVE  InLoop(c)' \/ handle[c] \in {"none", "released"}
<1>1. TypeOK /\ UNCHANGED tasks /\ starting = NoCache /\ queue # <<>> /\ queue' = Tail(queue)
  BY DEF SeekInv, SeekTypeOK, TypeOK, DrainOne
<1>2. CASE c = Head(queue)
  <2>1. c \notin held \/ starting' = c
    BY <1>2 DEF DrainOne, DoAdd
  <2> QED
    BY <2>1, NotHeld DEF InLoop
<1>3. CASE c # Head(queue)
  <2>1. CASE Pending(AddTask(c))
    BY <1>1, <2>1 DEF InLoop, Pending
  <2>2. CASE starting = c
    BY <1>1, <2>2, ReadLoopAssumption DEF ReadLoopAssumption
  <2>3. ASSUME NEW i \in 1 .. Len(queue), queue[i] = c
        PROVE  InLoop(c)'
    <3>1. /\ Head(queue) = queue[1] /\ Len(queue') = Len(queue) - 1 /\ Len(queue) \in Nat
          /\ \A j \in 1 .. Len(queue) - 1 : queue'[j] = queue[j + 1]
      BY <1>1, HeadTail DEF TypeOK
    <3>2. i # 1
      BY <1>3, <2>3, <3>1
    <3>3. i - 1 \in 1 .. Len(queue) - 1 /\ (i - 1) + 1 = i
      BY <3>1, <3>2
    <3>4. i - 1 \in 1 .. Len(queue') /\ queue'[i - 1] = c
      BY <2>3, <3>1, <3>3
    <3> QED
      BY <3>4 DEF InLoop
  <2> QED
    BY <2>1, <2>2, <2>3 DEF InLoop
<1> QED
  BY <1>2, <1>3

LEMMA NextInputs == SeekInv /\ Once /\ InputsInv /\ [SeekNext]_seekVars => InputsInv'
<1> SUFFICES ASSUME SeekInv, Once, InputsInv, [SeekNext]_seekVars
             PROVE  InputsInv'
  OBVIOUS
<1>1. SeekTypeOK /\ SeekTypeOK' /\ TypeOK
  BY SeekNextType DEF SeekInv, SeekTypeOK
<1>2. CASE UNCHANGED <<tasks, starting, queue, handle, inputs>>
  BY <1>2, InputsStay DEF InLoop, Pending
<1>3. ASSUME NEW task \in Task, tasks' = Append(tasks, task),
             UNCHANGED <<starting, queue>>
      PROVE  \A c : InLoop(c) => InLoop(c)'
  BY <1>1, <1>3, AppendKeeps DEF InLoop
<1>4. ASSUME NEW c \in Cache, OpenSeekable(c)
      PROVE  InputsInv'
  <2>1. /\ tasks' = Append(tasks, AddTask(c)) /\ AddTask(c) \in Task
        /\ UNCHANGED <<starting, queue>>
        /\ handle' = [handle EXCEPT ![c] = "open"]
        /\ inputs' = inputs \cup {c}
    BY <1>4, TasksAreTasks DEF OpenSeekable, Add, Post, loopVars
  <2>2. c \notin added
    BY <1>4 DEF OpenSeekable, Add
  <2>3. handle[c] # "open" /\ InLoop(c)'
    BY <1>1, <2>1, <2>2, AppendKeeps DEF SeekInv, Apart, InMemory, InLoop, TypeOK
  <2>4. \A d : InLoop(d) => InLoop(d)'
    BY <1>3, <2>1
  <2>5. \A d \in inputs : d \in Cache
    BY <1>1 DEF SeekTypeOK
  <2> QED
    BY <1>1, <2>1, <2>3, <2>4, <2>5 DEF InputsInv, SeekTypeOK
<1>5. ASSUME NEW c \in Cache, ReleaseSeekable(c)
      PROVE  InputsInv'
  <2>1. /\ tasks' = Append(tasks, RemoveTask(fileFd[fileData[c]]))
        /\ RemoveTask(fileFd[fileData[c]]) \in Task
        /\ UNCHANGED <<starting, queue, inputs>>
        /\ handle[c] = "open"
        /\ handle' = [handle EXCEPT ![c] = "releasing"]
    BY <1>1, <1>5, TasksAreTasks DEF ReleaseSeekable, Remove, Post, loopVars, SeekTypeOK
  <2>2. \A d : InLoop(d) => InLoop(d)'
    BY <1>3, <2>1
  <2> QED
    BY <1>1, <2>1, <2>2 DEF InputsInv, SeekTypeOK
<1>6. ASSUME NEW c \in Cache, FreeFileData(c)
      PROVE  InputsInv'
  <2>1. /\ UNCHANGED <<tasks, starting, queue, inputs>>
        /\ handle' = [handle EXCEPT ![c] = "released"]
    BY <1>6 DEF FreeFileData, Drop, loopVars
  <2>2. \A d : InLoop(d) => InLoop(d)'
    BY <2>1 DEF InLoop, Pending
  <2> QED
    BY <1>1, <2>1, <2>2 DEF InputsInv, SeekTypeOK
<1>7. CASE StartSeekable \/ SpawnSeekableFails
  <2>1. UNCHANGED <<tasks, queue, handle>> /\ inputs' = inputs \ {starting}
    BY <1>7 DEF StartSeekable, SpawnSeekableFails, StartCommand, SpawnFails, loopVars, handleVars
  <2>2. \A c \in inputs' : InLoop(c) => InLoop(c)'
    BY <2>1 DEF InLoop, Pending
  <2> QED
    BY <2>1, <2>2, InputsStay
<1>8. CASE Unmount
  <2>1. UNCHANGED <<starting, queue, handle, inputs>> /\ tasks' = Append(tasks, CancelTask)
    BY <1>8 DEF Unmount, Cancel, Post, loopVars, handleVars
  <2> QED
    BY <1>3, <2>1, TasksAreTasks, InputsStay
<1>9. ASSUME NEW c \in Cache, Command(c) \/ ReadError(c), UNCHANGED <<handleVars, inputs>>
      PROVE  InputsInv'
  <2>1. PICK got \in {"bytes", "end"} : ReadCompletes(c, got)
    BY <1>9 DEF Command, ReadData, ReadEof, ReadError
  <2>2. UNCHANGED <<starting, queue, handle, inputs>> /\ tasks' = Append(tasks, ReadTask(c, got))
    BY <1>9, <2>1 DEF ReadCompletes, Post, handleVars
  <2> QED
    BY <1>3, <2>2, TasksAreTasks, InputsStay
<1>10. CASE LoopOnly /\ UNCHANGED <<handleVars, inputs>>
  <2> UNCHANGED <<handle, inputs>>
    BY <1>10 DEF handleVars
  <2> inputs \subseteq Cache
    BY <1>1 DEF SeekTypeOK
  <2>1. CASE RunAdd
    BY <2>1, RunAddInputs, InputsStay
  <2>2. CASE DrainOne
    BY <2>2, DrainInputs, InputsStay
  <2>3. CASE DrainEnd
    BY <1>2, <2>3 DEF DrainEnd, loopVars
  <2>4. CASE RunRead \/ RunRemove \/ RunCancel
    <3>1. UNCHANGED <<starting, queue>>
      BY <2>4 DEF RunRead, RunRemove, RunCancel
    <3>2. ASSUME NEW c \in inputs, Pending(AddTask(c))
          PROVE  Pending(AddTask(c))'
      <4>1. Head(tasks) # AddTask(c)
        BY <2>4 DEF RunRead, RunRemove, RunCancel, NextTask, AddTask
      <4> QED
        BY <1>1, <2>4, <3>2, <4>1, HandlersKeep
    <3> QED
      BY <3>1, <3>2, InputsStay DEF InLoop
  <2> QED
    BY <1>10, <2>1, <2>2, <2>3, <2>4 DEF LoopOnly
<1>11. CASE (Terminated /\ UNCHANGED seekVars) \/ UNCHANGED seekVars
  BY <1>2, <1>11 DEF seekVars, handleVars, vars, loopVars
<1>12. ASSUME NEW c \in Cache, FileRequest(c)
       PROVE  InputsInv'
  BY <1>4, <1>5, <1>6, <1>12 DEF FileRequest
<1> QED
  BY <1>7, <1>8, <1>9, <1>10, <1>11, <1>12 DEF SeekNext, LoopStep

(* The source descriptor that open() dup()s is closed once the read loop has   *)
(* nothing to do for the file any more: only a release that comes while the   *)
(* file's task waits leaves it open.                                         *)
THEOREM InputsAreClosed == SeekSpec => []InputsClosed
<1>1. SeekSpec => []Once
  BY ControllerIsClient, EveryCacheOnce, PTL
<1>2. SeekInit => InputsInv
  BY DEF SeekInit, InputsInv
<1>3. InputsInv => InputsClosed
  BY DEF InputsInv, InLoop, InputsClosed
<1> QED
  BY <1>1, <1>2, <1>3, SeekCorrect, NextInputs, PTL DEF SeekSpec

-----------------------------------------------------------------------------
(* Who removes an entry: the loop, when the output has ended, or the file     *)
(* that had the descriptor, when it is released.  Unless the kernel gives the *)
(* descriptor to another file's command, this is the file it belongs to.      *)

Unread(c) == handle[c] # "open" \/ Done(c)

Sound(t) ==
    /\ t.op = "read" /\ t.got = "bytes" => size[t.cache] < Output[t.cache]
    /\ t.op = "read" /\ t.got = "end" => Done(t.cache) \/ stream[t.cache] = NoFd
    /\ t.op = "remove" /\ t.fd # NoFd => \E c \in Cache : ownFd[c] = t.fd /\ Unread(c)

TasksSound == \A t \in Task : Pending(t) => Sound(t)

FromOwner ==
    \A b \in Block : fileFd[b] # NoFd =>
        \E c \in Cache : ownFd[c] = fileFd[b] /\ fileData[c] = b

Served ==
    /\ \A c \in finished : ownFd[c] # NoFd
    /\ ~cancelled =>
          \A c \in finished : Unread(c) \/ \E d \in Cache \ {c} : ownFd[d] = ownFd[c]

ServedInv == TasksSound /\ FromOwner /\ Served

(* What is known of the loop and of the files. *)
Known == SeekInv /\ Once /\ Continuations /\ CancelPosted /\ BufferOwned

LEMMA AllKnown == SeekSpec => []Known
<1>1. Init => Continuations /\ CancelPosted
  BY DEF Init, Continuations, ReadsApart, ReadsWereStarted, Continued, ReadIsPosted, CancelPosted
<1>2. Spec => [](Once /\ Continuations /\ CancelPosted /\ BufferOwned)
  BY <1>1, NextContinued, PostedOnlyBy, EveryCacheOnce, TypeCorrect, BuffersOutliveReads, PTL
     DEF Spec
<1> QED
  BY <1>2, ControllerIsClient, SeekCorrect, PTL DEF Known

(* What a step leaves as it was: what has ended, who is released, which        *)
(* descriptor a file got.                                                    *)
Lasting ==
    /\ \A c \in Cache : ownFd[c] # NoFd => ownFd'[c] = ownFd[c]
    /\ \A c \in Cache : Done(c) => Done(c)'
    /\ \A c \in Cache : ownFd[c] # NoFd /\ handle[c] # "open" => handle'[c] # "open"
    /\ \A c \in Cache : ownFd[c] # NoFd /\ Unread(c) => Unread(c)'

(* Everything but the output of the command whose read is executed. *)
LEMMA Lasts ==
    ASSUME SeekTypeOK,
           \A c \in Cache : ownFd[c] # NoFd =>
               ownFd'[c] = ownFd[c] /\ (handle[c] # "open" => handle'[c] # "open"),
           failed \subseteq failed',
           \A c \in Cache : size'[c] = size[c] \/ ~Done(c)
    PROVE  Lasting
BY DEF Lasting, Unread, Done

LEMMA OpenLasts ==
    ASSUME Known, NEW c \in Cache, OpenSeekable(c)
    PROVE  Lasting
<1>1. /\ c \notin added
      /\ handle' = [handle EXCEPT ![c] = "open"]
      /\ UNCHANGED <<size, failed, ownFd>>
  BY DEF OpenSeekable, Add, loopVars
<1>2. ownFd[c] = NoFd
  BY <1>1 DEF Known, SeekInv, OwnKnown, Once, StartedOnce
<1> QED
  BY <1>1, <1>2, Lasts DEF Known, SeekInv, SeekTypeOK

LEMMA StartLasts ==
    ASSUME Known, StartSeekable
    PROVE  Lasting /\ ownFd[starting] = NoFd
<1>1. /\ starting \in Cache
      /\ ownFd' = [ownFd EXCEPT ![starting] = stream'[starting]]
      /\ UNCHANGED <<size, failed, handle>>
  BY DEF StartSeekable, StartCommand, otherVars, Known, SeekInv, SeekTypeOK, TypeOK
<1>2. ownFd[starting] = NoFd
  BY <1>1, ReadLoopAssumption
     DEF Known, SeekInv, OwnKnown, Once, StartedOnce, Fresh, ReadLoopAssumption
<1> QED
  BY <1>1, <1>2, Lasts DEF Known, SeekInv, SeekTypeOK

LEMMA ReadLasts ==
    ASSUME Known, ServedInv, RunRead, UNCHANGED <<handle, ownFd>>
    PROVE  Lasting
<1>1. /\ TypeOK /\ SeekTypeOK /\ tasks # <<>> /\ Head(tasks) = tasks[1] /\ Head(tasks) \in Task
      /\ Head(tasks).op = "read" /\ UNCHANGED failed /\ 1 \in 1 .. Len(tasks)
  BY HeadTail DEF Known, SeekInv, SeekTypeOK, TypeOK, RunRead, NextTask, otherVars
<1>2. PICK c \in Cache : c = Head(tasks).cache
  BY <1>1, TaskFields
<1>3. Pending(Head(tasks))
  BY <1>1 DEF Pending
<1>4. UNCHANGED size \/ (size' = [size EXCEPT ![c] = @ + 1] /\ Head(tasks).got = "bytes")
  BY <1>2 DEF RunRead
<1>5. Head(tasks).got = "bytes" => size[c] < Output[c]
  BY <1>1, <1>2, <1>3 DEF ServedInv, TasksSound, Sound
<1>6. size[c] \in Nat /\ Output[c] \in Nat
  BY <1>1, ReadLoopAssumption DEF TypeOK, ReadLoopAssumption
<1>7. \A d \in Cache : Done(d) => Done(d)'
  BY <1>1, <1>4, <1>5, <1>6 DEF Done, TypeOK
<1> QED
  BY <1>7 DEF Lasting, Unread

LEMMA StepLasts ==
    ASSUME Known, ServedInv, [SeekNext]_seekVars
    PROVE  Lasting
<1>1. SeekTypeOK
  BY DEF Known, SeekInv
<1>2. CASE UNCHANGED <<ownFd, handle, size>> /\ failed \subseteq failed'
  BY <1>1, <1>2, Lasts
<1>3. ASSUME NEW c \in Cache, ReleaseSeekable(c) \/ FreeFileData(c)
      PROVE  Lasting
  <2>1. /\ UNCHANGED <<ownFd, size, failed>>
        /\ \E h \in {"releasing", "released"} : handle' = [handle EXCEPT ![c] = h]
    BY <1>3 DEF ReleaseSeekable, FreeFileData, Remove, Drop, loopVars
  <2> QED
    BY <1>1, <2>1, Lasts DEF SeekTypeOK
<1>4. CASE Unmount \/ SpawnSeekableFails \/ (Terminated /\ UNCHANGED seekVars) \/ UNCHANGED seekVars
  BY <1>2, <1>4 DEF Unmount, Cancel, SpawnSeekableFails, SpawnFails, seekVars, handleVars, vars,
                    loopVars, otherVars
<1>5. ASSUME NEW c \in Cache, Command(c) \/ ReadError(c), UNCHANGED <<handleVars, ownFd>>
      PROVE  Lasting
  BY <1>2, <1>5 DEF Command, ReadData, ReadEof, ReadError, ReadCompletes, handleVars
<1>6. CASE LoopOnly /\ UNCHANGED <<handleVars, inputs, ownFd, early>>
  <2> UNCHANGED <<handle, ownFd>>
    BY <1>6 DEF handleVars
  <2>1. CASE RunAdd \/ RunRemove \/ RunCancel \/ DrainOne \/ DrainEnd
    BY <1>2, <2>1 DEF RunAdd, RunRemove, RunCancel, DrainOne, DrainEnd, loopVars, otherVars
  <2> QED
    BY <1>6, <2>1, ReadLasts DEF LoopOnly
<1> QED
  BY <1>3, <1>4, <1>5, <1>6, OpenLasts, StartLasts DEF SeekNext, LoopStep, FileRequest

(* Tasks stay sound if nothing is written into the caches they read for and   *)
(* no stream is opened for them.                                             *)
LEMMA SoundStays ==
    ASSUME Known, Lasting, NEW t \in Task, Sound(t),
           t.op = "read" => /\ size'[t.cache] = size[t.cache]
                            /\ stream[t.cache] = NoFd => stream'[t.cache] = NoFd
    PROVE  Sound(t)'
<1>1. t.op = "read" => t.cache \in Cache
  BY TaskFields
<1>2. ASSUME t.op = "remove", t.fd # NoFd
      PROVE  \E c \in Cache : ownFd'[c] = t.fd /\ Unread(c)'
  <2>1. PICK c \in Cache : ownFd[c] = t.fd /\ Unread(c)
    BY <1>2 DEF Sound
  <2> QED
    BY <1>2, <2>1 DEF Lasting
<1> QED
  BY <1>1, <1>2 DEF Sound, Lasting

LEMMA SoundShift ==
    ASSUME TypeOK, NEW k \in {0, 1}, k = 1 => tasks # <<>>, NEW new \in Seq(Task),
           tasks' = (IF k = 0 THEN tasks ELSE Tail(tasks)) \o new, TasksSound,
           \A t \in Task, j \in 1 .. Len(tasks) :
               tasks[j] = t /\ j > k /\ Sound(t) => Sound(t)',
           \A t \in Task, n \in 1 .. Len(new) : new[n] = t => Sound(t)'
    PROVE  TasksSound'
<1>1. /\ Len(tasks) \in Nat /\ Len(new) \in Nat /\ k <= Len(tasks)
      /\ Len(tasks)' = Len(tasks) - k + Len(new)
      /\ \A i \in 1 .. Len(tasks) - k : tasks'[i] = tasks[i + k]
      /\ \A i \in 1 .. Len(new) : tasks'[Len(tasks) - k + i] = new[i]
  BY Shifted
<1> SUFFICES ASSUME NEW t \in Task, NEW i \in 1 .. Len(tasks)', tasks'[i] = t
             PROVE  Sound(t)'
  BY DEF TasksSound, Pending
<1>2. CASE i \in 1 .. Len(tasks) - k
  <2>1. PICK j \in 1 .. Len(tasks) : j = i + k
    BY <1>1, <1>2
  <2>2. tasks[j] = t /\ j > k
    BY <1>1, <1>2, <2>1
  <2>3. Sound(t)
    BY <2>2 DEF TasksSound, Pending
  <2> QED
    BY <2>2, <2>3
<1>3. CASE i \notin 1 .. Len(tasks) - k
  <2>1. PICK n \in 1 .. Len(new) : i = Len(tasks) - k + n
    BY <1>1, <1>3
  <2>2. new[n] = t
    BY <1>1, <2>1
  <2> QED
    BY <2>2
<1> QED
  BY <1>2, <1>3

(* A step that posts one handler, and starts and writes nothing. *)
LEMMA PostSound ==
    ASSUME Known, ServedInv, Lasting, NEW t \in Task, tasks' = Append(tasks, t), Sound(t)',
           UNCHANGED size, \A c \in Cache : stream[c] = NoFd => stream'[c] = NoFd
    PROVE  TasksSound'
<1> DEFINE k == 0
           new == <<t>>
<1>1. TypeOK /\ k \in {0, 1} /\ ~(k = 1) /\ k = 0
  BY DEF Known, SeekInv, SeekTypeOK
<1>2. new \in Seq(Task) /\ tasks' = tasks \o new
  BY <1>1 DEF TypeOK
<1>3. \A u \in Task, n \in 1 .. Len(new) : new[n] = u => Sound(u)'
  BY OneNew
<1>4. \A u \in Task : Sound(u) => Sound(u)'
  BY SoundStays, TaskFields
<1> HIDE DEF k, new
<1>5. tasks' = (IF k = 0 THEN tasks ELSE Tail(tasks)) \o new
  BY <1>1, <1>2
<1> QED
  BY <1>1, <1>2, <1>3, <1>4, <1>5, SoundShift DEF ServedInv

(* A step that posts nothing and executes no handler. *)
LEMMA StaySound ==
    ASSUME Known, ServedInv, Lasting, UNCHANGED <<tasks, size>>,
           \A c \in Cache : stream[c] = NoFd /\ ReadIsPosted(c) => stream'[c] = NoFd
    PROVE  TasksSound'
<1>1. \A t \in Task : t.op = "read" => t.cache \in Cache
  BY TaskFields
<1>2. \A t \in Task : t.op = "read" /\ Pending(t) => ReadIsPosted(t.cache)
  BY DEF Pending, ReadIsPosted
<1>3. \A t \in Task : Pending(t) /\ Sound(t) => Sound(t)'
  BY <1>1, <1>2, SoundStays
<1> QED
  BY <1>3 DEF ServedInv, TasksSound, Pending

(* A handler that posts nothing and writes nothing. *)
LEMMA TailSound ==
    ASSUME Known, ServedInv, Lasting, tasks # <<>>, tasks' = Tail(tasks),
           UNCHANGED <<size, stream>>
    PROVE  TasksSound'
<1>1. TypeOK
  BY DEF Known, SeekInv, SeekTypeOK
<1>2. \A t \in Task : Sound(t) => Sound(t)'
  BY SoundStays
<1>3. <<>> \in Seq(Task) /\ \A n \in 1 .. Len(<<>>) : FALSE
  OBVIOUS
<1>4. tasks' = (IF 1 = 0 THEN tasks ELSE Tail(tasks)) \o <<>>
  BY <1>1, HeadTail, ConcatEmptySeq DEF TypeOK
<1> QED
  BY <1>1, <1>2, <1>3, <1>4, SoundShift DEF ServedInv

LEMMA ReadSound ==
    ASSUME Known, ServedInv, Lasting, RunRead
    PROVE  TasksSound'
<1> DEFINE c == tasks[1].cache
<1>1. /\ TypeOK /\ tasks # <<>> /\ tasks[1] = Head(tasks) /\ tasks[1] \in Task
      /\ tasks[1].op = "read" /\ c \in Cache /\ Len(tasks) \in Nat \ {0}
      /\ UNCHANGED stream
  BY HeadTail, TaskFields DEF Known, SeekInv, SeekTypeOK, TypeOK, RunRead, NextTask
<1>2. Pending(tasks[1])
  BY <1>1 DEF Pending
<1>3. CASE /\ size' = [size EXCEPT ![c] = @ + 1]
           /\ tasks' = Tail(tasks)
  <2>1. \A j \in 1 .. Len(tasks) : tasks[j].op = "read" /\ tasks[j].cache = c => j = 1
    BY <1>1 DEF Known, Continuations, ReadsApart
  <2>2. \A t \in Task : t.op = "read" => t.cache \in Cache
    BY TaskFields
  <2>3. \A d \in Cache : d # c => size'[d] = size[d]
    BY <1>1, <1>3 DEF TypeOK
  <2>4. \A t \in Task, j \in 1 .. Len(tasks) : tasks[j] = t /\ j > 1 /\ Sound(t) => Sound(t)'
    BY <1>1, <2>1, <2>2, <2>3, SoundStays
  <2>5. <<>> \in Seq(Task) /\ \A n \in 1 .. Len(<<>>) : FALSE
    OBVIOUS
  <2>6. tasks' = (IF 1 = 0 THEN tasks ELSE Tail(tasks)) \o <<>>
    BY <1>1, <1>3, HeadTail, ConcatEmptySeq DEF TypeOK
  <2> QED
    BY <1>1, <2>4, <2>5, <2>6, SoundShift DEF ServedInv
<1>4. CASE /\ tasks' = Append(Tail(tasks), RemoveTask(stream[c]))
           /\ UNCHANGED size
           /\ ~(tasks[1].got = "bytes" /\ stream[c] # NoFd)
  <2>1. PICK t \in Task : t = RemoveTask(stream[c])
    BY <1>1, TasksAreTasks DEF TypeOK
  <2>2. stream[c] # NoFd => Done(c)
    BY <1>1, <1>2, <1>4, TaskFields DEF ServedInv, TasksSound, Sound
  <2>3. Sound(t)
    BY <1>1, <2>1, <2>2 DEF Known, SeekInv, OwnKnown, Sound, RemoveTask, Unread
  <2>4. \A u \in Task : Sound(u) => Sound(u)'
    BY <1>1, <1>4, SoundStays
  <2>5. tasks' = (IF 1 = 0 THEN tasks ELSE Tail(tasks)) \o <<t>> /\ Tail(tasks) \in Seq(Task)
    BY <1>1, <1>4, <2>1, HeadTail DEF TypeOK
  <2>6. \A u \in Task, n \in 1 .. Len(<<t>>) : <<t>>[n] = u => Sound(u)'
    BY <2>3, <2>4, OneNew
  <2> QED
    BY <1>1, <2>4, <2>5, <2>6, OneNew, SoundShift DEF ServedInv
<1> QED
  BY <1>1, <1>3, <1>4 DEF RunRead

LEMMA DestroySound ==
    ASSUME Known, ServedInv, Lasting, tasks # <<>>, UNCHANGED size,
           NEW fds \in SUBSET InUse, Destroy(fds, Tail(tasks))
    PROVE  TasksSound'
<1> DEFINE gone == {caches[fd] : fd \in fds}
<1>1. TypeOK
  BY DEF Known, SeekInv, SeekTypeOK
<1>2. PICK order \in Orders(gone \cap reading) :
         tasks' = Tail(tasks) \o [i \in DOMAIN order |-> ReadTask(order[i], "end")]
  BY DEF Destroy
<1>3. gone \subseteq Cache /\ order \in Seq(gone \cap reading)
  BY <1>1, <1>2, OrderFacts
<1> DEFINE new == [i \in DOMAIN order |-> ReadTask(order[i], "end")]
<1>4. new \in Seq(Task)
  BY <1>3, AbortTasks
<1>5. \A c \in Cache : stream'[c] = IF c \in gone THEN NoFd ELSE stream[c]
  BY DEF Destroy
<1>6. ASSUME NEW t \in Task, NEW n \in 1 .. Len(new), new[n] = t
      PROVE  Sound(t)'
  <2>1. n \in DOMAIN order
    BY <1>3, <1>4, <1>6
  <2>2. PICK c \in gone : t = ReadTask(c, "end")
    BY <1>3, <1>6, <2>1
  <2>3. stream'[c] = NoFd
    BY <1>3, <1>5
  <2> QED
    BY <2>2, <2>3 DEF Sound, ReadTask
<1>7. \A t \in Task : Sound(t) => Sound(t)'
  BY <1>5, SoundStays, TaskFields
<1>8. tasks' = (IF 1 = 0 THEN tasks ELSE Tail(tasks)) \o new
  BY <1>2
<1> HIDE DEF new, gone
<1> QED
  BY <1>1, <1>4, <1>6, <1>7, <1>8, SoundShift DEF ServedInv

LEMMA ReleaseSound ==
    ASSUME Known, ServedInv, Lasting, NEW c \in Cache, ReleaseSeekable(c)
    PROVE  TasksSound'
<1>1. /\ handle[c] = "open" /\ handle' = [handle EXCEPT ![c] = "releasing"]
      /\ tasks' = Append(tasks, RemoveTask(fileFd[fileData[c]]))
      /\ UNCHANGED <<size, stream, ownFd>>
  BY DEF ReleaseSeekable, Remove, Post, loopVars
<1>2. SeekTypeOK /\ fileData[c] \in Block /\ c \in InMemory
  BY <1>1 DEF Known, SeekInv, SeekTypeOK, InMemory
<1>3. PICK t \in Task : t = RemoveTask(fileFd[fileData[c]])
  BY <1>2, TasksAreTasks DEF SeekTypeOK
<1>4. ASSUME t.fd # NoFd
      PROVE  \E x \in Cache : ownFd'[x] = t.fd /\ Unread(x)'
  <2>1. PICK x \in Cache : ownFd[x] = t.fd /\ fileData[x] = fileData[c]
    BY <1>2, <1>3, <1>4 DEF ServedInv, FromOwner, RemoveTask
  <2>2. x = c \/ x \notin InMemory
    BY <1>2, <2>1 DEF Known, SeekInv, Apart
  <2>3. handle'[x] # "open"
    BY <1>1, <1>2, <2>2 DEF InMemory, SeekTypeOK
  <2> QED
    BY <1>1, <2>1, <2>3 DEF Unread
<1>5. Sound(t)'
  BY <1>3, <1>4 DEF Sound, RemoveTask
<1> QED
  BY <1>1, <1>3, <1>5, PostSound

LEMMA NextSound ==
    ASSUME Known, ServedInv, Lasting, [SeekNext]_seekVars
    PROVE  TasksSound'
<1>1. SeekTypeOK /\ TypeOK
  BY DEF Known, SeekInv, SeekTypeOK
<1>2. CASE UNCHANGED <<tasks, size, stream>>
  BY <1>2, StaySound
<1>3. ASSUME NEW c \in Cache, OpenSeekable(c)
      PROVE  TasksSound'
  <2>1. tasks' = Append(tasks, AddTask(c)) /\ UNCHANGED <<size, stream>>
    BY <1>3 DEF OpenSeekable, Add, Post, loopVars
  <2>2. AddTask(c) \in Task /\ AddTask(c).op = "add"
    BY TasksAreTasks DEF AddTask
  <2>3. Sound(AddTask(c))'
    BY <2>2 DEF Sound, AddTask
  <2> QED
    BY <2>1, <2>2, <2>3, PostSound
<1>4. ASSUME NEW c \in Cache, FreeFileData(c)
      PROVE  TasksSound'
  BY <1>2, <1>4 DEF FreeFileData, Drop, loopVars
<1>5. CASE Unmount
  <2>1. tasks' = Append(tasks, CancelTask) /\ UNCHANGED <<size, stream>>
    BY <1>5 DEF Unmount, Cancel, Post, loopVars
  <2>2. CancelTask \in Task /\ Sound(CancelTask)'
    BY TasksAreTasks DEF Sound, CancelTask
  <2> QED
    BY <2>1, <2>2, PostSound
<1>6. ASSUME NEW c \in Cache, Command(c) \/ ReadError(c)
      PROVE  TasksSound'
  <2>1. PICK got \in {"bytes", "end"} :
           /\ ReadCompletes(c, got)
           /\ got = "bytes" => size[c] < Output[c]
           /\ got = "end" => size[c] = Output[c] \/ c \in failed'
    BY <1>1, <1>6 DEF Command, ReadData, ReadEof, ReadError, TypeOK
  <2>2. tasks' = Append(tasks, ReadTask(c, got)) /\ UNCHANGED <<size, stream>>
    BY <2>1 DEF ReadCompletes, Post
  <2>3. PICK t \in Task : t = ReadTask(c, got)
    BY TasksAreTasks
  <2>4. Sound(t)'
    BY <2>1, <2>2, <2>3 DEF Sound, ReadTask, Done
  <2> QED
    BY <2>2, <2>3, <2>4, PostSound
<1>7. CASE StartSeekable
  <2>1. /\ starting \in Cache /\ Fresh(starting)
        /\ UNCHANGED <<tasks, size>>
        /\ \A c \in Cache : c # starting => stream'[c] = stream[c]
    BY <1>1, <1>7 DEF StartSeekable, StartCommand, otherVars, TypeOK, Known, Once, StartedOnce
  <2>2. ~ReadIsPosted(starting)
    BY <2>1 DEF Known, Continuations, ReadsWereStarted, Fresh
  <2> QED
    BY <2>1, <2>2, StaySound
<1>8. CASE LoopOnly
  <2>1. CASE RunAdd
    BY <2>1, TailSound DEF RunAdd, NextTask
  <2>2. CASE RunRemove
    <3>1. tasks # <<>> /\ UNCHANGED size /\ Destroy(InUse \cap {Head(tasks).fd}, Tail(tasks))
      BY <2>2 DEF RunRemove, NextTask
    <3> QED
      BY <3>1, DestroySound
  <2>3. CASE RunCancel
    BY <2>3, DestroySound DEF RunCancel, NextTask
  <2>4. CASE DrainOne \/ DrainEnd
    BY <1>2, <2>4 DEF DrainOne, DrainEnd, loopVars
  <2> QED
    BY <1>8, <2>1, <2>2, <2>3, <2>4, ReadSound DEF LoopOnly
<1>9. CASE SpawnSeekableFails \/ (Terminated /\ UNCHANGED seekVars) \/ UNCHANGED seekVars
  BY <1>2, <1>9 DEF SpawnSeekableFails, SpawnFails, seekVars, vars, loopVars
<1> QED
  BY <1>3, <1>4, <1>5, <1>6, <1>7, <1>8, <1>9, ReleaseSound DEF SeekNext, LoopStep, FileRequest

LEMMA NextFromOwner ==
    ASSUME Known, ServedInv, SeekTypeOK', Lasting, [SeekNext]_seekVars
    PROVE  FromOwner'
<1>1. SeekTypeOK /\ FromOwner
  BY DEF Known, SeekInv, ServedInv
<1>2. CASE UNCHANGED <<fileFd, fileData, ownFd>>
  BY <1>1, <1>2 DEF FromOwner
<1>3. ASSUME NEW c \in Cache, OpenSeekable(c)
      PROVE  FromOwner'
  <2>1. PICK b \in Block : /\ fileData' = [fileData EXCEPT ![c] = b]
                           /\ fileFd' = [fileFd EXCEPT ![b] = NoFd]
    BY <1>3 DEF OpenSeekable
  <2>2. c \notin added /\ UNCHANGED ownFd
    BY <1>3 DEF OpenSeekable, Add
  <2>3. ownFd[c] = NoFd
    BY <2>2 DEF Known, SeekInv, OwnKnown, Once, StartedOnce
  <2> QED
    BY <1>1, <2>1, <2>2, <2>3 DEF FromOwner, SeekTypeOK
<1>4. CASE StartSeekable
  <2>1. PICK fd \in Fd : stream' = [stream EXCEPT ![starting] = fd]
    BY <1>4 DEF StartSeekable, StartCommand
  <2>2. /\ starting \in Cache /\ stream'[starting] = fd
        /\ ownFd' = [ownFd EXCEPT ![starting] = fd]
        /\ fileFd' = [fileFd EXCEPT ![fileData[starting]] = fd]
        /\ UNCHANGED fileData
    BY <1>1, <1>4, <2>1 DEF StartSeekable, StartCommand, SeekTypeOK, TypeOK
  <2>3. ownFd[starting] = NoFd
    BY <1>4, StartLasts
  <2>4. ASSUME NEW b \in Block, fileFd'[b] # NoFd
        PROVE  \E c \in Cache : ownFd'[c] = fileFd'[b] /\ fileData[c] = b
    <3>1. CASE b = fileData[starting]
      BY <1>1, <2>2, <3>1 DEF SeekTypeOK
    <3>2. CASE b # fileData[starting]
      <4>1. PICK c \in Cache : ownFd[c] = fileFd[b] /\ fileData[c] = b
        BY <1>1, <2>2, <2>4, <3>2 DEF FromOwner, SeekTypeOK
      <4> QED
        BY <1>1, <2>2, <3>2, <4>1 DEF SeekTypeOK
    <3> QED
      BY <3>1, <3>2
  <2> QED
    BY <2>2, <2>4 DEF FromOwner
<1>5. ASSUME NEW c \in Cache, ReleaseSeekable(c) \/ FreeFileData(c)
      PROVE  FromOwner'
  BY <1>2, <1>5 DEF ReleaseSeekable, FreeFileData
<1> QED
  BY <1>2, <1>3, <1>4, <1>5
     DEF SeekNext, LoopStep, FileRequest, Unmount, SpawnSeekableFails, handleVars, seekVars

(* Served holds on if no entry is destroyed. *)
LEMMA StayServed ==
    ASSUME Known, ServedInv, Lasting, UNCHANGED finished, cancelled => cancelled'
    PROVE  Served'
<1>1. finished \subseteq Cache
  BY DEF Known, SeekInv, SeekTypeOK, TypeOK
<1> QED
  BY <1>1 DEF ServedInv, Served, Lasting

(* An entry that remove() destroys belongs to a file whose output has ended   *)
(* or that is released, or to one that shared the descriptor with such a file. *)
LEMMA RemoveServed ==
    ASSUME Known, ServedInv, Lasting, RunRemove
    PROVE  Served'
<1> DEFINE fds == InUse \cap {Head(tasks).fd}
           gone == {caches[fd] : fd \in fds}
<1>1. /\ SeekTypeOK /\ TypeOK
      /\ tasks # <<>> /\ Head(tasks) = tasks[1] /\ Head(tasks) \in Task
      /\ Head(tasks).op = "remove" /\ 1 \in 1 .. Len(tasks)
      /\ finished' = finished \cup gone /\ UNCHANGED cancelled
  BY HeadTail DEF Known, SeekInv, SeekTypeOK, TypeOK, RunRemove, NextTask, Destroy, otherVars
<1>2. Pending(Head(tasks)) /\ Sound(Head(tasks))
  BY <1>1 DEF Pending, ServedInv, TasksSound
<1>3. ASSUME NEW c \in gone
      PROVE  /\ c \in Cache /\ ownFd[c] # NoFd
             /\ Unread(c) \/ \E d \in Cache \ {c} : ownFd[d] = ownFd[c]
  <2>1. PICK fd \in fds : c = caches[fd]
    OBVIOUS
  <2>2. c \in Cache /\ fd \in Fd /\ fd # NoFd /\ stream[c] = fd /\ Head(tasks).fd = fd
    BY <1>1, <2>1, ReadLoopAssumption
       DEF InUse, TypeOK, Known, Once, MapMatchesStreams, ReadLoopAssumption
  <2>3. ownFd[c] = fd
    BY <2>2 DEF Known, SeekInv, OwnKnown
  <2>4. PICK x \in Cache : ownFd[x] = fd /\ Unread(x)
    BY <1>1, <1>2, <2>2 DEF Sound
  <2> QED
    BY <2>2, <2>3, <2>4
<1> HIDE DEF gone
<1>4. finished \subseteq Cache /\ Served
  BY <1>1 DEF TypeOK, ServedInv
<1>5. \A c \in finished' :
         /\ c \in Cache /\ ownFd[c] # NoFd
         /\ ~cancelled => Unread(c) \/ \E d \in Cache \ {c} : ownFd[d] = ownFd[c]
  BY <1>1, <1>3, <1>4 DEF Served
<1> QED
  BY <1>1, <1>5 DEF Served, Lasting

LEMMA CancelServed ==
    ASSUME Known, ServedInv, Lasting, RunCancel
    PROVE  Served'
<1> DEFINE gone == {caches[fd] : fd \in InUse}
<1>1. /\ tasks # <<>> /\ Head(tasks) = tasks[1] /\ Head(tasks).op = "cancel"
      /\ 1 \in 1 .. Len(tasks)
      /\ finished' = finished \cup gone /\ UNCHANGED cancelled
  BY HeadTail DEF Known, SeekInv, SeekTypeOK, TypeOK, RunCancel, NextTask, Destroy, otherVars
<1>2. cancelled'
  BY <1>1 DEF Known, CancelPosted
<1>3. \A c \in gone : c \in Cache /\ ownFd[c] # NoFd
  <2>1. \A fd \in InUse : /\ fd \in Fd /\ fd # NoFd /\ caches[fd] \in Cache
                          /\ stream[caches[fd]] = fd
    BY ReadLoopAssumption
       DEF InUse, Known, Once, MapMatchesStreams, TypeOK, ReadLoopAssumption
  <2> QED
    BY <2>1 DEF Known, SeekInv, OwnKnown
<1> HIDE DEF gone
<1>4. finished \subseteq Cache
  BY DEF Known, SeekInv, SeekTypeOK, TypeOK
<1> QED
  BY <1>1, <1>2, <1>3, <1>4 DEF ServedInv, Served, Lasting

LEMMA NextServed ==
    ASSUME Known, ServedInv, Lasting, [SeekNext]_seekVars
    PROVE  Served'
<1>1. ASSUME NEW c \in Cache, FileRequest(c)
      PROVE  Served'
  BY <1>1, StayServed DEF FileRequest, OpenSeekable, ReleaseSeekable, FreeFileData, Add, Remove,
                          Drop, loopVars
<1>2. ASSUME NEW c \in Cache, Command(c) \/ ReadError(c)
      PROVE  Served'
  BY <1>2, StayServed DEF Command, ReadData, ReadEof, ReadError, ReadCompletes
<1>3. CASE LoopOnly
  <2>1. CASE RunAdd \/ RunRead \/ DrainOne \/ DrainEnd
    BY <2>1, StayServed DEF RunAdd, RunRead, DrainOne, DrainEnd, loopVars, otherVars
  <2> QED
    BY <1>3, <2>1, RemoveServed, CancelServed DEF LoopOnly
<1>4. CASE StartSeekable \/ SpawnSeekableFails
  BY <1>4, StayServed DEF StartSeekable, SpawnSeekableFails, StartCommand, SpawnFails, loopVars,
                          otherVars
<1>5. CASE Unmount \/ (Terminated /\ UNCHANGED seekVars) \/ UNCHANGED seekVars
  BY <1>5, StayServed DEF Unmount, Cancel, seekVars, vars, loopVars, otherVars
<1> QED
  BY <1>1, <1>2, <1>3, <1>4, <1>5 DEF SeekNext, LoopStep

LEMMA SeekInitServed == SeekInit => ServedInv
<1> SUFFICES ASSUME SeekInit PROVE ServedInv
  OBVIOUS
<1>1. TasksSound
  BY DEF SeekInit, Init, TasksSound, Pending
<1>2. FromOwner /\ Served
  BY DEF SeekInit, Init, FromOwner, Served
<1> QED
  BY <1>1, <1>2 DEF ServedInv

LEMMA ServedMeans == SeekTypeOK /\ ServedInv => CompleteUnlessReused
<1> SUFFICES ASSUME SeekTypeOK, ServedInv, NEW c \in Cache, handle[c] = "open",
                    \A d \in Cache \ {c} : ownFd[d] # ownFd[c],
                    c \in finished, c \notin failed, ~cancelled
             PROVE  size[c] = Output[c]
  BY DEF CompleteUnlessReused, Complete
<1> QED
  BY DEF ServedInv, Served, Unread, Done

(* A reader gets all of its translation although other files are opened and   *)
(* released meanwhile, as long as no other file's command has had the same    *)
(* descriptor: no removal that is posted is for a command that goes on.      *)
THEOREM ReadersGetAll == SeekSpec => []CompleteUnlessReused
<1>1. Known /\ ServedInv /\ [SeekNext]_seekVars => ServedInv'
  BY StepLasts, NextSound, NextFromOwner, NextServed, SeekNextType DEF Known, SeekInv, ServedInv
<1>2. Known => SeekTypeOK
  BY DEF Known, SeekInv
<1> QED
  BY <1>1, <1>2, AllKnown, SeekInitServed, ServedMeans, PTL DEF SeekSpec
=============================================================================
