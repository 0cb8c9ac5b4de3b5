------------------------------ MODULE ReadLoop ------------------------------
(***************************************************************************)
(* The read loop of pipefs: the component that runs the translation        *)
(* commands and copies what they print into the caches the FUSE threads    *)
(* read from (src/src/controller/BasicReadLoop.hpp).                       *)
(*                                                                         *)
(* All of its state belongs to one thread, the IO thread, that executes    *)
(* the handlers of an io_service in the order they were posted.  Other     *)
(* threads only post handlers (add, remove, cancel) and let go of caches.  *)
(* A handler takes effect in one step, with two exceptions, because another *)
(* thread may post or let go of a cache in between: doAdd() first locks the *)
(* weak_ptr to the cache and then starts the command, and remove() goes on  *)
(* to take tasks out of the queue one by one.                              *)
(***************************************************************************)
EXTENDS Naturals, Sequences, FiniteSets

CONSTANTS
    Cache,         \* the caches handed to add(), each of them once
    NoCache,       \* "no entry" in the map of the running translations
    Fd,            \* the descriptors a command's output pipe can get
    NoFd,          \* native_handle() of a closed stream, -1
    processLimit,  \* --process-limit; 0 is "no limit"
    Output,        \* Output[c]: in how many reads the output of c's command comes
    MaxRemovals    \* bound: how often the clients call remove()

ASSUME ReadLoopAssumption ==
    /\ NoCache \notin Cache
    /\ NoFd \notin Fd
    /\ IsFiniteSet(Fd)
    /\ processLimit \in Nat
    /\ Output \in [Cache -> Nat]
    /\ MaxRemovals \in Nat

VARIABLES
    tasks,      \* the handlers posted to the io_service and not yet executed
    io,         \* the IO thread: between two handlers, in remove()'s loop, in doAdd()
                \* called from add() or from that loop, or gone
    starting,   \* the cache doAdd() has locked, NoCache elsewhere
    queue,      \* the tasks put off because processLimit commands were running
    caches,     \* the map from the descriptor to the cache its output goes to
    stream,     \* the descriptor of the stream that feeds a cache, NoFd if closed
    reading,    \* the caches whose stream has an outstanding async_read_some
    size,       \* how many reads have been written into a cache
    finished,   \* the caches that are finished
    added,      \* the caches handed to add() so far
    held,       \* the caches some FileData or the cache registry still owns
    removals,   \* how often a client has called remove()
    cancelled,  \* whether cancel() has been called
    failed      \* history: the caches whose stream reported a read error

loopVars  == <<starting, queue, caches, stream, reading, size, finished>>
otherVars == <<added, held, removals, cancelled, failed>>
vars      == <<tasks, io, loopVars, otherVars>>

AddTask(c)       == [op |-> "add", cache |-> c]
RemoveTask(fd)   == [op |-> "remove", fd |-> fd]
ReadTask(c, got) == [op |-> "read", cache |-> c, got |-> got]
CancelTask       == [op |-> "cancel"]

Task == [op : {"add"}, cache : Cache]
          \cup [op : {"remove"}, fd : Fd \cup {NoFd}]
          \cup [op : {"read"}, cache : Cache, got : {"bytes", "end"}]
          \cup [op : {"cancel"}]

(* caches.size() counts these. *)
InUse == {fd \in Fd : caches[fd] # NoCache}

(* Mutant: one command too many. *)
BelowLimitOffByOne == Cardinality(InUse) <= processLimit

BelowLimit == Cardinality(InUse) < processLimit

Init ==
    /\ tasks = <<>>
    /\ io = "idle"
    /\ starting = NoCache
    /\ queue = <<>>
    /\ caches = [fd \in Fd |-> NoCache]
    /\ stream = [c \in Cache |-> NoFd]
    /\ reading = {}
    /\ size = [c \in Cache |-> 0]
    /\ finished = {}
    /\ added = {}
    /\ held = {}
    /\ removals = 0
    /\ cancelled = FALSE
    /\ failed = {}

-----------------------------------------------------------------------------
(* What the other threads do.  The controller's destructor calls cancel()   *)
(* after the last FUSE request, so nothing is added or removed after it.    *)

Post(task) == tasks' = Append(tasks, task)

Add(c) ==
    /\ ~cancelled
    /\ c \notin added
    /\ added' = added \cup {c}
    /\ held' = held \cup {c}
    /\ Post(AddTask(c))
    /\ UNCHANGED <<io, loopVars, removals, cancelled, failed>>

(* The last owner outside the loop lets go: what is still queued for this    *)
(* cache holds only a weak_ptr to it.                                       *)
Drop(c) ==
    /\ c \in held
    /\ held' = held \ {c}
    /\ UNCHANGED <<tasks, io, loopVars, added, removals, cancelled, failed>>

Remove(fd) ==
    /\ ~cancelled
    /\ removals < MaxRemovals
    /\ removals' = removals + 1
    /\ Post(RemoveTask(fd))
    /\ UNCHANGED <<io, loopVars, added, held, cancelled, failed>>

Cancel ==
    /\ ~cancelled
    /\ cancelled' = TRUE
    /\ Post(CancelTask)
    /\ UNCHANGED <<io, loopVars, added, held, removals, failed>>

-----------------------------------------------------------------------------
(* What the commands do: the outstanding read of a stream completes with     *)
(* bytes, with the end of the output, or with an error.                      *)

ReadCompletes(c, got) ==
    /\ c \in reading
    /\ reading' = reading \ {c}
    /\ Post(ReadTask(c, got))
    /\ UNCHANGED <<io, starting, queue, caches, stream, size, finished,
                   added, held, removals, cancelled>>

ReadData(c) ==
    /\ size[c] < Output[c]
    /\ ReadCompletes(c, "bytes")
    /\ UNCHANGED failed

ReadEof(c) ==
    /\ size[c] = Output[c]
    /\ ReadCompletes(c, "end")
    /\ UNCHANGED failed

ReadError(c) ==
    /\ ReadCompletes(c, "end")
    /\ failed' = failed \cup {c}

-----------------------------------------------------------------------------
(* What the IO thread does.                                                  *)

NextTask(op) ==
    /\ io = "idle"
    /\ tasks # <<>>
    /\ Head(tasks).op = op

(* doAdd() locks the weak_ptr: it goes on in the state "start" if somebody     *)
(* still owns the cache, and in the state "after", its caller's, if not.      *)
DoAdd(c, start, after) ==
    \/ /\ c \notin held
       /\ io' = after
       /\ UNCHANGED starting
    \/ /\ c \in held
       /\ io' = start
       /\ starting' = c

(* Mutant: a task is put in front of those that wait. *)
RunAddInFront ==
    /\ NextTask("add")
    /\ tasks' = Tail(tasks)
    /\ LET c == Head(tasks).cache IN
          IF processLimit = 0 \/ BelowLimit
          THEN DoAdd(c, "startAdded", "idle") /\ UNCHANGED queue
          ELSE queue' = <<c>> \o queue /\ UNCHANGED <<io, starting>>
    /\ UNCHANGED <<caches, stream, reading, size, finished, otherVars>>

RunAdd ==
    /\ NextTask("add")
    /\ tasks' = Tail(tasks)
    /\ LET c == Head(tasks).cache IN
          IF processLimit = 0 \/ BelowLimit
          THEN DoAdd(c, "startAdded", "idle") /\ UNCHANGED queue
          ELSE queue' = Append(queue, c) /\ UNCHANGED <<io, starting>>
    /\ UNCHANGED <<caches, stream, reading, size, finished, otherVars>>

(* The rest of doAdd().  The descriptor is one the kernel finds unused, so it *)
(* is never in the map and emplace() succeeds.                               *)
StartCommand ==
    /\ io \in {"startAdded", "startQueued"}
    /\ \E fd \in Fd \ InUse :
          /\ caches' = [caches EXCEPT ![fd] = starting]
          /\ stream' = [stream EXCEPT ![starting] = fd]
    /\ reading' = reading \cup {starting}
    /\ starting' = NoCache
    /\ io' = IF io = "startAdded" THEN "idle" ELSE "drain"
    /\ UNCHANGED <<tasks, queue, size, finished, otherVars>>

(* If the command cannot be spawned, the exception leaves io_service::run()   *)
(* and the process terminates.                                               *)
SpawnFails ==
    /\ io \in {"startAdded", "startQueued"}
    /\ io' = "dead"
    /\ UNCHANGED <<tasks, loopVars, otherVars>>

Orders(S) ==
    {order \in [1 .. Cardinality(S) -> S] :
        \A i, j \in 1 .. Cardinality(S) : order[i] = order[j] => i = j}

(* Mutant: the destructor does not abort the outstanding read. *)
DestroyKeepsRead(fds, rest) ==
    LET gone == {caches[fd] : fd \in fds} IN
    /\ caches' = [fd \in Fd |-> IF fd \in fds THEN NoCache ELSE caches[fd]]
    /\ stream' = [c \in Cache |-> IF c \in gone THEN NoFd ELSE stream[c]]
    /\ finished' = finished \cup gone
    /\ tasks' = rest
    /\ UNCHANGED reading

(* The destructors of the map's entries for fds: each finishes its cache,    *)
(* aborts the outstanding read of its stream, whose completion handler is    *)
(* then posted behind rest, and closes the stream.                           *)
Destroy(fds, rest) ==
    LET gone    == {caches[fd] : fd \in fds}
        aborted == gone \cap reading
    IN  /\ caches' = [fd \in Fd |-> IF fd \in fds THEN NoCache ELSE caches[fd]]
        /\ stream' = [c \in Cache |-> IF c \in gone THEN NoFd ELSE stream[c]]
        /\ finished' = finished \cup gone
        /\ reading' = reading \ aborted
        /\ \E order \in Orders(aborted) :
              tasks' = rest \o [i \in DOMAIN order |-> ReadTask(order[i], "end")]

(* Mutant: the slot that is free now is not given away. *)
RunRemoveOnly ==
    /\ NextTask("remove")
    /\ Destroy(InUse \cap {Head(tasks).fd}, Tail(tasks))
    /\ UNCHANGED <<io, starting, queue, size, otherVars>>

RunRemove ==
    /\ NextTask("remove")
    /\ Destroy(InUse \cap {Head(tasks).fd}, Tail(tasks))
    /\ io' = "drain"
    /\ UNCHANGED <<starting, queue, size, otherVars>>

(* Mutant: a task that nobody wants any more ends the loop. *)
DrainUpToDropped ==
    /\ io = "drain"
    /\ queue # <<>>
    /\ BelowLimit
    /\ queue' = Tail(queue)
    /\ DoAdd(Head(queue), "startQueued", "idle")
    /\ UNCHANGED <<tasks, caches, stream, reading, size, finished, otherVars>>

DrainOne ==
    /\ io = "drain"
    /\ queue # <<>>
    /\ BelowLimit
    /\ queue' = Tail(queue)
    /\ DoAdd(Head(queue), "startQueued", "drain")
    /\ UNCHANGED <<tasks, caches, stream, reading, size, finished, otherVars>>

DrainEnd ==
    /\ io = "drain"
    /\ queue = <<>> \/ ~BelowLimit
    /\ io' = "idle"
    /\ UNCHANGED <<tasks, loopVars, otherVars>>

(* Mutants: bytes that were read before the stream was closed are written;    *)
(* the missing return removes a stream that goes on; reading is not resumed;  *)
(* a read that fails or ends while the stream is open is tried again.        *)
RunReadClosed ==
    /\ NextTask("read")
    /\ LET c == Head(tasks).cache IN
          IF Head(tasks).got = "bytes"
          THEN /\ size' = [size EXCEPT ![c] = @ + 1]
               /\ reading' = IF stream[c] = NoFd THEN reading ELSE reading \cup {c}
               /\ tasks' = Tail(tasks)
          ELSE /\ tasks' = Append(Tail(tasks), RemoveTask(stream[c]))
               /\ UNCHANGED <<size, reading>>
    /\ UNCHANGED <<io, starting, queue, caches, stream, finished, otherVars>>

RunReadAndRemove ==
    /\ NextTask("read")
    /\ LET c == Head(tasks).cache
           more == Head(tasks).got = "bytes" /\ stream[c] # NoFd
       IN  /\ size' = [size EXCEPT ![c] = IF more THEN @ + 1 ELSE @]
           /\ reading' = IF more THEN reading \cup {c} ELSE reading
           /\ tasks' = Append(Tail(tasks), RemoveTask(stream[c]))
    /\ UNCHANGED <<io, starting, queue, caches, stream, finished, otherVars>>

RunReadOnce ==
    /\ NextTask("read")
    /\ LET c == Head(tasks).cache IN
          IF Head(tasks).got = "bytes" /\ stream[c] # NoFd
          THEN /\ size' = [size EXCEPT ![c] = @ + 1]
               /\ tasks' = Tail(tasks)
          ELSE /\ tasks' = Append(Tail(tasks), RemoveTask(stream[c]))
               /\ UNCHANGED size
    /\ UNCHANGED <<io, starting, queue, caches, stream, reading, finished, otherVars>>

RunReadRetried ==
    /\ NextTask("read")
    /\ LET c == Head(tasks).cache IN
          IF stream[c] # NoFd
          THEN /\ size' = [size EXCEPT ![c] = IF Head(tasks).got = "bytes" THEN @ + 1 ELSE @]
               /\ reading' = reading \cup {c}
               /\ tasks' = Tail(tasks)
          ELSE /\ tasks' = Append(Tail(tasks), RemoveTask(stream[c]))
               /\ UNCHANGED <<size, reading>>
    /\ UNCHANGED <<io, starting, queue, caches, stream, finished, otherVars>>

RunRead ==
    /\ NextTask("read")
    /\ LET c == Head(tasks).cache IN
          IF Head(tasks).got = "bytes" /\ stream[c] # NoFd
          THEN /\ size' = [size EXCEPT ![c] = @ + 1]
               /\ reading' = reading \cup {c}
               /\ tasks' = Tail(tasks)
          ELSE /\ tasks' = Append(Tail(tasks), RemoveTask(stream[c]))
               /\ UNCHANGED <<size, reading>>
    /\ UNCHANGED <<io, starting, queue, caches, stream, finished, otherVars>>

RunCancel ==
    /\ NextTask("cancel")
    /\ Destroy(InUse, Tail(tasks))
    /\ UNCHANGED <<io, starting, queue, size, otherVars>>

-----------------------------------------------------------------------------

Quiesced == io = "idle" /\ tasks = <<>> /\ reading = {}

(* The only places to stop: after cancel(), with nothing left to do, or after *)
(* the process has terminated.                                               *)
Terminated ==
    /\ \/ io = "dead"
       \/ cancelled /\ Quiesced /\ queue = <<>>
    /\ UNCHANGED vars

Client ==
    \/ \E c \in Cache : Add(c) \/ Drop(c)
    \/ \E fd \in Fd \cup {NoFd} : Remove(fd)
    \/ Cancel

Command(c) == ReadData(c) \/ ReadEof(c)

IOThread ==
    \/ RunAdd \/ RunRemove \/ RunRead \/ RunCancel
    \/ DrainOne \/ DrainEnd
    \/ StartCommand \/ SpawnFails

Next ==
    \/ io # "dead" /\ Client
    \/ io # "dead" /\ \E c \in Cache : Command(c) \/ ReadError(c)
    \/ IOThread
    \/ Terminated

Spec == Init /\ [][Next]_vars

(* The IO thread executes what is posted.  That the commands print something  *)
(* or end is an assumption about them, and not about pipefs.                 *)
IOFairness == WF_vars(IOThread)

CommandFairness == \A c \in Cache : WF_vars(io # "dead" /\ Command(c))

LiveSpec == Spec /\ IOFairness /\ CommandFairness

(* The same without an assumption about the commands. *)
ShutdownSpec == Spec /\ IOFairness

-----------------------------------------------------------------------------
(* Properties.                                                               *)

TypeOK ==
    /\ tasks \in Seq(Task)
    /\ io \in {"idle", "drain", "startAdded", "startQueued", "dead"}
    /\ starting \in Cache \cup {NoCache}
    /\ io \in {"idle", "drain"} => starting = NoCache
    /\ io \in {"startAdded", "startQueued"} => starting # NoCache
    /\ queue \in Seq(Cache)
    /\ caches \in [Fd -> Cache \cup {NoCache}]
    /\ stream \in [Cache -> Fd \cup {NoFd}]
    /\ reading \subseteq Cache
    /\ size \in [Cache -> Nat]
    /\ finished \subseteq Cache
    /\ added \subseteq Cache
    /\ held \subseteq added
    /\ removals \in Nat
    /\ cancelled \in BOOLEAN
    /\ failed \subseteq Cache

(* --process-limit: add() and remove()'s loop together never have more       *)
(* streams open than processLimit, the one that is being started counted,    *)
(* whatever the clients remove and cancel.                                   *)
ProcessLimited ==
    processLimit = 0 \/ Cardinality(InUse) + (IF starting = NoCache THEN 0 ELSE 1) <= processLimit

(* The map and the streams agree: an entry's stream is open under the key of *)
(* the entry, and an open stream has an entry.                               *)
MapMatchesStreams ==
    \A c \in Cache, fd \in Fd : caches[fd] = c <=> stream[c] = fd

(* An outstanding read writes into the buffer inside a map entry (CacheData), *)
(* so the entry outlives the read: destroying it aborts the read first.      *)
BufferOwned == \A c \in reading : stream[c] # NoFd

Pending(task) == \E i \in 1 .. Len(tasks) : tasks[i] = task

Reads(c) == {i \in 1 .. Len(tasks) : tasks[i].op = "read" /\ tasks[i].cache = c}

(* No open stream is forgotten: it has an outstanding read, or the completion *)
(* of its read is posted, or the removal of its entry is.  No stream is read  *)
(* twice at a time, so its chunks are written in order.                      *)
OneContinuation ==
    \A c \in Cache :
        /\ stream[c] # NoFd =>
               c \in reading \/ Reads(c) # {} \/ Pending(RemoveTask(stream[c]))
        /\ Cardinality(Reads(c)) + (IF c \in reading THEN 1 ELSE 0) <= 1

(* While only the loop itself removes entries, a posted remove(fd) is for the *)
(* stream that is open under fd now, and that stream has ended: the number    *)
(* has not been closed and given to another command in the meantime.         *)
NoStaleRemoval ==
    removals = 0 /\ ~cancelled =>
        \A i \in 1 .. Len(tasks) :
            tasks[i].op = "remove" /\ tasks[i].fd # NoFd =>
                /\ caches[tasks[i].fd] # NoCache
                /\ caches[tasks[i].fd] \notin reading
                /\ Reads(caches[tasks[i].fd]) = {}

(* While only the loop itself removes entries, a cache is finished only after *)
(* all of its command's output has been written into it, unless reading       *)
(* failed or the loop was cancelled.                                         *)
FinishedComplete ==
    removals = 0 /\ ~cancelled =>
        \A c \in finished \ failed : size[c] = Output[c]

(* A task waits only while every slot is taken: each handler that frees a     *)
(* slot gives it away, skipping tasks nobody wants any more, before the next  *)
(* handler runs.  So a task that is added cannot overtake a queued one.       *)
QueueOnlyWhenFull ==
    io = "idle" /\ ~cancelled /\ queue # <<>> =>
        processLimit > 0 /\ Cardinality(InUse) = processLimit

(* Once a cache is finished nothing is written into it: size and content are  *)
(* what stat and every later reader get.                                     *)
FinishedIsFinal ==
    [][\A c \in finished : c \in finished' /\ size'[c] = size[c]]_vars

(* A task is served: its cache is finished in the end, and whoever waits for  *)
(* it is woken, if it is not let go of before and commands do end.           *)
EveryTaskServed ==
    \A c \in Cache :
        c \in added ~> (c \in finished \/ c \notin held \/ io = "dead")

(* The IO thread comes to an end after cancel(): the join in IOThread::stop(), *)
(* and with it unmounting, returns.  Whether it waits for commands to end is  *)
(* a matter of the specification that is checked.                            *)
ShutdownTerminates == cancelled ~> (Quiesced \/ io = "dead")

-----------------------------------------------------------------------------
(* What the rest of pipefs sees of it.                                       *)

AddsIn(s) == {i \in 1 .. Len(s) : s[i].op = "add"}

RankIn(s, i) == Cardinality({j \in AddsIn(s) : j <= i})

(* The caches of the adds among the handlers s, in their order. *)
CachesAdded(s) ==
    [n \in 1 .. Cardinality(AddsIn(s)) |-> s[CHOOSE i \in AddsIn(s) : RankIn(s, i) = n].cache]

(* The caches whose add() is posted and has not run yet wait behind those in   *)
(* the queue.                                                                *)
Abstract == INSTANCE Translations WITH
    limit   <- processLimit,
    waiting <- queue \o CachesAdded(tasks),
    wanted  <- held,
    running <- {c \in Cache : stream[c] # NoFd \/ c = starting},
    ended   <- finished,
    closing <- cancelled,
    crashed <- io = "dead"

(* The read loop implements Translations: tasks start in the order they were  *)
(* added, at most processLimit at a time, and deliver output only while they  *)
(* run, although adding, queueing, removing and finishing are steps apart.   *)
ImplementsTranslations == Abstract!Spec
=============================================================================
