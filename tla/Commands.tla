------------------------------ MODULE Commands ------------------------------
(***************************************************************************)
(* Commands as processes: spawnCommand() with the pipe, the fork and what    *)
(* the child inherits (src/src/controller/SpawnCommand.cpp), files that are  *)
(* neither seekable nor cached, whose handles read the pipe themselves       *)
(* (Controller.cpp), the reaping of children (SignalHandler.cpp) and the end *)
(* of the IO thread (IOThread.cpp).                                         *)
(*                                                                         *)
(* A file is opened at most once, so a member of File stands for the open    *)
(* file, its FileData, its pipe and its command.  FUSE threads open          *)
(* different files at the same time: between pipe(), fork() and the close()  *)
(* of the write end other threads fork, too.                                *)
(***************************************************************************)
EXTENDS Integers, FiniteSets

CONSTANTS
    File,       \* files
    Caller,     \* processes that share the handle of a file
    Output,     \* how much the command of each file prints
    Capacity,   \* how much fits into a pipe
    MaxKills,   \* bound: how many callers are killed in a read
    MaxStops    \* bound: how many SIGCHLD come without an exit

ASSUME CommandsAssumption ==
    /\ IsFiniteSet(File)
    /\ Output \in [File -> Nat]
    /\ Capacity \in Nat \ {0}
    /\ {MaxKills, MaxStops} \subseteq Nat

VARIABLES
    stage,      \* of a file: closed, piped, forked, open, released
    parentW,    \* the files whose pipes' write ends pipefs has open
    parentR,    \* the files whose pipes' read ends pipefs has open
    child,      \* of a command: none, running, zombie, reaped
    holdsW,     \* the pipes whose write ends a command has open
    holdsR,     \* the pipes whose read ends a command has open
    printed,    \* how much a command has written into its pipe
    taken,      \* how much has been read from it
    offset,     \* currentOffset in the FileData
    position,   \* the position of the handle in the kernel
    call,       \* the read of each caller
    overlap,    \* history: the handles on which two reads have been in progress
    kills,      \* how many callers have been killed
    pending,    \* SIGCHLD is pending
    undelivered,\* signals the signal_set has seen with no wait for them
    handler,    \* the async_wait: armed, queued, aborted, gone
    main,       \* the destructor: not called, before the join, in the join, done
    stops       \* how many SIGCHLD without an exit there have been

pipeVars == <<parentW, parentR, holdsW, holdsR, printed, taken>>
readVars == <<offset, position, call, overlap, kills>>
reaperVars == <<pending, undelivered, handler, main, stops>>
vars == <<stage, child, pipeVars, readVars, reaperVars>>

(* A read that asked for what comes after asked, and has got n bytes, which   *)
(* the command had printed after from, if it is not blocked any more.        *)
Call(at, asked, from, n, killed) ==
    [at |-> at, asked |-> asked, from |-> from, n |-> n, killed |-> killed]

NoCall == Call("none", 0, 0, 0, FALSE)

InProgress(f) == {c \in Caller : call[f][c] # NoCall}

Init ==
    /\ stage = [f \in File |-> "closed"]
    /\ parentW = {} /\ parentR = {}
    /\ child = [f \in File |-> "none"]
    /\ holdsW = [f \in File |-> {}] /\ holdsR = [f \in File |-> {}]
    /\ printed = [f \in File |-> 0] /\ taken = [f \in File |-> 0]
    /\ offset = [f \in File |-> 0] /\ position = [f \in File |-> 0]
    /\ call = [f \in File |-> [c \in Caller |-> NoCall]]
    /\ overlap = {}
    /\ kills = 0
    /\ pending = FALSE /\ undelivered = 0 /\ handler = "armed" /\ stops = 0
    /\ main = "up"

-----------------------------------------------------------------------------
(* spawnCommand(), called by open().                                         *)

Stage(f, from, to) ==
    /\ stage[f] = from
    /\ stage' = [stage EXCEPT ![f] = to]

MakePipe(f) ==
    /\ main = "up"
    /\ Stage(f, "closed", "piped")
    /\ parentW' = parentW \cup {f}
    /\ parentR' = parentR \cup {f}
    /\ UNCHANGED <<child, holdsW, holdsR, printed, taken, readVars, reaperVars>>

(* The child has all that is open in the parent.  It closes its own read end; *)
(* nothing is closed by the exec.                                            *)
Fork(f) ==
    /\ Stage(f, "piped", "forked")
    /\ child' = [child EXCEPT ![f] = "running"]
    /\ holdsW' = [holdsW EXCEPT ![f] = parentW]
    /\ holdsR' = [holdsR EXCEPT ![f] = parentR \ {f}]
    /\ UNCHANGED <<parentW, parentR, printed, taken, readVars, reaperVars>>

(* fcntl() or fork() fails: both ends are closed, and so does the open().     *)
ForkFails(f) ==
    /\ Stage(f, "piped", "released")
    /\ parentW' = parentW \ {f}
    /\ parentR' = parentR \ {f}
    /\ UNCHANGED <<child, holdsW, holdsR, printed, taken, readVars, reaperVars>>

(* Mutant: the parent keeps the write end. *)
ParentKeepsEnd(f) ==
    /\ Stage(f, "forked", "open")
    /\ UNCHANGED <<child, pipeVars, readVars, reaperVars>>

(* The parent closes the write end on the way out of spawnCommand().          *)
ParentCloses(f) ==
    /\ Stage(f, "forked", "open")
    /\ parentW' = parentW \ {f}
    /\ UNCHANGED <<child, parentR, holdsW, holdsR, printed, taken, readVars, reaperVars>>

Release(f) ==
    /\ Stage(f, "open", "released")
    /\ InProgress(f) = {}
    /\ parentR' = parentR \ {f}
    /\ UNCHANGED <<child, parentW, holdsW, holdsR, printed, taken, readVars, reaperVars>>

-----------------------------------------------------------------------------
(* The commands, as the system runs them.                                    *)

Alive == {f \in File : child[f] = "running"}

Writers(f) == (parentW \cap {f}) \cup {g \in Alive : f \in holdsW[g]}
Readers(f) == (parentR \cap {f}) \cup {g \in Alive : f \in holdsR[g]}

PrintByte(f) ==
    /\ f \in Alive
    /\ printed[f] < Output[f]
    /\ printed[f] - taken[f] < Capacity
    /\ Readers(f) # {}
    /\ printed' = [printed EXCEPT ![f] = @ + 1]
    /\ UNCHANGED <<stage, child, parentW, parentR, holdsW, holdsR, taken, readVars, reaperVars>>

(* A command ends when it has printed everything, or by SIGPIPE.  The signal  *)
(* of an exit is lost in one that is pending already.                        *)
Exit(f) ==
    /\ f \in Alive
    /\ printed[f] = Output[f] \/ Readers(f) = {}
    /\ child' = [child EXCEPT ![f] = "zombie"]
    /\ holdsW' = [holdsW EXCEPT ![f] = {}]
    /\ holdsR' = [holdsR EXCEPT ![f] = {}]
    /\ pending' = TRUE
    /\ UNCHANGED <<stage, parentW, parentR, printed, taken, readVars,
                   undelivered, handler, main, stops>>

(* Somebody stops or continues a command: that is a SIGCHLD as well.          *)
StopContinue ==
    /\ stops < MaxStops
    /\ Alive # {}
    /\ stops' = stops + 1
    /\ pending' = TRUE
    /\ UNCHANGED <<stage, child, pipeVars, readVars, undelivered, handler, main>>

-----------------------------------------------------------------------------
(* Controller::read() of a file without a cache.                             *)

(* The kernel lets one caller of a handle read at a time; but it does not wait *)
(* for the answer of a read whose caller has been killed.                    *)
HoldsPosition(f) == \E c \in Caller : call[f][c] # NoCall /\ ~call[f][c].killed

(* Mutant: the offset is not checked. *)
ReadUnchecked(f, c) ==
    /\ stage[f] = "open"
    /\ call[f][c] = NoCall
    /\ ~HoldsPosition(f)
    /\ call' = [call EXCEPT ![f][c] = Call("blocked", position[f], 0, 0, FALSE)]
    /\ overlap' = IF InProgress(f) = {} THEN overlap ELSE overlap \cup {f}
    /\ UNCHANGED <<stage, child, pipeVars, offset, position, kills, reaperVars>>

(* The request of c is for the position of the handle.  If that is not        *)
(* currentOffset, it is answered with ESPIPE and changes nothing.            *)
Read(f, c) ==
    /\ stage[f] = "open"
    /\ call[f][c] = NoCall
    /\ ~HoldsPosition(f)
    /\ position[f] = offset[f]
    /\ call' = [call EXCEPT ![f][c] = Call("blocked", position[f], 0, 0, FALSE)]
    /\ overlap' = IF InProgress(f) = {} THEN overlap ELSE overlap \cup {f}
    /\ UNCHANGED <<stage, child, pipeVars, offset, position, kills, reaperVars>>

(* The thread waits in ::read() for bytes, or for the end of the file.        *)
ReadPipe(f, c) ==
    /\ call[f][c].at = "blocked"
    /\ \E n \in 0 .. Capacity :
          /\ IF printed[f] = taken[f] THEN n = 0 /\ Writers(f) = {}
                                      ELSE n \in 1 .. printed[f] - taken[f]
          /\ taken' = [taken EXCEPT ![f] = @ + n]
          /\ call' = [call EXCEPT ![f][c] =
                         Call("took", @.asked, taken[f], n, @.killed)]
    /\ UNCHANGED <<stage, child, parentW, parentR, holdsW, holdsR, printed,
                   offset, position, overlap, kills, reaperVars>>

(* ::read() fails, because a SIGCHLD interrupts it: the call ends with an      *)
(* error, and nothing was taken.                                             *)
ReadFails(f, c) ==
    /\ call[f][c].at = "blocked"
    /\ call' = [call EXCEPT ![f][c] = NoCall]
    /\ UNCHANGED <<stage, child, pipeVars, offset, position, overlap, kills, reaperVars>>

(* currentOffset goes on in any case, the position if the caller lives.       *)
Reply(f, c) ==
    /\ call[f][c].at = "took"
    /\ offset' = [offset EXCEPT ![f] = @ + call[f][c].n]
    /\ position' = IF call[f][c].killed THEN position
                   ELSE [position EXCEPT ![f] = @ + call[f][c].n]
    /\ call' = [call EXCEPT ![f][c] = NoCall]
    /\ UNCHANGED <<stage, child, pipeVars, overlap, kills, reaperVars>>

KillCaller(f, c) ==
    /\ kills < MaxKills
    /\ call[f][c] # NoCall /\ ~call[f][c].killed
    /\ kills' = kills + 1
    /\ call' = [call EXCEPT ![f][c] = Call(@.at, @.asked, @.from, @.n, TRUE)]
    /\ UNCHANGED <<stage, child, pipeVars, offset, position, overlap, reaperVars>>

-----------------------------------------------------------------------------
(* SignalHandler: one async_wait() at a time, and one wait() for each.        *)

(* boost::asio's signal_set gives a signal to the wait, or counts it.         *)
Deliver ==
    /\ pending
    /\ pending' = FALSE
    /\ IF handler = "armed"
       THEN handler' = "queued" /\ UNCHANGED undelivered
       ELSE undelivered' = undelivered + 1 /\ UNCHANGED handler
    /\ UNCHANGED <<stage, child, pipeVars, readVars, main, stops>>

(* wait(): with a signal that has been counted, the handler is called at once. *)
Rearm ==
    IF undelivered > 0
    THEN undelivered' = undelivered - 1 /\ handler' = "queued"
    ELSE handler' = "armed" /\ UNCHANGED undelivered

Zombies == {f \in File : child[f] = "zombie"}

(* Mutant: all that have ended are reaped. *)
ReapAll == child' = [f \in File |-> IF f \in Zombies THEN "reaped" ELSE child[f]]

(* ::wait(nullptr) takes one; without any children it fails, and otherwise it *)
(* blocks the IO thread until one of them ends.                              *)
ReapOne ==
    \/ \E f \in Zombies : child' = [child EXCEPT ![f] = "reaped"]
    \/ Zombies = {} /\ Alive = {} /\ UNCHANGED child

HandleSignal ==
    /\ handler = "queued"
    /\ ReapOne
    /\ Rearm
    /\ UNCHANGED <<stage, pipeVars, readVars, pending, main, stops>>

HandleAbort ==
    /\ handler = "aborted"
    /\ handler' = "gone"
    /\ UNCHANGED <<stage, child, pipeVars, readVars, pending, undelivered, main, stops>>

(* ~Controller(): cancel() aborts the wait if there is one.  A handler that   *)
(* is queued or running is not told.                                         *)
Cancel ==
    /\ main = "up"
    /\ \A f \in File : stage[f] \in {"closed", "released"}
    /\ main' = "joining"
    /\ handler' = IF handler = "armed" THEN "aborted" ELSE handler
    /\ UNCHANGED <<stage, child, pipeVars, readVars, pending, undelivered, stops>>

(* IOThread::stop(): the thread ends when no handler is left and no wait.     *)
Join ==
    /\ main = "joining"
    /\ handler = "gone"
    /\ main' = "down"
    /\ UNCHANGED <<stage, child, pipeVars, readVars, pending, undelivered, handler, stops>>

-----------------------------------------------------------------------------

Spawn(f) == MakePipe(f) \/ Fork(f) \/ ForkFails(f) \/ ParentCloses(f)

Answer(f, c) == ReadPipe(f, c) \/ Reply(f, c)

Reaper == Deliver \/ HandleSignal \/ HandleAbort \/ Join

(* Its pipe is full, and somebody could still read from it.                   *)
Blocked(f) == printed[f] < Output[f] /\ printed[f] - taken[f] = Capacity /\ Readers(f) # {}

(* The join waits for a wait that nobody will abort, or for one that waits    *)
(* for commands which wait for each other: each has inherited the read end of *)
(* another one's pipe, which keeps that one from SIGPIPE.                    *)
Hangs ==
    /\ main = "joining"
    /\ ~pending
    /\ \A f \in Alive : Blocked(f)
    /\ handler = "armed" \/ (handler = "queued" /\ Zombies = {} /\ Alive # {})

Over == main = "down" \/ Hangs

Next ==
    \/ \E f \in File : Spawn(f) \/ Release(f) \/ PrintByte(f) \/ Exit(f)
    \/ \E f \in File, c \in Caller :
          Read(f, c) \/ Answer(f, c) \/ ReadFails(f, c) \/ KillCaller(f, c)
    \/ StopContinue
    \/ Reaper \/ Cancel
    \/ Over /\ UNCHANGED vars

(* Threads and commands go on when they can; nobody has to read.              *)
Fairness ==
    /\ \A f \in File : WF_vars(PrintByte(f) \/ Exit(f))
    /\ \A f \in File, c \in Caller : WF_vars(Answer(f, c))
    /\ WF_vars(Reaper)

Spec == Init /\ [][Next]_vars /\ Fairness

-----------------------------------------------------------------------------
(* Properties.                                                               *)

TypeOK ==
    /\ stage \in [File -> {"closed", "piped", "forked", "open", "released"}]
    /\ parentW \subseteq File /\ parentR \subseteq File
    /\ child \in [File -> {"none", "running", "zombie", "reaped"}]
    /\ holdsW \in [File -> SUBSET File] /\ holdsR \in [File -> SUBSET File]
    /\ printed \in [File -> Nat] /\ taken \in [File -> Nat]
    /\ offset \in [File -> Nat] /\ position \in [File -> Nat]
    /\ call \in [File -> [Caller -> [at : {"none", "blocked", "took"}, asked : Nat,
                                     from : Nat, n : Nat, killed : BOOLEAN]]]
    /\ overlap \subseteq File
    /\ kills \in 0 .. MaxKills /\ stops \in 0 .. MaxStops
    /\ pending \in BOOLEAN /\ undelivered \in Nat
    /\ handler \in {"armed", "queued", "aborted", "gone"}
    /\ main \in {"up", "joining", "down"}

(* A caller that lives gets the bytes after the position it asked for, and    *)
(* the end of file only after all that was printed; after a read whose caller *)
(* was killed, which has taken bytes for nobody, the others are refused       *)
(* rather than given what comes next.  (Not so if they are in read() before   *)
(* that one has returned.)                                                   *)
BytesInOrder ==
    \A f \in File \ overlap : \A c \in Caller :
        LET got == call[f][c] IN
        got.at = "took" /\ ~got.killed =>
            /\ got.from = got.asked
            /\ got.n = 0 => got.asked = Output[f]

(* The IO thread is not held up in wait(): for each signal it handles there   *)
(* is a command that has ended and not been reaped, however signals and exits *)
(* are interleaved and merged; unless a command has been stopped.            *)
ReaperNeverBlocks == stops = 0 /\ handler = "queued" => Zombies # {}

Shared(f) == \E g \in File \ {f} : f \in holdsW[g]

(* A read returns when the command goes on or ends, unless another command    *)
(* has inherited the write end of its pipe: that one keeps the pipe open as   *)
(* long as it runs.                                                          *)
ReadsReturn ==
    \A f \in File, c \in Caller :
        call[f][c].at = "blocked" /\ ~Shared(f) ~> call[f][c].at # "blocked"

(* "The pipefs process did not die" is an error: unmounting ends.            *)
UnmountEnds == main = "joining" ~> main = "down"
=============================================================================
