------------------------------ MODULE Requests ------------------------------
(***************************************************************************)
(* What FUSE asks of a translated file, in every mode the options can set:   *)
(* getattr, fgetattr, the preloading of readdir, open, read and release      *)
(* (src/src/functions_translate.c), through the controller                  *)
(* (src/src/controller/Controller.cpp and pipefs_controller.cpp).            *)
(*                                                                         *)
(* A request is a sequence of steps, one for each time it takes a mutex of   *)
(* the registry or of a cache, or asks the system for something that can     *)
(* fail; other threads act in between.  The registry is as far as the        *)
(* requests see it: cleanup() removes any entries it may remove, and which   *)
(* ones is the subject of Caches.  The read loop fills and finishes caches;  *)
(* in which order is the subject of ReadLoop.                               *)
(*                                                                         *)
(* A rename of a directory gives the open files below it other paths, and    *)
(* release() gives back the use of the path that an open file has then.       *)
(***************************************************************************)
EXTENDS Options, Integers

CONSTANTS
    Key,        \* the translated files
    Object,     \* the cache objects there can be at a time
    Thread,     \* FUSE threads, each with at most one open file
    None,       \* no entry, no cache
    MaxSize,    \* bound: the size of a translation
    MaxRobbed   \* bound: of how many keys a use is taken before renames end

ASSUME RequestsAssumption ==
    /\ {MaxSize, MaxRobbed} \subseteq Nat /\ IsFiniteSet(Thread)
    /\ None \notin Key \cup Object \cup [cache : Object, spare : Int]

VARIABLES
    pc,         \* where each thread is in its request
    key,        \* the path of a thread's request, or that its open file has now
    file,       \* the FileData of a thread's file: whether it is open, its cache
    ptr,        \* the cache a request has a pointer to
    statbuf,    \* st_size of the stat buffer of a request
    entries,    \* the registry: [cache, spare] by key, or None
    state,      \* of a cache: new, orphaned (new for ever), running, finished
    size,       \* what has been written into a cache
    sizes,      \* history: one more than the size a preloading stat has last found
    robbed      \* history: the keys a use of which a release of another file took

requestVars == <<pc, key, file, ptr, statbuf, entries, state, size, sizes, robbed>>
allVars == <<optionVars, requestVars>>

UseCache == IsFlagSet(CACHE)
Seekable == IsFlagSet(SEEKABLE)

File(open, o) == [open |-> open, cache |-> o]
NotOpen == File(FALSE, None)

Present == {k \in Key : entries[k] # None}

(* The open files that read from the cache of k's entry.                      *)
Readers(k) == {t \in Thread : file[t].open /\ file[t].cache = entries[k].cache}

(* usageCount counts them and, if spare is 1, at least one use that is never   *)
(* given back; it counts as many fewer as spare is below 0.                   *)
usageCount(k) == Cardinality(Readers(k)) + entries[k].spare

(* Who keeps a cache alive: the registry, an open file, the read loop, a call *)
(* that has a shared pointer.  The pointer of correctStatInfo() is not one.   *)
Owned ==
    {entries[k].cache : k \in Present}
      \cup {file[t].cache : t \in Thread}
      \cup {o \in Object : state[o] = "running"}
      \cup {ptr[t] : t \in {u \in Thread : pc[u] \in {"statSetUp", "listSetUp", "waiting"}}}

Free == Object \ Owned

RequestsInit ==
    /\ OptionsInit
    /\ pc = [t \in Thread |-> "idle"]
    /\ key = [t \in Thread |-> None]
    /\ file = [t \in Thread |-> NotOpen]
    /\ ptr = [t \in Thread |-> None]
    /\ statbuf = [t \in Thread |-> 0]
    /\ entries = [k \in Key |-> None]
    /\ state = [o \in Object |-> "new"]
    /\ size = [o \in Object |-> 0]
    /\ sizes = [k \in Key |-> 0]
    /\ robbed = {}

-----------------------------------------------------------------------------

Running == phase = "mounted" /\ "root-dir" \in data.stored

At(t, label) == Running /\ pc[t] = label

Goto(t, label) == pc' = [pc EXCEPT ![t] = label]

(* The thread t begins a request for k.                                      *)
Begin(t, k, label) ==
    /\ At(t, "idle")
    /\ IF file[t].open THEN key[t] = k /\ UNCHANGED key ELSE key' = [key EXCEPT ![t] = k]
    /\ Goto(t, label)

(* The thread t can answer its request, with its file as it is then.          *)
End(t, newFile) ==
    /\ Goto(t, "idle")
    /\ file' = [file EXCEPT ![t] = newFile]
    /\ ptr' = [ptr EXCEPT ![t] = None]
    /\ key' = IF newFile.open THEN key ELSE [key EXCEPT ![t] = None]

(* The process is gone.                                                      *)
Dies(why) ==
    /\ Crash(why)
    /\ UNCHANGED <<data, given, requestVars>>

(* Without a root directory the first path is copied from the null pointer.   *)
NoRoot ==
    /\ phase = "mounted"
    /\ "root-dir" \notin data.stored
    /\ Dies("rootdir")

(* caches.get() returns o: either a new cache, or that of the entry of k.     *)
GetNew(k, o) ==
    /\ entries[k] = None
    /\ o \in Free
    /\ state' = [state EXCEPT ![o] = "new"]
    /\ size' = [size EXCEPT ![o] = 0]

GetShared(k, o) ==
    /\ entries[k] # None
    /\ o = entries[k].cache
    /\ UNCHANGED <<state, size>>

Entry(o, spare) == [cache |-> o, spare |-> spare]

(* One use more that nobody gives back, of which one is as good as many; one   *)
(* fewer, of one or of many.                                                 *)
More(spare) == IF spare = 1 THEN 1 ELSE spare + 1
Fewer(spare, many) == IF spare = 1 /\ many THEN 1 ELSE spare - 1

Spare(k) == IF entries[k] = None THEN 0 ELSE entries[k].spare

(* Mutant: preload() gives its use back. *)
UseBriefly(k, o) == entries' = [entries EXCEPT ![k] = Entry(o, Spare(k))]

UseForEver(k, o) == entries' = [entries EXCEPT ![k] = Entry(o, More(Spare(k)))]

UseWhileOpen(k, o) == entries' = [entries EXCEPT ![k] = Entry(o, Spare(k))]

Becomes(o, newState) == state' = [state EXCEPT ![o] = newState]

-----------------------------------------------------------------------------
(* preload(): for a getattr, and for each name readdir lists.                *)

AfterPreload == IF IsFlagSet(WAIT_ON_STAT) THEN "wait" ELSE "correct"

(* preload() of the key of t's request takes a use, and sets up a new cache   *)
(* before it goes on with its caller.                                        *)
PreloadGets(t, k, setUp, next) ==
    \E o \in Object :
        /\ UseForEver(k, o)
        /\ \/ GetNew(k, o) /\ Goto(t, setUp) /\ ptr' = [ptr EXCEPT ![t] = o]
           \/ GetShared(k, o) /\ Goto(t, next) /\ UNCHANGED ptr

Getattr(t, k) ==
    /\ Begin(t, k, IF IsFlagSet(PRELOAD_STAT) THEN "preload" ELSE AfterPreload)
    /\ UNCHANGED <<optionVars, file, ptr, statbuf, entries, state, size, sizes, robbed>>

Preload(t) ==
    /\ At(t, "preload")
    /\ IF UseCache
       THEN PreloadGets(t, key[t], "statSetUp", AfterPreload)
       ELSE Goto(t, AfterPreload) /\ UNCHANGED <<ptr, entries, state, size>>
    /\ UNCHANGED <<optionVars, key, file, statbuf, sizes, robbed>>

Readdir(t, k) ==
    /\ At(t, "idle") /\ ~file[t].open
    /\ IsFlagSet(PRELOAD_READDIR)
    /\ UseCache
    /\ PreloadGets(t, k, "listSetUp", "idle")
    /\ UNCHANGED <<optionVars, key, file, statbuf, sizes, robbed>>

(* The source is opened and dup()ed, and the cache is the read loop's.  If    *)
(* the source cannot be opened, preload() leaves the cache as it is, ...      *)
SetUp(t) ==
    /\ pc[t] \in {"statSetUp", "listSetUp"} /\ Running
    /\ \E next \in {"running", "orphaned"} : Becomes(ptr[t], next)
    /\ Goto(t, IF pc[t] = "listSetUp" THEN "idle" ELSE AfterPreload)
    /\ ptr' = [ptr EXCEPT ![t] = None]
    /\ UNCHANGED <<optionVars, key, file, statbuf, entries, size, sizes, robbed>>

(* ... and if dup() fails, an exception nobody catches leaves the controller. *)
PreloadThrows(t) ==
    /\ pc[t] \in {"statSetUp", "listSetUp"} /\ Running
    /\ Dies("exception")

-----------------------------------------------------------------------------
(* waitUntilFinished(), correctStatInfo(): the rest of getattr.               *)

CacheOf(k) == IF UseCache /\ entries[k] # None THEN entries[k].cache ELSE None

Wait(t) ==
    /\ At(t, "wait")
    /\ CacheOf(key[t]) # None
    /\ ptr' = [ptr EXCEPT ![t] = CacheOf(key[t])]
    /\ Goto(t, "waiting")
    /\ UNCHANGED <<optionVars, key, file, statbuf, entries, state, size, sizes, robbed>>

(* assert(cache), or the null pointer in a build without assertions.          *)
WaitAborts(t) ==
    /\ At(t, "wait")
    /\ CacheOf(key[t]) = None
    /\ Dies("assert")

(* Mutant: the first bytes are enough. *)
HasBytes(o) == state[o] = "finished" \/ size[o] > 0

Finished(o) == state[o] = "finished"

Waited(t) ==
    /\ At(t, "waiting")
    /\ Finished(ptr[t])
    /\ ptr' = [ptr EXCEPT ![t] = None]
    /\ Goto(t, "correct")
    /\ UNCHANGED <<optionVars, key, file, statbuf, entries, state, size, sizes, robbed>>

(* getIfPresent(): the pointer outlives the shared pointer it is taken from.  *)
Correct(t) ==
    /\ At(t, "correct")
    /\ ptr' = [ptr EXCEPT ![t] = CacheOf(key[t])]
    /\ Goto(t, IF CacheOf(key[t]) = None THEN "reply" ELSE "isFinished")
    /\ UNCHANGED <<optionVars, key, file, statbuf, entries, state, size, sizes, robbed>>

Dangling(t) == ptr[t] \notin Owned

(* What is read from a cache that has been destroyed is anything.             *)
IsFinished(t) ==
    /\ At(t, "isFinished")
    /\ \E next \in {"getSize", "reply"} :
          /\ Dangling(t) \/ (next = "getSize" <=> state[ptr[t]] = "finished")
          /\ Goto(t, next)
    /\ UNCHANGED <<optionVars, key, file, ptr, statbuf, entries, state, size, sizes, robbed>>

GetSize(t) ==
    /\ At(t, "getSize")
    /\ \E n \in 0 .. MaxSize :
          /\ Dangling(t) \/ n = size[ptr[t]]
          /\ statbuf' = [statbuf EXCEPT ![t] = n]
          /\ sizes' = IF IsFlagSet(PRELOAD_STAT)
                      THEN [sizes EXCEPT ![key[t]] = n + 1] ELSE sizes
    /\ Goto(t, "reply")
    /\ UNCHANGED <<optionVars, key, file, ptr, entries, state, size, robbed>>

Reply(t) ==
    /\ pc[t] \in {"reply", "fileReply"} /\ Running
    /\ End(t, file[t])
    /\ statbuf' = [statbuf EXCEPT ![t] = 0]
    /\ UNCHANGED <<optionVars, entries, state, size, sizes, robbed>>

-----------------------------------------------------------------------------
(* fgetattr: the size first, the waiting afterwards.                         *)

SizeOf(o) == IF o # None /\ state[o] = "finished" THEN size[o] ELSE 0

Fgetattr(t) ==
    /\ At(t, "idle")
    /\ file[t].open
    /\ ~IsFlagSet(WAIT_ON_STAT) \/ file[t].cache # None
    /\ statbuf' = [statbuf EXCEPT ![t] = SizeOf(file[t].cache)]
    /\ Goto(t, IF IsFlagSet(WAIT_ON_STAT) THEN "fileWaiting" ELSE "fileReply")
    /\ UNCHANGED <<optionVars, key, file, ptr, entries, state, size, sizes, robbed>>

(* Without --seekable there is no cache to wait for.                          *)
FgetattrCrashes(t) ==
    /\ At(t, "idle")
    /\ file[t] = File(TRUE, None)
    /\ IsFlagSet(WAIT_ON_STAT)
    /\ Dies("null")

FileWaited(t) ==
    /\ At(t, "fileWaiting")
    /\ Finished(file[t].cache)
    /\ Goto(t, "fileReply")
    /\ UNCHANGED <<optionVars, key, file, ptr, statbuf, entries, state, size, sizes, robbed>>

-----------------------------------------------------------------------------
(* open, read, release.                                                      *)

(* In cache mode: get the cache, and set up a new one ...                    *)
OpenCached(t, k) ==
    /\ UseCache
    /\ \E o \in Object :
          /\ UseWhileOpen(k, o)
          /\ \/ GetNew(k, o) /\ Begin(t, k, "openSetUp")
             \/ GetShared(k, o) /\ Begin(t, k, "idle")
          /\ file' = [file EXCEPT ![t] = File(TRUE, o)]

(* ... in seekable mode: a cache for this file; without either: the command.  *)
OpenUncached(t, k) ==
    /\ ~UseCache
    /\ Begin(t, k, "idle")
    /\ IF Seekable
       THEN \E o \in Free :
               /\ Becomes(o, "running")
               /\ size' = [size EXCEPT ![o] = 0]
               /\ file' = [file EXCEPT ![t] = File(TRUE, o)]
       ELSE file' = [file EXCEPT ![t] = File(TRUE, None)] /\ UNCHANGED <<state, size>>
    /\ UNCHANGED entries

Open(t, k) ==
    /\ ~file[t].open
    /\ OpenCached(t, k) \/ OpenUncached(t, k)
    /\ UNCHANGED <<optionVars, ptr, statbuf, sizes, robbed>>

(* Mutant: only preload() hands caches to the read loop. *)
OpenSetUpOnly(t) ==
    /\ At(t, "openSetUp")
    /\ Goto(t, "idle")
    /\ UNCHANGED <<optionVars, key, file, ptr, statbuf, entries, state, size, sizes, robbed>>

OpenSetUp(t) ==
    /\ At(t, "openSetUp")
    /\ Becomes(file[t].cache, "running")
    /\ Goto(t, "idle")
    /\ UNCHANGED <<optionVars, key, file, ptr, statbuf, entries, size, sizes, robbed>>

(* dup() fails: the open() does, and the use it has counted stays.            *)
OpenFails(t) ==
    /\ At(t, "openSetUp")
    /\ Becomes(file[t].cache, "orphaned")
    /\ UseForEver(key[t], file[t].cache)
    /\ End(t, NotOpen)
    /\ UNCHANGED <<optionVars, statbuf, size, sizes, robbed>>

(* A read from the beginning; other offsets are the subject of Cache, and     *)
(* files without a cache that of Commands.                                   *)
Read(t) ==
    /\ At(t, "idle")
    /\ file[t].cache # None
    /\ Goto(t, "reading")
    /\ UNCHANGED <<optionVars, key, file, ptr, statbuf, entries, state, size, sizes, robbed>>

ReadReturns(t) ==
    /\ At(t, "reading")
    /\ state[file[t].cache] = "finished" \/ size[file[t].cache] > 0
    /\ Goto(t, "idle")
    /\ UNCHANGED <<optionVars, key, file, ptr, statbuf, entries, state, size, sizes, robbed>>

(* rename() of a directory: a file that was k is j now.  There is none of that *)
(* name any more, but an entry of its translation may be left.  libfuse keeps *)
(* the path of a request as it is until it is answered.                       *)
Rename(k, j) ==
    /\ Running
    /\ Cardinality(robbed) < MaxRobbed
    /\ \E t \in Thread : key[t] = k
    /\ \A t \in Thread : key[t] # j /\ (key[t] = k => pc[t] = "idle")
    /\ key' = [t \in Thread |-> IF key[t] = k THEN j ELSE key[t]]
    /\ UNCHANGED <<optionVars, pc, file, ptr, statbuf, entries, state, size, sizes, robbed>>

OwnUse(t) == entries[key[t]] # None /\ entries[key[t]].cache = file[t].cache

(* A use of t's cache that is not given back stays in the count of its entry.  *)
Lost(t, k) ==
    IF entries[k] # None /\ entries[k].cache = file[t].cache
    THEN Entry(entries[k].cache, More(entries[k].spare)) ELSE entries[k]

(* If the entry of t's path is of another cache, it is its use that is taken.  *)
GiveBack(t) ==
    IF OwnUse(t)
    THEN UNCHANGED <<entries, robbed>>
    ELSE /\ robbed' = IF entries[key[t]] = None THEN robbed ELSE robbed \cup {key[t]}
         /\ \E many \in BOOLEAN :
               entries' = [k \in Key |->
                   IF k = key[t] /\ entries[k] # None
                   THEN Entry(entries[k].cache, Fewer(entries[k].spare, many))
                   ELSE Lost(t, k)]

(* The FileData is there until release() returns.                             *)
Release(t) ==
    /\ At(t, "idle")
    /\ file[t].open
    /\ IF UseCache
       THEN (entries[key[t]] # None => usageCount(key[t]) # 0) /\ GiveBack(t)
       ELSE UNCHANGED <<entries, robbed>>
    /\ IF UseCache /\ data.cacheLimit > 0
       THEN /\ Goto(t, "cleanup")
            /\ file' = [file EXCEPT ![t] = File(FALSE, @.cache)]
            /\ UNCHANGED <<key, ptr>>
       ELSE End(t, NotOpen)
    /\ UNCHANGED <<optionVars, statbuf, state, size, sizes>>

(* assert(data.usageCount != 0) *)
ReleaseAborts(t) ==
    /\ At(t, "idle")
    /\ file[t].open
    /\ UseCache
    /\ entries[key[t]] # None
    /\ usageCount(key[t]) = 0
    /\ Dies("release")

Evictable == {k \in Present : usageCount(k) = 0 /\ state[entries[k].cache] = "finished"}

Cleanup(t) ==
    /\ At(t, "cleanup")
    /\ \E evicted \in SUBSET Evictable :
          entries' = [k \in Key |-> IF k \in evicted THEN None ELSE entries[k]]
    /\ End(t, NotOpen)
    /\ UNCHANGED <<optionVars, statbuf, state, size, sizes, robbed>>

-----------------------------------------------------------------------------
(* The read loop, on its thread.                                             *)

Write(o) ==
    /\ phase = "mounted"
    /\ state[o] = "running"
    /\ size[o] < MaxSize
    /\ size' = [size EXCEPT ![o] = @ + 1]
    /\ UNCHANGED <<optionVars, pc, key, file, ptr, statbuf, entries, state, sizes, robbed>>

Finish(o) ==
    /\ phase = "mounted"
    /\ state[o] = "running"
    /\ Becomes(o, "finished")
    /\ UNCHANGED <<optionVars, pc, key, file, ptr, statbuf, entries, size, sizes, robbed>>

(* The exception of a spawnCommand() that fails ends the process.             *)
SpawnFails(o) ==
    /\ phase = "mounted"
    /\ state[o] = "running" /\ size[o] = 0
    /\ Dies("exception")

Unmount ==
    /\ \A t \in Thread : pc[t] = "idle" /\ ~file[t].open
    /\ Destroyed
    /\ UNCHANGED requestVars

-----------------------------------------------------------------------------

NewRequest(t) ==
    \/ \E k \in Key : Getattr(t, k) \/ Readdir(t, k) \/ Open(t, k)
    \/ Fgetattr(t) \/ FgetattrCrashes(t) \/ Read(t) \/ Release(t) \/ ReleaseAborts(t)

Continue(t) ==
    \/ Preload(t) \/ SetUp(t) \/ Wait(t) \/ WaitAborts(t) \/ Waited(t) \/ Correct(t)
    \/ IsFinished(t) \/ GetSize(t) \/ Reply(t) \/ FileWaited(t)
    \/ OpenSetUp(t) \/ ReadReturns(t) \/ Cleanup(t)

Failure(t) == PreloadThrows(t) \/ OpenFails(t)

Waits(t) == pc[t] \in {"waiting", "reading", "fileWaiting"}

UsedBy(t) == IF pc[t] = "waiting" THEN ptr[t] ELSE file[t].cache

OnOrphan(t) == UsedBy(t) # None /\ state[UsedBy(t)] = "orphaned"

(* The end, or every thread waits for a translation that nobody will make.    *)
Stopped == phase \in {"refused", "exited", "crashed"} /\ UNCHANGED allVars

Hung == phase = "mounted" /\ (\A t \in Thread : Waits(t) /\ OnOrphan(t)) /\ UNCHANGED allVars

RequestsNext ==
    \/ Start /\ UNCHANGED requestVars
    \/ NoRoot
    \/ \E t \in Thread : NewRequest(t) \/ Continue(t) \/ Failure(t)
    \/ \E k, j \in Key : Rename(k, j)
    \/ \E o \in Object : Write(o) \/ Finish(o) \/ SpawnFails(o)
    \/ Unmount
    \/ Stopped \/ Hung

(* Requests go on when they can, and commands end.                           *)
Fairness ==
    /\ \A t \in Thread : WF_allVars(Continue(t))
    /\ \A o \in Object : WF_allVars(Finish(o))

RequestsSpec == RequestsInit /\ [][RequestsNext]_allVars /\ Fairness

-----------------------------------------------------------------------------
(* Properties.                                                               *)

RequestsTypeOK ==
    /\ OptionsTypeOK
    /\ pc \in [Thread -> {"idle", "preload", "statSetUp", "listSetUp", "wait", "waiting",
                          "correct", "isFinished", "getSize", "reply", "fileWaiting",
                          "fileReply", "openSetUp", "reading", "cleanup"}]
    /\ key \in [Thread -> Key \cup {None}]
    /\ file \in [Thread -> [open : BOOLEAN, cache : Object \cup {None}]]
    /\ ptr \in [Thread -> Object \cup {None}]
    /\ statbuf \in [Thread -> 0 .. MaxSize]
    /\ entries \in [Key -> [cache : Object, spare : -Cardinality(Thread) .. 1] \cup {None}]
    /\ state \in [Object -> {"new", "orphaned", "running", "finished"}]
    /\ size \in [Object -> 0 .. MaxSize]
    /\ sizes \in [Key -> 0 .. MaxSize + 1]
    /\ robbed \subseteq Key

(* The raw pointer with which correctStatInfo() asks for the size is never    *)
(* dangling if stat preloads: the preload's use is never given back, so no    *)
(* cleanup() in another thread can free the cache, until a file that has got  *)
(* the path of the entry by a rename is released.  (Without --preload=stat    *)
(* and with a limit, it can be dangling without that.)                       *)
PointerValid ==
    \A t \in Thread :
        /\ pc[t] \in {"isFinished", "getSize"}
        /\ data.cacheLimit > 0 => IsFlagSet(PRELOAD_STAT) /\ key[t] \notin robbed
        => ~Dangling(t)

(* assert(cache) in waitUntilFinished(): whatever is released and cleaned up   *)
(* between preload() and the waiting, with --cache the entry is there, unless *)
(* a file that has got the path by a rename was released; and fgetattr waits   *)
(* for a null pointer only without --seekable.                               *)
WaitNeedsCache ==
    /\ UseCache => \A t \in Thread :
          pc[t] = "wait" /\ key[t] \notin robbed => entries[key[t]] # None
    /\ cause = "null" => ~Seekable

(* The same without the exception, as the assertion says it, does not hold.    *)
CacheIsThere == UseCache => cause # "assert"

(* "When running stat, wait until the read is finished": with --cache and     *)
(* --wait-on-stat, stat by name answers with the size of the whole            *)
(* translation, that the next reader of the file will get, unless its entry   *)
(* has lost a use to the release of another file.                            *)
StatAnswersFinal ==
    UseCache /\ IsFlagSet(WAIT_ON_STAT) =>
        \A t \in Thread : pc[t] = "reply" /\ key[t] \notin robbed =>
            /\ entries[key[t]] # None
            /\ state[entries[key[t]].cache] = "finished"
            /\ statbuf[t] = size[entries[key[t]].cache]

(* The same of stat on an open file, which does not hold: the size is taken   *)
(* before the wait.                                                          *)
FstatAnswersFinal ==
    UseCache /\ IsFlagSet(WAIT_ON_STAT) =>
        \A t \in Thread : pc[t] = "fileReply" => statbuf[t] = size[file[t].cache]

(* With --preload=stat, once stat has found the size of a translation every   *)
(* later stat of the name that finds one finds the same: the file is not      *)
(* translated again, before its entry has lost a use to the release of       *)
(* another file.                                                             *)
StatStable ==
    [][UseCache /\ IsFlagSet(PRELOAD_STAT) =>
          \A k \in Key \ robbed : sizes[k] # 0 => sizes'[k] = sizes[k]]_allVars

(* Every request is answered, if commands end, unless it is about a cache     *)
(* whose translation could not be set up.                                    *)
RequestsAnswered ==
    \A t \in Thread :
        pc[t] # "idle" ~> pc[t] = "idle" \/ OnOrphan(t) \/ phase = "crashed"
=============================================================================
