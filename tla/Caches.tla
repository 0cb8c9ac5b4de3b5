------------------------------- MODULE Caches -------------------------------
(***************************************************************************)
(* The registry of the caches by file name, which shares one translation    *)
(* between all who open a file and evicts the least recently used ones      *)
(* (src/src/controller/BasicCaches.hpp), with the clients the controller    *)
(* is to it in --cache mode: open() and preload() get a cache, release()    *)
(* gives it back and cleans up.                                            *)
(*                                                                         *)
(* A release gives back the path that FUSE has for the open file by then.    *)
(* If a directory above it has been renamed, that is not the path the file   *)
(* was opened with, and the use that is given back is not its own.          *)
(*                                                                         *)
(* get() and release() are one step each under the registry's mutex.        *)
(* cleanup() keeps that mutex, but takes the mutex of each cache anew for   *)
(* every question it asks, and the IO thread writes and finishes caches in  *)
(* between: so each question is a step.                                    *)
(***************************************************************************)
EXTENDS Naturals, FiniteSets, FiniteSetsExt

CONSTANTS
    Key,            \* file names
    Object,         \* the cache objects there can be at a time
    Handle,         \* file handles the clients open
    None,           \* no entry, no cache, no cleanup
    cacheLimit,     \* --cache-limit; 0 is "never clean up"
    Word,           \* 2^w, for the width of size_t
    MaxSize,        \* bound: the size of a translation
    MaxTime,        \* bound: how far the clock advances
    MaxPreloads,    \* bound: how many preloads there are
    MaxRenames      \* bound: how often a directory is renamed

Entry == [cache : Object, lastAccessed : 0 .. MaxTime, usageCount : Nat]

(* A call of cleanup(): see Cleaner. *)
Cleaning == [phase : {"sum", "evict"}, left : SUBSET Key, total : Nat, quiet : BOOLEAN]

ASSUME CachesAssumption ==
    /\ None \notin Object \cup Entry \cup Cleaning
    /\ IsFiniteSet(Key) /\ IsFiniteSet(Object)
    /\ {cacheLimit, MaxSize, MaxTime, MaxPreloads, MaxRenames} \subseteq Nat
    /\ Word \in Nat /\ Word > MaxSize * Cardinality(Key)

VARIABLES
    entries,    \* the map: [cache, lastAccessed, usageCount] by key, or None
    clock,      \* steady_clock::now()
    handles,    \* [path, cache] of the open handles, "closing" after release()
    cleaner,    \* the call of cleanup() that holds the mutex, or None
    size,       \* what has been written into a cache
    running,    \* the caches the read loop has not finished
    orphaned,   \* the caches that were never handed to the read loop
    failed,     \* an assertion has failed
    keyOf,      \* history: the key a cache was made for
    robbed,     \* history: the caches of which another file's release took a use
    pinned,     \* history: the caches with a use that is never given back
    preloads,   \* how many preloads there have been
    renames     \* how many renames there have been

history == <<keyOf, robbed, pinned>>
vars == <<entries, clock, handles, cleaner, size, running, orphaned, failed, history,
          preloads, renames>>

Closed  == [state |-> "closed"]
Closing == [state |-> "closing"]
Open(k, o) == [state |-> "open", path |-> k, cache |-> o]

Present == {k \in Key : entries[k] # None}

IsOpen(h) == handles[h].state = "open"

(* The open files that read from the cache o. *)
UsersOf(o) == {h \in Handle : IsOpen(h) /\ handles[h].cache = o}

(* isFinished() does not say so, and will not if the cache is an orphan. *)
Unfinished == running \cup orphaned

(* The objects somebody still owns: the registry, a handle or the read loop. *)
Owned ==
    {entries[k].cache : k \in Present} \cup running
      \cup {handles[h].cache : h \in {g \in Handle : IsOpen(g)}}

TotalSize == MapThenSumSet(LAMBDA k : size[entries[k].cache], Present)

Init ==
    /\ entries = [k \in Key |-> None]
    /\ clock = 0
    /\ handles = [h \in Handle |-> Closed]
    /\ cleaner = None
    /\ size = [o \in Object |-> 0]
    /\ running = {}
    /\ orphaned = {}
    /\ failed = FALSE
    /\ keyOf = [o \in Object |-> None]
    /\ robbed = {}
    /\ pinned = {}
    /\ preloads = 0
    /\ renames = 0

-----------------------------------------------------------------------------
(* get() and release().                                                      *)

Now(time) ==
    /\ time \in clock .. clock + 1
    /\ time <= MaxTime
    /\ clock' = time

CacheData(o, time, count) == [cache |-> o, lastAccessed |-> time, usageCount |-> count]

(* A new cache is handed to the read loop by whoever got it, or the setting   *)
(* up of the translation fails, and the entry stays.                         *)
New(k, o, time, fails) ==
    /\ entries[k] = None
    /\ o \notin Owned
    /\ entries' = [entries EXCEPT ![k] = CacheData(o, time, 1)]
    /\ size' = [size EXCEPT ![o] = 0]
    /\ running' = IF fails THEN running ELSE running \cup {o}
    /\ orphaned' = IF fails THEN orphaned \cup {o} ELSE orphaned
    /\ keyOf' = [keyOf EXCEPT ![o] = k]
    /\ robbed' = robbed \ {o}

(* Mutant: only who makes the entry counts as its user. *)
ShareUncounted(k, o, time) ==
    /\ entries[k] # None
    /\ o = entries[k].cache
    /\ entries' = [entries EXCEPT ![k] = CacheData(o, time, @.usageCount)]
    /\ UNCHANGED <<size, running, orphaned, keyOf, robbed>>

Share(k, o, time) ==
    /\ entries[k] # None
    /\ o = entries[k].cache
    /\ entries' = [entries EXCEPT ![k] = CacheData(o, time, @.usageCount + 1)]
    /\ UNCHANGED <<size, running, orphaned, keyOf, robbed>>

(* get(k), which returns o, and what is done with a new cache. *)
Get(k, o) ==
    /\ cleaner = None
    /\ \E time \in 0 .. MaxTime :
          Now(time) /\ (New(k, o, time, FALSE) \/ Share(k, o, time))
    /\ UNCHANGED failed

GetAndFail(k, o) ==
    /\ cleaner = None
    /\ \E time \in 0 .. MaxTime : Now(time) /\ New(k, o, time, TRUE)
    /\ UNCHANGED failed

OpenFile(h, k) ==
    /\ handles[h] = Closed
    /\ \E o \in Object :
          /\ Get(k, o)
          /\ handles' = [handles EXCEPT ![h] = Open(k, o)]
          /\ pinned' = IF entries[k] = None THEN pinned \ {o} ELSE pinned
    /\ UNCHANGED <<cleaner, preloads, renames>>

(* dup() fails for the new cache: so does open(), and nobody is going to give  *)
(* back the use.                                                             *)
OpenFails(k) ==
    /\ \E o \in Object : GetAndFail(k, o) /\ pinned' = pinned \cup {o}
    /\ UNCHANGED <<handles, cleaner, preloads, renames>>

(* The cache is got and never given back, even if the source for a new one     *)
(* cannot be opened.                                                         *)
Preload(k) ==
    /\ preloads < MaxPreloads
    /\ preloads' = preloads + 1
    /\ \E o \in Object : (Get(k, o) \/ GetAndFail(k, o)) /\ pinned' = pinned \cup {o}
    /\ UNCHANGED <<handles, cleaner, renames>>

-----------------------------------------------------------------------------
(* rename() of a directory, which may be any two steps of others apart, and    *)
(* release().                                                                *)

(* The file that was k is j now.  There is none of that name any more, but an  *)
(* entry of its translation may be left.                                     *)
RenameDirectory(k, j) ==
    /\ renames < MaxRenames
    /\ renames' = renames + 1
    /\ \E h \in Handle : IsOpen(h) /\ handles[h].path = k
    /\ \A h \in Handle : IsOpen(h) => handles[h].path # j
    /\ handles' = [h \in Handle |-> IF IsOpen(h) /\ handles[h].path = k
                                    THEN Open(j, handles[h].cache) ELSE handles[h]]
    /\ UNCHANGED <<entries, clock, cleaner, size, running, orphaned, failed, history, preloads>>

(* The use that a release of h gives back is that of h. *)
OwnUse(h) ==
    /\ entries[handles[h].path] # None
    /\ entries[handles[h].path].cache = handles[h].cache

RecordRelease(h) ==
    /\ robbed' = IF ~OwnUse(h) /\ entries[handles[h].path] # None
                 THEN robbed \cup {entries[handles[h].path].cache} ELSE robbed
    /\ pinned' = IF OwnUse(h) THEN pinned ELSE pinned \cup {handles[h].cache}

Unused(k) == entries[k] # None /\ entries[k].usageCount = 0

(* release(k): an entry that is gone is none of its business. *)
GiveBack(k) ==
    IF entries[k] = None
    THEN UNCHANGED <<entries, clock>>
    ELSE \E time \in 0 .. MaxTime :
            /\ Now(time)
            /\ entries' = [entries EXCEPT ![k] = CacheData(@.cache, time, @.usageCount - 1)]

ReleaseFile(h) ==
    /\ cleaner = None
    /\ IsOpen(h)
    /\ ~Unused(handles[h].path)
    /\ GiveBack(handles[h].path)
    /\ RecordRelease(h)
    /\ handles' = [handles EXCEPT ![h] = IF cacheLimit > 0 THEN Closing ELSE Closed]
    /\ UNCHANGED <<cleaner, size, running, orphaned, failed, keyOf, preloads, renames>>

(* assert(data.usageCount != 0) *)
ReleaseAborts(h) ==
    /\ cleaner = None
    /\ IsOpen(h)
    /\ Unused(handles[h].path)
    /\ RecordRelease(h)
    /\ failed' = TRUE
    /\ UNCHANGED <<entries, clock, handles, cleaner, size, running, orphaned, keyOf,
                   preloads, renames>>

-----------------------------------------------------------------------------
(* cleanup(): left are the entries still to be counted and then, in the       *)
(* order of their last access, to be looked at.  quiet is history: no cache   *)
(* has been written or finished since it began.                              *)

Cleaner(phase, left, total, quiet) ==
    [phase |-> phase, left |-> left, total |-> total, quiet |-> quiet]

CleanupBegin(h) ==
    /\ cleaner = None
    /\ handles[h] = Closing
    /\ handles' = [handles EXCEPT ![h] = Closed]
    /\ cleaner' = Cleaner("sum", Present, 0, TRUE)
    /\ UNCHANGED <<entries, clock, size, running, orphaned, failed, history, preloads, renames>>

CleanupCount(k) ==
    /\ cleaner # None
    /\ cleaner.phase = "sum"
    /\ k \in cleaner.left
    /\ cleaner' = [cleaner EXCEPT !.left = @ \ {k},
                                  !.total = (@ + size[entries[k].cache]) % Word]
    /\ UNCHANGED <<entries, clock, handles, size, running, orphaned, failed, history,
                   preloads, renames>>

(* Mutant: goes on to evict without comparing. *)
CleanupCountedAnyway ==
    /\ cleaner # None
    /\ cleaner.phase = "sum"
    /\ cleaner.left = {}
    /\ cleaner' = IF Present # {}
                  THEN [cleaner EXCEPT !.phase = "evict", !.left = Present]
                  ELSE None
    /\ UNCHANGED <<entries, clock, handles, size, running, orphaned, failed, history,
                   preloads, renames>>

CleanupCounted ==
    /\ cleaner # None
    /\ cleaner.phase = "sum"
    /\ cleaner.left = {}
    /\ cleaner' = IF cleaner.total > cacheLimit
                  THEN [cleaner EXCEPT !.phase = "evict", !.left = Present]
                  ELSE None
    /\ UNCHANGED <<entries, clock, handles, size, running, orphaned, failed, history,
                   preloads, renames>>

(* Mutant: sorted the other way round. *)
Newest(k) ==
    \A other \in cleaner.left : entries[k].lastAccessed >= entries[other].lastAccessed

(* The sort puts entries that were last accessed at the same time anyhow. *)
Oldest(k) ==
    \A other \in cleaner.left : entries[k].lastAccessed <= entries[other].lastAccessed

(* Mutant: an entry that is being translated is evicted. *)
EvictableRunning(k) == entries[k].usageCount = 0

Evictable(k) == entries[k].cache \notin Unfinished /\ entries[k].usageCount = 0

(* Mutant: a byte too many is enough space. *)
NearlyEnoughSpace(total) == total <= cacheLimit + 1

EnoughSpace(total) == total < cacheLimit

(* Looking at the entry k: evict it if it can be, and be done if there is     *)
(* enough space then.  A finished cache stays the same, so isFinished() and   *)
(* getSize() may be one step.                                                *)
CleanupLook(k) ==
    /\ cleaner # None
    /\ cleaner.phase = "evict"
    /\ k \in cleaner.left
    /\ Oldest(k)
    /\ LET total == IF Evictable(k)
                    THEN (cleaner.total - size[entries[k].cache]) % Word
                    ELSE cleaner.total
       IN  /\ entries' = IF Evictable(k) THEN [entries EXCEPT ![k] = None] ELSE entries
           /\ cleaner' = IF EnoughSpace(total) \/ cleaner.left = {k}
                         THEN None
                         ELSE [cleaner EXCEPT !.left = @ \ {k}, !.total = total]
    /\ UNCHANGED <<clock, handles, size, running, orphaned, failed, history, preloads, renames>>

-----------------------------------------------------------------------------
(* The read loop fills the caches.                                           *)

Disturb == cleaner' = IF cleaner = None THEN None ELSE [cleaner EXCEPT !.quiet = FALSE]

Write(o) ==
    /\ o \in running
    /\ size[o] < MaxSize
    /\ size' = [size EXCEPT ![o] = @ + 1]
    /\ Disturb
    /\ UNCHANGED <<entries, clock, handles, running, orphaned, failed, history, preloads, renames>>

Finish(o) ==
    /\ o \in running
    /\ running' = running \ {o}
    /\ Disturb
    /\ UNCHANGED <<entries, clock, handles, size, orphaned, failed, history, preloads, renames>>

-----------------------------------------------------------------------------

Cleanup == (\E k \in Key : CleanupCount(k) \/ CleanupLook(k)) \/ CleanupCounted

Use ==
    \/ \E h \in Handle, k \in Key : OpenFile(h, k)
    \/ \E k \in Key : OpenFails(k) \/ Preload(k)
    \/ \E k, j \in Key : RenameDirectory(k, j)
    \/ \E h \in Handle : ReleaseFile(h) \/ ReleaseAborts(h) \/ CleanupBegin(h)

Aborted == failed /\ UNCHANGED vars

Next ==
    \/ ~failed /\ (Use \/ Cleanup \/ \E o \in Object : Write(o) \/ Finish(o))
    \/ Aborted

Spec == Init /\ [][Next]_vars

-----------------------------------------------------------------------------
(* Properties.                                                               *)

TypeOK ==
    /\ entries \in [Key -> Entry \cup {None}]
    /\ clock \in 0 .. MaxTime
    /\ \A h \in Handle : handles[h] \in {Closed, Closing}
                           \cup {Open(k, o) : k \in Key, o \in Object}
    /\ \/ cleaner = None
       \/ cleaner \in [phase : {"sum", "evict"}, left : SUBSET Present,
                       total : 0 .. Word - 1, quiet : BOOLEAN]
    /\ size \in [Object -> 0 .. MaxSize]
    /\ {running, orphaned, robbed, pinned} \subseteq SUBSET Object
    /\ failed \in BOOLEAN
    /\ keyOf \in [Object -> Key \cup {None}]
    /\ preloads \in 0 .. MaxPreloads
    /\ renames \in 0 .. MaxRenames

(* usageCount counts the open files that read from the entry's cache.  It is    *)
(* not below their number unless a release of another file, that had the path  *)
(* of the entry by then, took a use of it, and it is not above it unless one of *)
(* them was released under another path, a preload keeps it, or an open()      *)
(* failed after it had been counted.  So the cache of an open file stays in    *)
(* the registry, and the assertion in release() holds, until a stray release.  *)
UsageCounted ==
    /\ \A k \in Present : LET o == entries[k].cache IN
          /\ o \notin robbed => Cardinality(UsersOf(o)) <= entries[k].usageCount
          /\ o \notin pinned => entries[k].usageCount <= Cardinality(UsersOf(o))
    /\ \A h \in Handle : IsOpen(h) /\ handles[h].cache \notin robbed =>
          \E k \in Present : entries[k].cache = handles[h].cache
    /\ failed => robbed # {}

(* "assert(data.usageCount != 0)" in release() says that what is given back     *)
(* was got.  It fails after a rename of a directory.                         *)
ReleasesWereUses == ~failed

(* The command runs only once for a file that is opened again or by several   *)
(* at the same time: while a translation of it has not finished, the registry *)
(* knows it, and does not start another.                                     *)
OneTranslation ==
    \A o \in running : entries[keyOf[o]] # None /\ entries[keyOf[o]].cache = o

Evicts(k) == entries[k] # None /\ entries'[k] = None

(* Eviction is in the order of last access: an entry goes only after every    *)
(* older one that could go, unless a cache was written or finished, so that   *)
(* this one can go now, while cleanup() ran.                                 *)
LeastRecentFirst ==
    [][\A k \in Present : Evicts(k) =>
          \A other \in Present :
              entries[other].lastAccessed < entries[k].lastAccessed =>
                  ~Evictable(other) \/ ~cleaner.quiet]_vars

CleanupEnds == cleaner # None /\ cleaner' = None

LeftBecause(k, reasons) ==
    UsersOf(entries[k].cache) # {} \/ entries[k].cache \in reasons

LimitKept(reasons) ==
    TotalSize' <= cacheLimit \/ \A k \in Present' : LeftBecause(k, reasons)

(* cleanup() achieves what it is for: when it returns, the limit is kept, or   *)
(* everything left is open, still being translated, or has a use that nobody   *)
(* will give back: of a preload, of an open() that failed, or of a file that   *)
(* was released under another path ...                                       *)
CleanupEffective ==
    [][CleanupEnds /\ cleaner.quiet => LimitKept(Unfinished \cup pinned)]_vars

(* ... "The maximum total size of the cache" says it without these last ones,  *)
(* which does not hold.                                                      *)
CleanupKeepsLimit == [][CleanupEnds /\ cleaner.quiet => LimitKept(Unfinished)]_vars

(* "cleanup does not clean up entries if there is enough space", whatever is   *)
(* written meanwhile.                                                        *)
NeverEvictsBelowLimit ==
    [][\A k \in Present : Evicts(k) => TotalSize >= cacheLimit]_vars

(* ... which is so if no cache is written or finished while cleanup() runs: it *)
(* neither begins nor goes on to evict with less than the limit there.        *)
QuietEvictsAboveLimit ==
    [][\A k \in Present : Evicts(k) /\ cleaner.quiet => TotalSize >= cacheLimit]_vars
=============================================================================
