--------------------------- MODULE RequestsProofs ---------------------------
(***************************************************************************)
(* Theorems about Options and Requests, for any command line, any number of *)
(* files, threads and caches, and translations of any size.                 *)
(***************************************************************************)
EXTENDS Requests, FiniteSetTheorems, TLAPS

-----------------------------------------------------------------------------
(* The options.                                                              *)

Flags == CACHE \cup PRELOAD_READDIR \cup WAIT_ON_STAT

DataType ==
    data \in [flags : SUBSET Flags, cacheLimit : Nat, processLimit : Nat,
              stored : SUBSET (Mandatory \cup {"pidfile", "log-file"})]

(* While the words are taken, the flags are what the words say, bit by bit.   *)
(* That the flags have one meaning needs that "cache" never comes without     *)
(* "seekable", and "wait" never without "preloadStat".                       *)
FlagsAsGiven ==
    ~Given("-C") =>
        /\ "seekable" \in data.flags <=> Given("seekable") \/ Given("cache")
        /\ "cache" \in data.flags <=> Given("cache")
        /\ "preloadStat" \in data.flags <=> GivenPreload("stat") \/ Given("wait-on-stat")
        /\ "preloadReaddir" \in data.flags <=> GivenPreload("readdir")
        /\ "wait" \in data.flags <=> Given("wait-on-stat")

OptionsInv ==
    /\ OptionsTypeOK
    /\ DataType
    /\ phase \in {"start", "parsing", "fuse"} => cause = "none" /\ FlagsAsGiven

LEMMA FlagWord ==
    ASSUME DataType, NEW w \in Word, NEW flag \in SUBSET Flags, Take({w}, Flagged(flag))
    PROVE  /\ DataType'
           /\ data'.flags = data.flags \cup flag
           /\ \A option : Given(option)' <=> Given(option) \/ w.option = option
           /\ \A value : GivenPreload(value)' <=>
                 GivenPreload(value) \/ (w.option = "preload" /\ value \in w.values)
BY DEF DataType, Take, Flagged, AddFlag, Given, GivenPreload

LEMMA StartOptions == OptionsInv /\ Start => OptionsInv'
<1> SUFFICES ASSUME OptionsInv, Start
             PROVE  OptionsInv'
  OBVIOUS
<1>1. ASSUME NEW option \in {"cache", "seekable", "wait-on-stat"}, NEW flag \in SUBSET Flags,
             ParseFlag(option, flag),
             option = "cache" => flag = CACHE,
             option = "seekable" => flag = SEEKABLE,
             option = "wait-on-stat" => flag = WAIT_ON_STAT
      PROVE  OptionsInv'
  <2>1. PICK w \in Word : w.option = option /\ Take({w}, Flagged(flag))
    BY <1>1 DEF ParseFlag, Words
  <2>2. /\ DataType'
        /\ data'.flags = data.flags \cup flag
        /\ \A o : Given(o)' <=> Given(o) \/ w.option = o
        /\ \A value : GivenPreload(value)' <=>
              GivenPreload(value) \/ (w.option = "preload" /\ value \in w.values)
    BY <2>1, FlagWord DEF OptionsInv
  <2>3. FlagsAsGiven'
    <3>1. FlagsAsGiven /\ w.option = option
      BY <2>1 DEF Take, OptionsInv
    <3>2. CASE option = "cache"
      BY <1>1, <2>2, <3>1, <3>2 DEF FlagsAsGiven, CACHE
    <3>3. CASE option = "seekable"
      BY <1>1, <2>2, <3>1, <3>3 DEF FlagsAsGiven, SEEKABLE
    <3>4. CASE option = "wait-on-stat"
      BY <1>1, <2>2, <3>1, <3>4 DEF FlagsAsGiven, WAIT_ON_STAT
    <3> QED
      BY <3>2, <3>3, <3>4
  <2>4. UNCHANGED <<phase, cause>> /\ given' \subseteq Word /\ phase = "parsing"
    BY <2>1 DEF Take, OptionsInv, OptionsTypeOK
  <2> QED
    BY <2>2, <2>3, <2>4 DEF OptionsInv, OptionsTypeOK, DataType, Flags
<1>2. CASE ParsePreload
  <2>1. PICK w \in Word : w.option = "preload" /\ Take({w}, Flagged(PreloadFlag(w.values)))
    BY <1>2 DEF ParsePreload, Words
  <2>2. PreloadFlag(w.values) \in SUBSET Flags
    BY DEF PreloadFlag, Flags, PRELOAD_STAT, PRELOAD_READDIR, WAIT_ON_STAT
  <2>3. /\ DataType'
        /\ data'.flags = data.flags \cup PreloadFlag(w.values)
        /\ \A o : Given(o)' <=> Given(o) \/ w.option = o
        /\ \A value : GivenPreload(value)' <=>
              GivenPreload(value) \/ (w.option = "preload" /\ value \in w.values)
    BY <2>1, <2>2, FlagWord DEF OptionsInv
  <2>4. FlagsAsGiven'
    <3>1. FlagsAsGiven /\ w.option = "preload"
      BY <2>1 DEF Take, OptionsInv
    <3>2. \A bit : bit \in PreloadFlag(w.values) <=>
             \/ bit = "preloadStat" /\ "stat" \in w.values
             \/ bit = "preloadReaddir" /\ "readdir" \in w.values
      BY DEF PreloadFlag, PRELOAD_STAT, PRELOAD_READDIR
    <3> QED
      BY <2>3, <3>1, <3>2 DEF FlagsAsGiven
  <2>5. UNCHANGED <<phase, cause>> /\ given' \subseteq Word /\ phase = "parsing"
    BY <2>1 DEF Take, OptionsInv, OptionsTypeOK
  <2> QED
    BY <2>3, <2>4, <2>5 DEF OptionsInv, OptionsTypeOK, DataType, Flags
<1>3. CASE ParseShortCache
  <2>1. PICK w \in Word, eaten \in Word :
           w.option = "-C" /\ Take({w, eaten}, Flagged(CACHE))
    BY <1>3 DEF ParseShortCache, Words
  <2>2. Given("-C")'
    BY <2>1 DEF Take, Given
  <2>3. DataType' /\ UNCHANGED <<phase, cause>> /\ given' \subseteq Word /\ phase = "parsing"
    BY <2>1 DEF Take, Flagged, AddFlag, DataType, Flags, OptionsInv, OptionsTypeOK
  <2> QED
    BY <2>2, <2>3 DEF OptionsInv, OptionsTypeOK, DataType, Flags, FlagsAsGiven
<1>4. ASSUME NEW w \in Word, NEW new, Take({w}, new), DataType',
             new.flags = data.flags,
             w.option \notin {"cache", "seekable", "wait-on-stat", "preload", "-C"}
      PROVE  OptionsInv'
  <2>1. \A o : Given(o)' <=> Given(o) \/ w.option = o
    BY <1>4 DEF Take, Given
  <2>2. \A value : GivenPreload(value)' <=> GivenPreload(value)
    BY <1>4 DEF Take, GivenPreload
  <2>3. data'.flags = data.flags /\ UNCHANGED <<phase, cause>> /\ given' \subseteq Word
        /\ phase = "parsing"
    BY <1>4 DEF Take, OptionsInv, OptionsTypeOK
  <2>4. FlagsAsGiven'
    BY <1>4, <2>1, <2>2, <2>3 DEF OptionsInv, FlagsAsGiven
  <2> QED
    BY <1>4, <2>3, <2>4 DEF OptionsInv, OptionsTypeOK, DataType, Flags
<1>5. CASE ParseLimits
  <2>1. ASSUME NEW w \in Words("process-limit"),
               Take({w}, [data EXCEPT !.processLimit = w.number])
        PROVE  OptionsInv'
    <3>1. w \in Word /\ w.option = "process-limit" /\ w.number \in Nat
      BY OptionsAssumption DEF Words, Plain, Mandatory
    <3>2. DataType' /\ [data EXCEPT !.processLimit = w.number].flags = data.flags
      BY <2>1, <3>1 DEF Take, DataType, OptionsInv
    <3> QED
      BY <1>4, <2>1, <3>1, <3>2
  <2>2. ASSUME NEW w \in Words("cache-limit"),
               Take({w}, [data EXCEPT !.cacheLimit = w.number * Factor(w.unit)])
        PROVE  OptionsInv'
    <3>1. w \in Word /\ w.option = "cache-limit" /\ w.number \in Nat /\ w.unit \in Unit
      BY OptionsAssumption DEF Words, Plain, Mandatory
    <3>2. Factor(w.unit) \in Nat
      BY <3>1 DEF Factor, Unit
    <3>3. w.number * Factor(w.unit) \in Nat
      BY <3>1, <3>2
    <3>4. /\ DataType'
          /\ [data EXCEPT !.cacheLimit = w.number * Factor(w.unit)].flags = data.flags
      BY <2>2, <3>3 DEF Take, DataType, OptionsInv
    <3> QED
      BY <1>4, <2>2, <3>1, <3>4
  <2> QED
    BY <1>5, <2>1, <2>2 DEF ParseLimits
<1>6. CASE ParseStored
  <2>1. PICK option \in Mandatory \cup {"pidfile", "log-file"} :
           \E w \in Words(option) : Take({w}, [data EXCEPT !.stored = @ \cup {option}])
    BY <1>6 DEF ParseStored
  <2> PICK w \in Words(option) : Take({w}, [data EXCEPT !.stored = @ \cup {option}])
    BY <2>1
  <2>2. w \in Word /\ w.option \notin {"cache", "seekable", "wait-on-stat", "preload", "-C"}
    BY DEF Words, Mandatory
  <2>3. DataType' /\ [data EXCEPT !.stored = @ \cup {option}].flags = data.flags
    BY DEF Take, DataType, OptionsInv
  <2> QED
    BY <1>4, <2>2, <2>3
<1>7. CASE CheckUser \/ Refuse \/ LogFails \/ FuseFails
  <2>1. UNCHANGED <<data, given, cause>>
        /\ phase' \in {"parsing", "refused", "exited"}
        /\ phase \in {"start", "parsing", "fuse"}
    BY <1>7 DEF CheckUser, Refuse, LogFails, FuseFails, Go
  <2>2. FlagsAsGiven'
    BY <2>1 DEF OptionsInv, FlagsAsGiven, Given, GivenPreload
  <2> QED
    BY <2>1, <2>2 DEF OptionsInv, OptionsTypeOK, DataType
<1>8. CASE EndOfWords
  <2>1. CASE Go("refused") /\ phase = "parsing"
    <3>1. UNCHANGED <<data, given, cause>> /\ phase' = "refused"
      BY <2>1 DEF Go
    <3> QED
      BY <3>1 DEF OptionsInv, OptionsTypeOK, DataType
  <2>2. ASSUME NEW missing \in SUBSET {"root-dir"},
               data' = [data EXCEPT !.stored = @ \ missing],
               phase = "parsing", phase' = "fuse", UNCHANGED <<given, cause>>
        PROVE  OptionsInv'
    <3>1. DataType' /\ data'.flags = data.flags
      BY <2>2 DEF DataType, OptionsInv
    <3>2. FlagsAsGiven'
      BY <2>2, <3>1 DEF OptionsInv, FlagsAsGiven, Given, GivenPreload
    <3> QED
      BY <2>2, <3>1, <3>2 DEF OptionsInv, OptionsTypeOK, DataType, Flags
  <2> QED
    BY <1>8, <2>1, <2>2 DEF EndOfWords
<1>9. CASE NoPidfile \/ NoPidfileAnyMore
  <2>1. UNCHANGED <<data, given>> /\ phase' = "crashed" /\ cause' = "pidfile"
    BY <1>9 DEF NoPidfile, NoPidfileAnyMore, Crash
  <2> QED
    BY <2>1 DEF OptionsInv, OptionsTypeOK, DataType
<1>10. CASE FuseInit
  <2>1. phase' = "mounted" /\ given' = {} /\ UNCHANGED cause
    BY <1>10 DEF FuseInit
  <2>2. DataType'
    BY <1>10 DEF FuseInit, DataType, OptionsInv
  <2> QED
    BY <2>1, <2>2 DEF OptionsInv, OptionsTypeOK, DataType, Flags
<1>11. CACHE \in SUBSET Flags /\ SEEKABLE \in SUBSET Flags /\ WAIT_ON_STAT \in SUBSET Flags
  BY DEF Flags, CACHE, SEEKABLE, WAIT_ON_STAT
<1> QED
  BY <1>1, <1>2, <1>3, <1>5, <1>6, <1>7, <1>8, <1>9, <1>10, <1>11 DEF Start

LEMMA FlagBits ==
    /\ IsFlagSet(SEEKABLE) <=> "seekable" \in data.flags
    /\ IsFlagSet(CACHE) <=> "seekable" \in data.flags /\ "cache" \in data.flags
    /\ IsFlagSet(PRELOAD_STAT) <=> "preloadStat" \in data.flags
    /\ IsFlagSet(PRELOAD_READDIR) <=> "preloadReaddir" \in data.flags
    /\ IsFlagSet(WAIT_ON_STAT) <=> "preloadStat" \in data.flags /\ "wait" \in data.flags
BY DEF IsFlagSet, SEEKABLE, CACHE, PRELOAD_STAT, PRELOAD_READDIR, WAIT_ON_STAT

LEMMA OptionsInitial == OptionsInit => OptionsInv
<1> SUFFICES ASSUME OptionsInit
             PROVE  OptionsInv
  OBVIOUS
<1>1. data = NoData /\ given = {} /\ phase = "start" /\ cause = "none"
  BY DEF OptionsInit
<1>2. DataType /\ data.flags = {}
  BY <1>1 DEF DataType, NoData
<1>3. FlagsAsGiven
  BY <1>1, <1>2 DEF FlagsAsGiven, Given, GivenPreload
<1> QED
  BY <1>1, <1>2, <1>3 DEF OptionsInv, OptionsTypeOK, DataType, Flags

-----------------------------------------------------------------------------
(* The requests.                                                             *)

RequestsType ==
    /\ pc \in [Thread -> {"idle", "preload", "statSetUp", "listSetUp", "wait", "waiting",
                          "correct", "isFinished", "getSize", "reply", "fileWaiting",
                          "fileReply", "openSetUp", "reading", "cleanup"}]
    /\ key \in [Thread -> Key \cup {None}]
    /\ file \in [Thread -> [open : BOOLEAN, cache : Object \cup {None}]]
    /\ ptr \in [Thread -> Object \cup {None}]
    /\ statbuf \in [Thread -> 0 .. MaxSize]
    /\ entries \in [Key -> [cache : Object, spare : Int] \cup {None}]
    /\ state \in [Object -> {"new", "orphaned", "running", "finished"}]
    /\ size \in [Object -> 0 .. MaxSize]
    /\ sizes \in [Key -> 0 .. MaxSize + 1]
    /\ robbed \subseteq Key

(* Before the file system is mounted there are no requests. *)
Untouched ==
    /\ \A t \in Thread : pc[t] = "idle" /\ file[t] = NotOpen
    /\ \A k \in Key : entries[k] = None

OnPath == {"wait", "waiting", "correct", "isFinished", "getSize", "reply"}

SettingUp(t) == pc[t] \in {"statSetUp", "listSetUp", "openSetUp"}

SetUpCache(t) == IF pc[t] = "openSetUp" THEN file[t].cache ELSE ptr[t]

(* Something of the entry is never given back. *)
Pinned(k) == entries[k] # None /\ entries[k].spare > 0

(* What has a thread's request got so far?  What is set up is new; a pinned    *)
(* entry stays until the reply, if no other file's release takes its use.     *)
FileInv(t) ==
    /\ file[t].open => key[t] \in Key
    /\ file[t].open /\ Seekable => file[t].cache # None
    /\ pc[t] = "openSetUp" =>
          /\ file[t].open /\ UseCache
          /\ entries[key[t]] # None /\ entries[key[t]].cache = file[t].cache
    /\ pc[t] \in {"statSetUp", "listSetUp"} => ptr[t] # None
    /\ SettingUp(t) => SetUpCache(t) # None /\ state[SetUpCache(t)] = "new"
    /\ pc[t] = "cleanup" => data.cacheLimit > 0

StatInv(t) ==
    /\ pc[t] \in OnPath \cup {"preload", "statSetUp"} => key[t] \in Key
    /\ pc[t] \in {"preload", "statSetUp"} => IsFlagSet(PRELOAD_STAT)
    /\ /\ pc[t] \in OnPath \cup {"statSetUp"} /\ key[t] \notin robbed
       /\ IsFlagSet(PRELOAD_STAT) /\ UseCache
       => Pinned(key[t])
    /\ pc[t] \in {"wait", "waiting"} => IsFlagSet(WAIT_ON_STAT)
    /\ pc[t] \in {"waiting", "isFinished", "getSize"} => UseCache
    /\ /\ pc[t] \in {"waiting", "isFinished", "getSize"}
       /\ (IsFlagSet(PRELOAD_STAT) /\ key[t] \notin robbed) \/ data.cacheLimit = 0
       => entries[key[t]] # None /\ ptr[t] = entries[key[t]].cache
    /\ /\ \/ pc[t] \in {"correct", "isFinished", "reply"} /\ IsFlagSet(WAIT_ON_STAT)
          \/ pc[t] = "getSize" /\ IsFlagSet(PRELOAD_STAT)
       /\ UseCache /\ key[t] \notin robbed
       => entries[key[t]] # None /\ state[entries[key[t]].cache] = "finished"
    /\ pc[t] = "reply" /\ UseCache /\ IsFlagSet(WAIT_ON_STAT) /\ key[t] \notin robbed
       => statbuf[t] = size[entries[key[t]].cache]

(* Nobody has taken a use that was not there. *)
SparesInv == \A k \in Key \ robbed : entries[k] # None => entries[k].spare >= 0

SetUpsApart ==
    \A t, u \in Thread :
        SettingUp(t) /\ SettingUp(u) /\ SetUpCache(t) = SetUpCache(u) => t = u

RequestsInv ==
    /\ RequestsType
    /\ phase \in {"start", "parsing", "fuse"} => Untouched
    /\ \A t \in Thread : FileInv(t) /\ StatInv(t)
    /\ SetUpsApart
    /\ SparesInv
    /\ cause = "null" => ~Seekable

(* What a step of the thread t, or of the read loop, leaves to the others.    *)
Keeps(t) ==
    /\ UNCHANGED data
    /\ \A u \in Thread : u # t =>
          /\ pc'[u] = pc[u] /\ key'[u] = key[u] /\ file'[u] = file[u]
          /\ ptr'[u] = ptr[u] /\ statbuf'[u] = statbuf[u]
    /\ robbed \subseteq robbed'
    /\ \A k \in Key :
          /\ entries[k] # None
          /\ \/ Pinned(k) /\ k \notin robbed'
             \/ data.cacheLimit = 0
             \/ state[entries[k].cache] # "finished"
          => entries'[k] # None /\ entries'[k].cache = entries[k].cache
    /\ \A k \in Key : Pinned(k) /\ k \notin robbed' => Pinned(k)'
    /\ \A k \in Present : state[entries[k].cache] = "finished" =>
          /\ state'[entries[k].cache] = "finished"
          /\ size'[entries[k].cache] = size[entries[k].cache]
    /\ \A u \in Thread : u # t /\ SettingUp(u) => state'[SetUpCache(u)] = "new"

LEMMA OthersKeep ==
    ASSUME RequestsInv, NEW t, Keeps(t), NEW u \in Thread, u # t
    PROVE  FileInv(u)' /\ StatInv(u)'
<1>1. /\ pc'[u] = pc[u] /\ key'[u] = key[u] /\ file'[u] = file[u]
      /\ ptr'[u] = ptr[u] /\ statbuf'[u] = statbuf[u] /\ data' = data
  BY DEF Keeps
<1>2. FileInv(u) /\ StatInv(u)
  BY DEF RequestsInv
<1>3. \A flag : IsFlagSet(flag)' <=> IsFlagSet(flag)
  BY <1>1 DEF IsFlagSet
<1>4. (UseCache' <=> UseCache) /\ (Seekable' <=> Seekable)
  BY <1>1 DEF UseCache, Seekable, IsFlagSet
<1>5. /\ SettingUp(u)' <=> SettingUp(u)
      /\ SetUpCache(u)' = SetUpCache(u)
  BY <1>1 DEF SettingUp, SetUpCache
<1>6. FileInv(u)'
  <2>1. pc[u] = "openSetUp" =>
           entries'[key[u]] # None /\ entries'[key[u]].cache = file[u].cache
    <3> SUFFICES ASSUME pc[u] = "openSetUp"
                 PROVE  entries'[key[u]] # None /\ entries'[key[u]].cache = file[u].cache
      OBVIOUS
    <3>1. /\ key[u] \in Key /\ entries[key[u]] # None
          /\ entries[key[u]].cache = file[u].cache /\ state[file[u].cache] = "new"
      BY <1>2 DEF FileInv, SettingUp, SetUpCache
    <3> QED
      BY <3>1 DEF Keeps
  <2>2. SettingUp(u) => SetUpCache(u) # None /\ state'[SetUpCache(u)] = "new"
    BY <1>2 DEF FileInv, Keeps
  <2> QED
    BY <1>1, <1>2, <1>4, <1>5, <2>1, <2>2 DEF FileInv
<1>7. StatInv(u)'
  <2>1. /\ robbed \subseteq robbed'
        /\ key[u] \in Key /\ key[u] \notin robbed' /\ Pinned(key[u]) =>
              /\ Pinned(key[u])' /\ entries'[key[u]] # None
              /\ entries'[key[u]].cache = entries[key[u]].cache
        /\ key[u] \in Key /\ entries[key[u]] # None /\ data.cacheLimit = 0 =>
              entries'[key[u]] # None /\ entries'[key[u]].cache = entries[key[u]].cache
    BY <1>1 DEF Keeps, Pinned
  <2>2. key[u] \in Key /\ entries[key[u]] # None /\ state[entries[key[u]].cache] = "finished" =>
           /\ state'[entries[key[u]].cache] = "finished"
           /\ size'[entries[key[u]].cache] = size[entries[key[u]].cache]
    BY DEF Keeps, Present
  <2>3. Pinned(key[u]) => entries[key[u]] # None
    BY DEF Pinned
  <2>4. IsFlagSet(WAIT_ON_STAT) => IsFlagSet(PRELOAD_STAT)
    BY FlagBits
  <2> QED
    BY <1>1, <1>2, <1>3, <1>4, <2>1, <2>2, <2>3, <2>4 DEF StatInv, OnPath
<1> QED
  BY <1>6, <1>7

(* A step of the thread t, if it leaves the others what they need.           *)
LEMMA ThreadStep ==
    ASSUME RequestsInv, NEW t \in Thread, Keeps(t), UNCHANGED <<phase, cause>>, phase = "mounted",
           RequestsType', FileInv(t)', StatInv(t)', SparesInv',
           \A u \in Thread : u # t /\ SettingUp(t)' /\ SettingUp(u) => SetUpCache(u) # SetUpCache(t)'
    PROVE  RequestsInv'
<1>1. \A u \in Thread : FileInv(u)' /\ StatInv(u)'
  BY OthersKeep
<1>2. \A u \in Thread : u # t =>
         (SettingUp(u)' <=> SettingUp(u)) /\ SetUpCache(u)' = SetUpCache(u)
  BY DEF Keeps, SettingUp, SetUpCache
<1>3. SetUpsApart'
  BY <1>2 DEF RequestsInv, SetUpsApart
<1>4. (cause = "null" => ~Seekable)'
  BY DEF RequestsInv, Keeps, Seekable, IsFlagSet
<1> QED
  BY <1>1, <1>3, <1>4 DEF RequestsInv

(* A step of a request that changes nothing but where its thread is.          *)
LEMMA PathStep ==
    ASSUME RequestsInv, NEW t \in Thread, UNCHANGED <<phase, cause, data, file, entries, state, size, robbed>>,
           phase = "mounted", RequestsType', StatInv(t)',
           pc'[t] \notin {"statSetUp", "listSetUp", "openSetUp", "cleanup"},
           file[t].open => key'[t] = key[t],
           \A u \in Thread : u # t =>
               pc'[u] = pc[u] /\ key'[u] = key[u] /\ ptr'[u] = ptr[u] /\ statbuf'[u] = statbuf[u]
    PROVE  RequestsInv'
<1>1. Keeps(t)
  <2>1. \A k : Pinned(k)' <=> Pinned(k)
    BY DEF Pinned
  <2>2. \A u \in Thread : u # t /\ SettingUp(u) => state'[SetUpCache(u)] = "new"
    BY DEF RequestsInv, FileInv
  <2> QED
    BY <2>1, <2>2 DEF Keeps
<1>2. ~SettingUp(t)'
  BY DEF SettingUp
<1>3. FileInv(t)'
  <2>1. FileInv(t)
    BY DEF RequestsInv
  <2>2. (UseCache' <=> UseCache) /\ (Seekable' <=> Seekable)
    BY DEF UseCache, Seekable, IsFlagSet
  <2> QED
    BY <1>2, <2>1, <2>2 DEF FileInv
<1>4. SparesInv'
  BY DEF RequestsInv, SparesInv
<1> QED
  BY <1>1, <1>2, <1>3, <1>4, ThreadStep

LEMMA Modes ==
    ASSUME UNCHANGED data
    PROVE  /\ (UseCache' <=> UseCache) /\ (Seekable' <=> Seekable)
           /\ \A flag : IsFlagSet(flag)' <=> IsFlagSet(flag)
BY DEF UseCache, Seekable, IsFlagSet

LEMMA WaitPreloads == IsFlagSet(WAIT_ON_STAT) => IsFlagSet(PRELOAD_STAT)
BY FlagBits

LEMMA GetattrInv ==
    ASSUME RequestsInv, NEW t \in Thread, NEW k \in Key, Getattr(t, k)
    PROVE  RequestsInv'
<1> DEFINE label == IF IsFlagSet(PRELOAD_STAT) THEN "preload" ELSE AfterPreload
<1>1. /\ phase = "mounted"
      /\ UNCHANGED <<phase, cause, data, file, ptr, statbuf, entries, state, size, sizes, robbed>>
      /\ pc' = [pc EXCEPT ![t] = label]
      /\ key' = key \/ key' = [key EXCEPT ![t] = k]
      /\ file[t].open => key'[t] = key[t]
      /\ ~file[t].open => key' = [key EXCEPT ![t] = k]
  BY DEF Getattr, Begin, At, Running, Goto, optionVars
<1>2. label \in {"preload", "correct"} /\ (label = "correct" => ~IsFlagSet(PRELOAD_STAT))
      /\ (label = "preload" => IsFlagSet(PRELOAD_STAT))
  BY WaitPreloads DEF AfterPreload
<1> HIDE DEF label
<1>3. RequestsType'
  BY <1>1, <1>2 DEF RequestsInv, RequestsType
<1>4. key'[t] \in Key
  BY <1>1 DEF RequestsInv, RequestsType, FileInv
<1>5. pc'[t] = label
  BY <1>1 DEF RequestsInv, RequestsType
<1>6. StatInv(t)'
  BY <1>1, <1>2, <1>4, <1>5, Modes, WaitPreloads DEF StatInv, OnPath
<1>7. \A u \in Thread : u # t => pc'[u] = pc[u] /\ key'[u] = key[u]
  BY <1>1 DEF RequestsInv, RequestsType
<1> QED
  BY <1>1, <1>2, <1>3, <1>5, <1>6, <1>7, PathStep

(* The other steps that only move the thread, or move it and its pointer.     *)
LEMMA MoveInv ==
    ASSUME RequestsInv, NEW t \in Thread, NEW label, phase = "mounted",
           UNCHANGED <<phase, cause, data, file, entries, state, size, robbed, key>>,
           sizes' \in [Key -> 0 .. MaxSize + 1],
           pc' = [pc EXCEPT ![t] = label],
           label \in {"idle", "preload", "wait", "waiting", "correct", "isFinished", "getSize",
                      "reply", "fileWaiting", "fileReply", "reading"},
           \E o \in Object \cup {None} : ptr' = [ptr EXCEPT ![t] = o],
           \E n \in 0 .. MaxSize : statbuf' = [statbuf EXCEPT ![t] = n],
           StatInv(t)'
    PROVE  RequestsInv'
<1>1. RequestsType'
  BY DEF RequestsInv, RequestsType
<1>2. pc'[t] = label
  BY DEF RequestsInv, RequestsType
<1>3. \A u \in Thread : u # t =>
         pc'[u] = pc[u] /\ key'[u] = key[u] /\ ptr'[u] = ptr[u] /\ statbuf'[u] = statbuf[u]
  BY DEF RequestsInv, RequestsType
<1> QED
  BY <1>1, <1>2, <1>3, PathStep

(* What MoveInv asks of a step that leaves one of these variables alone.       *)
LEMMA Alone ==
    ASSUME RequestsInv, NEW t \in Thread
    PROVE  /\ ptr' = ptr => \E o \in Object \cup {None} : ptr' = [ptr EXCEPT ![t] = o]
           /\ statbuf' = statbuf => \E n \in 0 .. MaxSize : statbuf' = [statbuf EXCEPT ![t] = n]
           /\ sizes' = sizes => sizes' \in [Key -> 0 .. MaxSize + 1]
<1>1. ptr[t] \in Object \cup {None} /\ ptr = [ptr EXCEPT ![t] = ptr[t]]
  BY DEF RequestsInv, RequestsType
<1>2. statbuf[t] \in 0 .. MaxSize /\ statbuf = [statbuf EXCEPT ![t] = statbuf[t]]
  BY DEF RequestsInv, RequestsType
<1>3. sizes \in [Key -> 0 .. MaxSize + 1]
  BY DEF RequestsInv, RequestsType
<1> QED
  BY <1>1, <1>2, <1>3

LEMMA WaitInv ==
    ASSUME RequestsInv, NEW t \in Thread, Wait(t) \/ Waited(t) \/ Correct(t)
    PROVE  RequestsInv'
<1>0. FileInv(t) /\ StatInv(t) /\ RequestsType
  BY DEF RequestsInv
<1>1. CASE Wait(t)
  <2>1. /\ phase = "mounted" /\ pc[t] = "wait" /\ pc' = [pc EXCEPT ![t] = "waiting"]
        /\ UNCHANGED <<phase, cause, data, file, entries, state, size, sizes, robbed, key, statbuf>>
        /\ ptr' = [ptr EXCEPT ![t] = CacheOf(key[t])]
        /\ CacheOf(key[t]) # None
    BY <1>1 DEF Wait, At, Running, Goto, optionVars
  <2>2. key[t] \in Key /\ IsFlagSet(WAIT_ON_STAT) /\ UseCache
        /\ CacheOf(key[t]) = entries[key[t]].cache /\ entries[key[t]] # None
    BY <1>0, <2>1 DEF StatInv, OnPath, CacheOf
  <2>3. CacheOf(key[t]) \in Object
    BY <1>0, <2>2 DEF RequestsType
  <2>4. pc'[t] = "waiting" /\ ptr'[t] = entries[key[t]].cache
    BY <1>0, <2>1, <2>2 DEF RequestsType
  <2>5. /\ \A k : Pinned(k)' <=> Pinned(k)
        /\ IsFlagSet(PRELOAD_STAT) /\ key[t] \notin robbed => Pinned(key[t])
    BY <1>0, <2>1, <2>2 DEF Pinned, StatInv, OnPath
  <2>6. StatInv(t)'
    BY <2>1, <2>2, <2>4, <2>5, Modes DEF StatInv, OnPath
  <2> QED
    BY <2>1, <2>3, <2>6, Alone, MoveInv
<1>2. CASE Waited(t)
  <2>1. /\ phase = "mounted" /\ pc[t] = "waiting" /\ pc' = [pc EXCEPT ![t] = "correct"]
        /\ UNCHANGED <<phase, cause, data, file, entries, state, size, sizes, robbed, key, statbuf>>
        /\ ptr' = [ptr EXCEPT ![t] = None] /\ state[ptr[t]] = "finished"
    BY <1>2 DEF Waited, At, Running, Goto, Finished, optionVars
  <2>2. /\ key[t] \in Key /\ IsFlagSet(WAIT_ON_STAT) /\ IsFlagSet(PRELOAD_STAT) /\ UseCache
        /\ key[t] \notin robbed =>
              /\ Pinned(key[t]) /\ entries[key[t]] # None
              /\ state[entries[key[t]].cache] = "finished"
    BY <1>0, <2>1, WaitPreloads DEF StatInv, OnPath
  <2>3. pc'[t] = "correct" /\ (key[t] \notin robbed => Pinned(key[t])')
    BY <1>0, <2>1, <2>2 DEF RequestsType, Pinned
  <2>4. StatInv(t)'
    BY <2>1, <2>2, <2>3, Modes DEF StatInv, OnPath
  <2> QED
    BY <2>1, <2>4, Alone, MoveInv
<1>3. CASE Correct(t)
  <2> DEFINE label == IF CacheOf(key[t]) = None THEN "reply" ELSE "isFinished"
  <2>1. /\ phase = "mounted" /\ pc[t] = "correct" /\ pc' = [pc EXCEPT ![t] = label]
        /\ UNCHANGED <<phase, cause, data, file, entries, state, size, sizes, robbed, key, statbuf>>
        /\ ptr' = [ptr EXCEPT ![t] = CacheOf(key[t])]
    BY <1>3 DEF Correct, At, Running, Goto, optionVars
  <2>2. key[t] \in Key
    BY <1>0, <2>1 DEF StatInv, OnPath
  <2>3. CacheOf(key[t]) \in Object \cup {None}
    BY <1>0, <2>2 DEF RequestsType, CacheOf
  <2>4. pc'[t] = label /\ ptr'[t] = CacheOf(key[t])
    BY <1>0, <2>1, <2>2 DEF RequestsType
  <2>5. /\ \A k : Pinned(k)' <=> Pinned(k)
        /\ IsFlagSet(PRELOAD_STAT) /\ UseCache /\ key[t] \notin robbed => Pinned(key[t])
    BY <1>0, <2>1 DEF Pinned, StatInv, OnPath
  <2>6. Pinned(key[t]) /\ UseCache => CacheOf(key[t]) # None
    BY <1>0, <2>2, RequestsAssumption DEF CacheOf, Pinned, RequestsType
  <2>7. CacheOf(key[t]) # None =>
           UseCache /\ entries[key[t]] # None /\ CacheOf(key[t]) = entries[key[t]].cache
    BY DEF CacheOf
  <2>8. StatInv(t)'
    BY <1>0, <2>1, <2>2, <2>4, <2>5, <2>6, <2>7, Modes, WaitPreloads DEF StatInv, OnPath
  <2> QED
    BY <2>1, <2>3, <2>8, Alone, MoveInv
<1> QED
  BY <1>1, <1>2, <1>3

LEMMA SizeInv ==
    ASSUME RequestsInv, NEW t \in Thread, IsFinished(t) \/ GetSize(t)
    PROVE  RequestsInv'
<1>0. FileInv(t) /\ StatInv(t) /\ RequestsType
  BY DEF RequestsInv
<1>1. /\ phase = "mounted"
      /\ UNCHANGED <<phase, cause, data, file, entries, state, size, robbed, key, ptr>>
      /\ pc[t] \in {"isFinished", "getSize"}
  BY DEF IsFinished, GetSize, At, Running, optionVars
<1>2. /\ key[t] \in Key /\ UseCache
      /\ IsFlagSet(PRELOAD_STAT) /\ key[t] \notin robbed =>
            Pinned(key[t]) /\ entries[key[t]] # None /\ ptr[t] = entries[key[t]].cache
      /\ (IsFlagSet(PRELOAD_STAT) /\ key[t] \notin robbed) \/ data.cacheLimit = 0 =>
            entries[key[t]] # None /\ ptr[t] = entries[key[t]].cache
      /\ IsFlagSet(WAIT_ON_STAT) /\ key[t] \notin robbed =>
            state[entries[key[t]].cache] = "finished"
  BY <1>0, <1>1, WaitPreloads DEF StatInv, OnPath
<1>3. IsFlagSet(PRELOAD_STAT) /\ key[t] \notin robbed => ~Dangling(t)
  BY <1>2 DEF Dangling, Owned, Present
<1>4. \A k : Pinned(k)' <=> Pinned(k)
  BY <1>1 DEF Pinned
<1>5. CASE IsFinished(t)
  <2>1. PICK next \in {"getSize", "reply"} :
           /\ Dangling(t) \/ (next = "getSize" <=> state[ptr[t]] = "finished")
           /\ pc' = [pc EXCEPT ![t] = next]
    BY <1>5 DEF IsFinished, Goto
  <2>2. pc[t] = "isFinished" /\ pc'[t] = next /\ UNCHANGED <<statbuf, sizes>>
    BY <1>0, <1>5, <2>1 DEF IsFinished, At, RequestsType
  <2>3. next = "reply" => ~IsFlagSet(WAIT_ON_STAT) \/ key[t] \in robbed
    BY <1>2, <1>3, <2>1, WaitPreloads
  <2>4. next = "getSize" /\ IsFlagSet(PRELOAD_STAT) /\ key[t] \notin robbed =>
           state[entries[key[t]].cache] = "finished"
    BY <1>2, <1>3, <2>1
  <2>5. StatInv(t)'
    BY <1>0, <1>1, <1>2, <1>4, <2>2, <2>3, <2>4, Modes, WaitPreloads DEF StatInv, OnPath
  <2> QED
    BY <1>1, <2>1, <2>2, <2>5, Alone, MoveInv
<1>6. CASE GetSize(t)
  <2>1. PICK n \in 0 .. MaxSize :
           /\ Dangling(t) \/ n = size[ptr[t]]
           /\ statbuf' = [statbuf EXCEPT ![t] = n]
           /\ sizes' = IF IsFlagSet(PRELOAD_STAT)
                       THEN [sizes EXCEPT ![key[t]] = n + 1] ELSE sizes
    BY <1>6 DEF GetSize
  <2>2. pc' = [pc EXCEPT ![t] = "reply"] /\ pc'[t] = "reply" /\ statbuf'[t] = n
    BY <1>0, <1>6, <2>1 DEF GetSize, Goto, RequestsType
  <2>3. sizes' \in [Key -> 0 .. MaxSize + 1]
    <3>1. n + 1 \in 0 .. MaxSize + 1
      BY RequestsAssumption
    <3> QED
      BY <1>0, <2>1, <3>1 DEF RequestsType
  <2>4. IsFlagSet(PRELOAD_STAT) /\ key[t] \notin robbed =>
           n = size[entries[key[t]].cache]
    BY <1>2, <1>3, <2>1
  <2>5. StatInv(t)'
    BY <1>0, <1>1, <1>2, <1>4, <2>2, <2>4, Modes, WaitPreloads DEF StatInv, OnPath
  <2> QED
    BY <1>1, <2>1, <2>2, <2>3, <2>5, Alone, MoveInv
<1> QED
  BY <1>5, <1>6

(* Requests about an open file: no invariant of theirs is at stake.           *)
LEMMA OpenFileInv ==
    ASSUME RequestsInv, NEW t \in Thread,
           Fgetattr(t) \/ FileWaited(t) \/ Read(t) \/ ReadReturns(t)
    PROVE  RequestsInv'
<1>1. /\ phase = "mounted"
      /\ UNCHANGED <<phase, cause, data, file, entries, state, size, sizes, robbed, key, ptr>>
  BY DEF Fgetattr, FileWaited, Read, ReadReturns, At, Running, optionVars
<1>2. \E label \in {"idle", "fileWaiting", "fileReply", "reading"} :
         pc' = [pc EXCEPT ![t] = label]
  BY DEF Fgetattr, FileWaited, Read, ReadReturns, Goto
<1>3. \E n \in 0 .. MaxSize : statbuf' = [statbuf EXCEPT ![t] = n]
  <2>1. CASE Fgetattr(t)
    <3>1. SizeOf(file[t].cache) \in 0 .. MaxSize
      BY RequestsAssumption DEF SizeOf, RequestsInv, RequestsType
    <3> QED
      BY <2>1, <3>1 DEF Fgetattr
  <2>2. CASE UNCHANGED statbuf
    BY <2>2, Alone
  <2> QED
    BY <2>1, <2>2 DEF FileWaited, Read, ReadReturns
<1>4. pc'[t] \in {"idle", "fileWaiting", "fileReply", "reading"}
  BY <1>2 DEF RequestsInv, RequestsType
<1>5. StatInv(t)'
  BY <1>4 DEF StatInv, OnPath
<1> QED
  BY <1>1, <1>2, <1>3, <1>5, Alone, MoveInv

LEMMA ReplyInv ==
    ASSUME RequestsInv, NEW t \in Thread, Reply(t)
    PROVE  RequestsInv'
<1>0. FileInv(t) /\ RequestsType
  BY DEF RequestsInv
<1>1. /\ phase = "mounted" /\ UNCHANGED <<phase, cause, data, entries, state, size, sizes, robbed>>
      /\ pc' = [pc EXCEPT ![t] = "idle"] /\ file' = [file EXCEPT ![t] = file[t]]
      /\ ptr' = [ptr EXCEPT ![t] = None] /\ statbuf' = [statbuf EXCEPT ![t] = 0]
      /\ file[t].open => key' = key
      /\ ~file[t].open => key' = [key EXCEPT ![t] = None]
  BY DEF Reply, End, Goto, Running, optionVars
<1>2. file' = file
  BY <1>0, <1>1 DEF RequestsType
<1>4. RequestsType'
  BY <1>0, <1>1, <1>2, RequestsAssumption DEF RequestsType, RequestsAssumption
<1>5. pc'[t] = "idle" /\ (file[t].open => key'[t] = key[t])
  BY <1>0, <1>1 DEF RequestsType
<1>6. StatInv(t)'
  BY <1>5 DEF StatInv, OnPath
<1>7. \A u \in Thread : u # t =>
         pc'[u] = pc[u] /\ key'[u] = key[u] /\ ptr'[u] = ptr[u] /\ statbuf'[u] = statbuf[u]
  BY <1>0, <1>1 DEF RequestsType
<1> QED
  BY <1>1, <1>2, <1>4, <1>5, <1>6, <1>7, PathStep

LEMMA EntryFacts ==
    ASSUME NEW o \in Object, NEW spare \in Int
    PROVE  /\ Entry(o, spare) \in [cache : Object, spare : Int]
           /\ Entry(o, spare).cache = o
           /\ Entry(o, spare).spare = spare
           /\ Entry(o, spare) # None
<1>1. /\ Entry(o, spare) \in [cache : Object, spare : Int]
      /\ Entry(o, spare).cache = o /\ Entry(o, spare).spare = spare
  BY DEF Entry
<1> QED
  BY <1>1, RequestsAssumption

(* What becomes of the uses of an entry that are never given back.            *)
LEMMA SpareFacts ==
    ASSUME RequestsType, NEW k \in Key
    PROVE  /\ Spare(k) \in Int /\ More(Spare(k)) \in Int
           /\ Pinned(k) => Spare(k) > 0
           /\ Spare(k) >= 0 => More(Spare(k)) > 0
           /\ entries[k] # None => Spare(k) = entries[k].spare
           /\ SparesInv /\ k \notin robbed => Spare(k) >= 0
<1>1. CASE entries[k] = None
  BY <1>1 DEF Spare, More, Pinned
<1>2. CASE entries[k] # None
  <2>1. Spare(k) = entries[k].spare /\ entries[k].spare \in Int
    BY <1>2 DEF Spare, RequestsType
  <2> QED
    BY <1>2, <2>1 DEF More, Pinned, SparesInv
<1> QED
  BY <1>1, <1>2

(* caches.get(): the entry has the cache, and nobody else is affected.        *)
LEMMA GetsInv ==
    ASSUME RequestsInv, NEW k \in Key, NEW o \in Object, GetNew(k, o) \/ GetShared(k, o),
           NEW spare \in {Spare(k), More(Spare(k))}, UNCHANGED robbed,
           entries' = [entries EXCEPT ![k] = Entry(o, spare)]
    PROVE  /\ entries'[k] # None /\ entries'[k].cache = o
           /\ spare = More(Spare(k)) /\ k \notin robbed => Pinned(k)'
           /\ \A j \in Key : entries[j] # None =>
                 /\ entries'[j] # None /\ entries'[j].cache = entries[j].cache
                 /\ Pinned(j) => Pinned(j)'
           /\ \A j \in Present : state[entries[j].cache] = "finished" =>
                 /\ state'[entries[j].cache] = "finished"
                 /\ size'[entries[j].cache] = size[entries[j].cache]
           /\ \A u \in Thread : SettingUp(u) => state'[SetUpCache(u)] = "new"
           /\ GetNew(k, o) => /\ state'[o] = "new"
                              /\ \A u \in Thread : SettingUp(u) => SetUpCache(u) # o
           /\ SparesInv'
           /\ entries' \in [Key -> [cache : Object, spare : Int] \cup {None}]
           /\ state' \in [Object -> {"new", "orphaned", "running", "finished"}]
           /\ size' \in [Object -> 0 .. MaxSize]
<1>0. RequestsType /\ SparesInv
  BY DEF RequestsInv
<1>1. /\ spare \in Int /\ (Pinned(k) => spare > 0)
      /\ k \notin robbed => spare >= 0 /\ (spare = More(Spare(k)) => spare > 0)
  BY <1>0, SpareFacts
<1>2. /\ Entry(o, spare) \in [cache : Object, spare : Int] /\ Entry(o, spare).cache = o
      /\ Entry(o, spare).spare = spare /\ Entry(o, spare) # None
  BY <1>1, EntryFacts
<1>3. entries'[k] = Entry(o, spare) /\ \A j \in Key : j # k => entries'[j] = entries[j]
  BY <1>0 DEF RequestsType
<1>4. \A u \in Thread : SettingUp(u) => state[SetUpCache(u)] = "new" /\ SetUpCache(u) \in Object
  BY <1>0 DEF RequestsInv, FileInv, RequestsType, SetUpCache
<1>5. /\ entries'[k] # None /\ entries'[k].cache = o
      /\ spare = More(Spare(k)) /\ k \notin robbed => Pinned(k)'
      /\ \A j \in Key : Pinned(j) => Pinned(j)'
  BY <1>1, <1>2, <1>3 DEF Pinned
<1>6. SparesInv'
  BY <1>0, <1>1, <1>2, <1>3 DEF SparesInv
<1>7. entries' \in [Key -> [cache : Object, spare : Int] \cup {None}]
  BY <1>0, <1>2 DEF RequestsType
<1>8. CASE GetShared(k, o)
  <2>1. entries[k] # None /\ o = entries[k].cache /\ UNCHANGED <<state, size>>
    BY <1>8 DEF GetShared
  <2>2. \A j \in Key : entries[j] # None =>
           entries'[j] # None /\ entries'[j].cache = entries[j].cache
    BY <1>2, <1>3, <2>1
  <2> QED
    BY <1>0, <1>4, <1>5, <1>6, <1>7, <2>1, <2>2 DEF RequestsType, GetNew
<1>9. CASE GetNew(k, o)
  <2>1. /\ entries[k] = None /\ o \notin Owned
        /\ state' = [state EXCEPT ![o] = "new"] /\ size' = [size EXCEPT ![o] = 0]
    BY <1>9 DEF GetNew, Free
  <2>2. \A u \in Thread : SettingUp(u) => SetUpCache(u) # o
    BY <2>1 DEF Owned, SettingUp, SetUpCache
  <2>3. \A j \in Present : entries[j].cache # o /\ entries[j].cache \in Object
    BY <1>0, <2>1 DEF Owned, Present, RequestsType
  <2>4. /\ state' \in [Object -> {"new", "orphaned", "running", "finished"}]
        /\ size' \in [Object -> 0 .. MaxSize]
    BY <1>0, <2>1, RequestsAssumption DEF RequestsType
  <2>5. \A j \in Present : state'[entries[j].cache] = state[entries[j].cache]
                           /\ size'[entries[j].cache] = size[entries[j].cache]
    BY <1>0, <2>1, <2>3 DEF RequestsType
  <2>6. state'[o] = "new" /\ \A p \in Object : state[p] = "new" => state'[p] = "new"
    BY <1>0, <2>1 DEF RequestsType
  <2>7. \A j \in Key : entries[j] # None => entries'[j] = entries[j]
    BY <1>3, <2>1
  <2>8. /\ \A j \in Present : state[entries[j].cache] = "finished" =>
              /\ state'[entries[j].cache] = "finished"
              /\ size'[entries[j].cache] = size[entries[j].cache]
        /\ \A u \in Thread : SettingUp(u) => state'[SetUpCache(u)] = "new"
    BY <1>4, <2>5, <2>6
  <2> QED
    BY <1>5, <1>6, <1>7, <2>2, <2>4, <2>6, <2>7, <2>8
<1> QED
  BY <1>8, <1>9

(* preload(), in cache mode. *)
LEMMA PreloadGetsInv ==
    ASSUME RequestsInv, NEW t \in Thread, phase = "mounted", UseCache,
           UNCHANGED <<phase, cause, data, key, file, statbuf, sizes, robbed>>,
           NEW k \in Key, NEW next, NEW setUp, PreloadGets(t, k, setUp, next),
           \/ /\ pc[t] = "preload" /\ key[t] = k
              /\ setUp = "statSetUp" /\ next = AfterPreload
           \/ pc[t] = "idle" /\ setUp = "listSetUp" /\ next = "idle"
    PROVE  RequestsInv'
<1>0. FileInv(t) /\ StatInv(t) /\ RequestsType
  BY DEF RequestsInv
<1>1. PICK o \in Object :
         /\ UseForEver(k, o)
         /\ \/ GetNew(k, o) /\ Goto(t, setUp) /\ ptr' = [ptr EXCEPT ![t] = o]
            \/ GetShared(k, o) /\ Goto(t, next) /\ UNCHANGED ptr
  BY DEF PreloadGets
<1>2. /\ entries'[k] # None /\ entries'[k].cache = o /\ (k \notin robbed => Pinned(k)')
      /\ SparesInv'
      /\ \A j \in Key : entries[j] # None =>
            /\ entries'[j] # None /\ entries'[j].cache = entries[j].cache
            /\ Pinned(j) => Pinned(j)'
      /\ \A j \in Present : state[entries[j].cache] = "finished" =>
            /\ state'[entries[j].cache] = "finished"
            /\ size'[entries[j].cache] = size[entries[j].cache]
      /\ \A u \in Thread : SettingUp(u) => state'[SetUpCache(u)] = "new"
      /\ GetNew(k, o) => /\ state'[o] = "new"
                         /\ \A u \in Thread : SettingUp(u) => SetUpCache(u) # o
      /\ entries' \in [Key -> [cache : Object, spare : Int] \cup {None}]
      /\ state' \in [Object -> {"new", "orphaned", "running", "finished"}]
      /\ size' \in [Object -> 0 .. MaxSize]
  BY <1>1, GetsInv DEF UseForEver
<1>3. AfterPreload \in {"wait", "correct"} /\ (AfterPreload = "wait" <=> IsFlagSet(WAIT_ON_STAT))
  BY DEF AfterPreload
<1>4. \E label \in {"statSetUp", "listSetUp", "wait", "correct", "idle"} :
         pc' = [pc EXCEPT ![t] = label]
  BY <1>1, <1>3 DEF Goto
<1>5. ptr' \in [Thread -> Object \cup {None}]
  BY <1>0, <1>1 DEF RequestsType
<1>6. RequestsType'
  <2>1. PICK label \in {"statSetUp", "listSetUp", "wait", "correct", "idle"} :
           pc' = [pc EXCEPT ![t] = label]
    BY <1>4
  <2>2. pc' \in [Thread -> {"idle", "preload", "statSetUp", "listSetUp", "wait", "waiting",
                           "correct", "isFinished", "getSize", "reply", "fileWaiting",
                           "fileReply", "openSetUp", "reading", "cleanup"}]
    BY <1>0, <2>1 DEF RequestsType
  <2> QED
    BY <1>0, <1>2, <1>5, <2>2 DEF RequestsType
<1>7. \A u \in Thread : u # t => pc'[u] = pc[u] /\ ptr'[u] = ptr[u]
  BY <1>0, <1>1 DEF RequestsType, Goto
<1>15. \A j \in Key : Pinned(j) => entries[j] # None
  BY DEF Pinned
<1>8. Keeps(t)
  BY <1>2, <1>7, <1>15 DEF Keeps
<1>9. o # None
  BY RequestsAssumption
<1>10. \/ /\ GetNew(k, o) /\ pc'[t] = setUp /\ ptr'[t] = o
       \/ pc'[t] = next
  BY <1>0, <1>1 DEF RequestsType, Goto
<1>11. pc[t] # "openSetUp" /\ pc'[t] # "openSetUp"
  BY <1>3, <1>10
<1>12. FileInv(t)'
  <2>1. CASE GetNew(k, o) /\ pc'[t] = setUp /\ ptr'[t] = o
    <3>1. SetUpCache(t)' = o /\ state'[o] = "new" /\ setUp \in {"statSetUp", "listSetUp"}
      BY <1>2, <2>1 DEF SetUpCache
    <3> QED
      BY <1>0, <1>9, <1>11, <2>1, <3>1, Modes DEF FileInv
  <2>2. CASE pc'[t] = next
    BY <1>0, <1>3, <1>11, <2>2, Modes DEF FileInv, SettingUp
  <2> QED
    BY <1>10, <2>1, <2>2
<1>13. StatInv(t)'
  <2>1. CASE pc'[t] \in {"listSetUp", "idle"}
    BY <2>1 DEF StatInv, OnPath
  <2>2. CASE pc[t] = "preload" /\ key[t] = k /\ pc'[t] \in {"statSetUp", AfterPreload}
    BY <1>0, <1>2, <1>3, <2>2, Modes, WaitPreloads DEF StatInv, OnPath
  <2> QED
    BY <1>10, <2>1, <2>2
<1>14. \A u \in Thread : u # t /\ SettingUp(t)' /\ SettingUp(u) => SetUpCache(u) # SetUpCache(t)'
  <2>1. CASE GetNew(k, o) /\ pc'[t] = setUp /\ ptr'[t] = o
    <3>1. SetUpCache(t)' = o
      BY <2>1 DEF SetUpCache
    <3> QED
      BY <1>2, <2>1, <3>1
  <2>2. CASE pc'[t] = next
    BY <1>3, <2>2 DEF SettingUp
  <2> QED
    BY <1>10, <2>1, <2>2
<1> QED
  BY <1>2, <1>6, <1>8, <1>12, <1>13, <1>14, ThreadStep

LEMMA PreloadInv ==
    ASSUME RequestsInv, NEW t \in Thread,
           Preload(t) \/ \E k \in Key : Readdir(t, k)
    PROVE  RequestsInv'
<1>0. FileInv(t) /\ StatInv(t) /\ RequestsType
  BY DEF RequestsInv
<1>1. CASE Preload(t) /\ UseCache
  <2>1. /\ phase = "mounted" /\ pc[t] = "preload" /\ key[t] \in Key
        /\ UNCHANGED <<phase, cause, data, key, file, statbuf, sizes, robbed>>
        /\ PreloadGets(t, key[t], "statSetUp", AfterPreload)
    BY <1>0, <1>1 DEF Preload, At, Running, optionVars, StatInv
  <2> QED
    BY <1>1, <2>1, PreloadGetsInv
<1>2. CASE Preload(t) /\ ~UseCache
  <2>1. /\ phase = "mounted" /\ pc[t] = "preload" /\ pc' = [pc EXCEPT ![t] = AfterPreload]
        /\ UNCHANGED <<phase, cause, data, key, file, statbuf, sizes, robbed, ptr, entries, state, size>>
    BY <1>2 DEF Preload, At, Running, Goto, optionVars
  <2>2. AfterPreload \in {"wait", "correct"} /\ (AfterPreload = "wait" <=> IsFlagSet(WAIT_ON_STAT))
    BY DEF AfterPreload
  <2>3. pc'[t] = AfterPreload
    BY <1>0, <2>1 DEF RequestsType
  <2>4. StatInv(t)'
    BY <1>0, <1>2, <2>1, <2>2, <2>3, Modes DEF StatInv, OnPath
  <2> QED
    BY <2>1, <2>2, <2>4, Alone, MoveInv
<1>3. ASSUME NEW k \in Key, Readdir(t, k)
      PROVE  RequestsInv'
  <2>1. /\ phase = "mounted" /\ UseCache /\ pc[t] = "idle"
        /\ UNCHANGED <<phase, cause, data, key, file, statbuf, sizes, robbed>>
        /\ PreloadGets(t, k, "listSetUp", "idle")
    BY <1>3 DEF Readdir, At, Running, optionVars
  <2> QED
    BY <2>1, PreloadGetsInv
<1> QED
  BY <1>1, <1>2, <1>3

LEMMA SetUpInv ==
    ASSUME RequestsInv, NEW t \in Thread, SetUp(t)
    PROVE  RequestsInv'
<1>0. FileInv(t) /\ StatInv(t) /\ RequestsType
  BY DEF RequestsInv
<1> DEFINE label == IF pc[t] = "listSetUp" THEN "idle" ELSE AfterPreload
<1>1. /\ phase = "mounted" /\ pc[t] \in {"statSetUp", "listSetUp"}
      /\ UNCHANGED <<phase, cause, data, key, file, statbuf, entries, size, sizes, robbed>>
      /\ pc' = [pc EXCEPT ![t] = label] /\ ptr' = [ptr EXCEPT ![t] = None]
  BY DEF SetUp, Running, Goto, optionVars
<1>2. PICK next \in {"running", "orphaned"} : state' = [state EXCEPT ![ptr[t]] = next]
  BY DEF SetUp, Becomes
<1>3. SettingUp(t) /\ SetUpCache(t) = ptr[t] /\ ptr[t] \in Object /\ state[ptr[t]] = "new"
  BY <1>0, <1>1 DEF SettingUp, SetUpCache, FileInv, RequestsType
<1>4. label \in {"idle", "wait", "correct"}
      /\ (label = "wait" => IsFlagSet(WAIT_ON_STAT) /\ pc[t] = "statSetUp")
      /\ (label = "correct" => ~IsFlagSet(WAIT_ON_STAT) /\ pc[t] = "statSetUp")
  BY <1>1 DEF AfterPreload
<1>5. pc'[t] = label
  BY <1>0, <1>1 DEF RequestsType
<1> HIDE DEF label
<1>6. RequestsType'
  BY <1>0, <1>1, <1>2, <1>3, <1>4 DEF RequestsType
<1>7. \A o \in Object : o # ptr[t] => state'[o] = state[o]
  BY <1>0, <1>2 DEF RequestsType
<1>8. \A k : Pinned(k)' <=> Pinned(k)
  BY <1>1 DEF Pinned
<1>9. Keeps(t)
  <2>1. \A j \in Present : state[entries[j].cache] = "finished" =>
           state'[entries[j].cache] = "finished"
    BY <1>0, <1>3, <1>7 DEF Present, RequestsType
  <2>2. \A u \in Thread : u # t /\ SettingUp(u) => state'[SetUpCache(u)] = "new"
    <3> SUFFICES ASSUME NEW u \in Thread, u # t, SettingUp(u)
                 PROVE  state'[SetUpCache(u)] = "new"
      OBVIOUS
    <3>1. SetUpCache(u) # ptr[t]
      BY <1>3 DEF RequestsInv, SetUpsApart
    <3>2. SetUpCache(u) \in Object /\ state[SetUpCache(u)] = "new"
      BY <1>0 DEF RequestsInv, FileInv, SetUpCache, RequestsType
    <3> QED
      BY <1>7, <3>1, <3>2
  <2>3. \A u \in Thread : u # t => pc'[u] = pc[u] /\ ptr'[u] = ptr[u]
    BY <1>0, <1>1 DEF RequestsType
  <2> QED
    BY <1>1, <1>8, <2>1, <2>2, <2>3 DEF Keeps
<1>10. FileInv(t)' /\ ~SettingUp(t)'
  BY <1>0, <1>1, <1>4, <1>5, Modes DEF FileInv, SettingUp
<1>11. StatInv(t)'
  BY <1>0, <1>1, <1>4, <1>5, <1>8, Modes DEF StatInv, OnPath
<1>12. SparesInv'
  BY <1>1 DEF RequestsInv, SparesInv
<1> QED
  BY <1>1, <1>6, <1>9, <1>10, <1>11, <1>12, ThreadStep

LEMMA OpenInv ==
    ASSUME RequestsInv, NEW t \in Thread, NEW k \in Key, Open(t, k)
    PROVE  RequestsInv'
<1>0. FileInv(t) /\ StatInv(t) /\ RequestsType
  BY DEF RequestsInv
<1>1. ~file[t].open /\ UNCHANGED <<phase, cause, data, ptr, statbuf, sizes, robbed>>
  BY DEF Open, optionVars
<1>2. ASSUME NEW label \in {"openSetUp", "idle"}, Begin(t, k, label)
      PROVE  /\ phase = "mounted" /\ pc[t] = "idle" /\ pc' = [pc EXCEPT ![t] = label]
             /\ key' = [key EXCEPT ![t] = k] /\ pc'[t] = label /\ key'[t] = k
             /\ \A u \in Thread : u # t => pc'[u] = pc[u] /\ key'[u] = key[u]
  BY <1>0, <1>1, <1>2 DEF Begin, At, Running, Goto, RequestsType
<1>3. ASSUME NEW o \in Object \cup {None}, file' = [file EXCEPT ![t] = File(TRUE, o)]
      PROVE  /\ file' \in [Thread -> [open : BOOLEAN, cache : Object \cup {None}]]
             /\ file'[t].cache = o /\ file'[t].open
             /\ \A u \in Thread : u # t => file'[u] = file[u]
  BY <1>0, <1>3 DEF RequestsType, File
<1>4. CASE OpenCached(t, k)
  <2>1. PICK o \in Object :
           /\ UseWhileOpen(k, o)
           /\ \/ GetNew(k, o) /\ Begin(t, k, "openSetUp")
              \/ GetShared(k, o) /\ Begin(t, k, "idle")
           /\ file' = [file EXCEPT ![t] = File(TRUE, o)]
    BY <1>4 DEF OpenCached
  <2>2. UseCache /\ o # None
    BY <1>4, RequestsAssumption DEF OpenCached
  <2>3. entries' = [entries EXCEPT ![k] = Entry(o, Spare(k))]
    BY <2>1 DEF UseWhileOpen
  <2>4. /\ entries'[k] # None /\ entries'[k].cache = o /\ SparesInv'
        /\ \A j \in Key : entries[j] # None =>
              /\ entries'[j] # None /\ entries'[j].cache = entries[j].cache
              /\ Pinned(j) => Pinned(j)'
        /\ \A j \in Present : state[entries[j].cache] = "finished" =>
              /\ state'[entries[j].cache] = "finished"
              /\ size'[entries[j].cache] = size[entries[j].cache]
        /\ \A u \in Thread : SettingUp(u) => state'[SetUpCache(u)] = "new"
        /\ GetNew(k, o) => /\ state'[o] = "new"
                           /\ \A u \in Thread : SettingUp(u) => SetUpCache(u) # o
        /\ entries' \in [Key -> [cache : Object, spare : Int] \cup {None}]
        /\ state' \in [Object -> {"new", "orphaned", "running", "finished"}]
        /\ size' \in [Object -> 0 .. MaxSize]
    BY <1>1, <2>1, <2>3, GetsInv
  <2>5. /\ file' \in [Thread -> [open : BOOLEAN, cache : Object \cup {None}]]
        /\ file'[t].cache = o /\ file'[t].open
        /\ \A u \in Thread : u # t => file'[u] = file[u]
    BY <1>3, <2>1
  <2>6. PICK label \in {"openSetUp", "idle"} :
           Begin(t, k, label) /\ (label = "openSetUp" => GetNew(k, o))
    BY <2>1
  <2>7. /\ phase = "mounted" /\ pc' = [pc EXCEPT ![t] = label]
        /\ key' = [key EXCEPT ![t] = k] /\ pc'[t] = label /\ key'[t] = k
        /\ \A u \in Thread : u # t => pc'[u] = pc[u] /\ key'[u] = key[u]
    BY <1>2, <2>6
  <2>8. RequestsType'
    BY <1>0, <1>1, <2>4, <2>5, <2>7 DEF RequestsType
  <2>14. \A j \in Key : Pinned(j) => entries[j] # None
    BY DEF Pinned
  <2>9. Keeps(t)
    BY <1>1, <2>4, <2>5, <2>7, <2>14 DEF Keeps
  <2>10. SettingUp(t)' => GetNew(k, o) /\ SetUpCache(t)' = o
    BY <2>5, <2>6, <2>7 DEF SettingUp, SetUpCache
  <2>11. FileInv(t)'
    BY <1>1, <2>2, <2>4, <2>5, <2>7, <2>10, Modes DEF FileInv
  <2>12. StatInv(t)'
    BY <2>7 DEF StatInv, OnPath
  <2>13. \A u \in Thread : u # t /\ SettingUp(t)' /\ SettingUp(u) => SetUpCache(u) # SetUpCache(t)'
    BY <2>4, <2>10
  <2> QED
    BY <1>1, <2>4, <2>7, <2>8, <2>9, <2>11, <2>12, <2>13, ThreadStep
<1>5. CASE OpenUncached(t, k)
  <2>1. ~UseCache /\ Begin(t, k, "idle") /\ UNCHANGED entries
    BY <1>5 DEF OpenUncached
  <2>2. /\ phase = "mounted" /\ pc' = [pc EXCEPT ![t] = "idle"]
        /\ key' = [key EXCEPT ![t] = k] /\ pc'[t] = "idle" /\ key'[t] = k
        /\ \A u \in Thread : u # t => pc'[u] = pc[u] /\ key'[u] = key[u]
    BY <1>2, <2>1
  <2>3. \A j : Pinned(j)' <=> Pinned(j)
    BY <2>1 DEF Pinned
  <2>4. ASSUME NEW o \in Object \cup {None}, file' = [file EXCEPT ![t] = File(TRUE, o)],
               Seekable => o # None,
               state' \in [Object -> {"new", "orphaned", "running", "finished"}],
               size' \in [Object -> 0 .. MaxSize],
               \A p \in Owned \cap Object : state'[p] = state[p] /\ size'[p] = size[p]
        PROVE  RequestsInv'
    <3>1. /\ file' \in [Thread -> [open : BOOLEAN, cache : Object \cup {None}]]
          /\ file'[t].cache = o /\ file'[t].open
          /\ \A u \in Thread : u # t => file'[u] = file[u]
      BY <1>3, <2>4
    <3>2. RequestsType'
      BY <1>0, <1>1, <2>1, <2>2, <2>4, <3>1 DEF RequestsType
    <3>3. \A j \in Present : entries[j].cache \in Owned \cap Object
      BY <1>0 DEF Owned, Present, RequestsType
    <3>4. \A u \in Thread : SettingUp(u) =>
             SetUpCache(u) \in Owned \cap Object /\ state[SetUpCache(u)] = "new"
      BY <1>0 DEF RequestsInv, FileInv, Owned, SettingUp, SetUpCache, RequestsType
    <3>5. Keeps(t)
      BY <1>1, <2>1, <2>2, <2>3, <2>4, <3>1, <3>3, <3>4 DEF Keeps
    <3>6. FileInv(t)' /\ ~SettingUp(t)'
      BY <1>1, <2>1, <2>2, <2>4, <3>1, Modes DEF FileInv, SettingUp
    <3>7. StatInv(t)'
      BY <2>2 DEF StatInv, OnPath
    <3>8. SparesInv'
      BY <1>1, <2>1 DEF RequestsInv, SparesInv
    <3> QED
      BY <1>1, <2>2, <3>2, <3>5, <3>6, <3>7, <3>8, ThreadStep
  <2>5. CASE Seekable
    <3>1. PICK o \in Free : /\ Becomes(o, "running")
                            /\ size' = [size EXCEPT ![o] = 0]
                            /\ file' = [file EXCEPT ![t] = File(TRUE, o)]
      BY <1>5, <2>5 DEF OpenUncached
    <3>2. o \in Object /\ o \notin Owned /\ o # None
      BY RequestsAssumption DEF Free
    <3>3. /\ state' \in [Object -> {"new", "orphaned", "running", "finished"}]
          /\ size' \in [Object -> 0 .. MaxSize]
          /\ \A p \in Owned \cap Object : state'[p] = state[p] /\ size'[p] = size[p]
      BY <1>0, <3>1, <3>2, RequestsAssumption DEF RequestsType, Becomes
    <3> QED
      BY <2>4, <3>1, <3>2, <3>3
  <2>6. CASE ~Seekable
    <3>1. file' = [file EXCEPT ![t] = File(TRUE, None)] /\ UNCHANGED <<state, size>>
      BY <1>5, <2>6 DEF OpenUncached
    <3> QED
      BY <1>0, <2>4, <2>6, <3>1 DEF RequestsType
  <2> QED
    BY <2>5, <2>6
<1> QED
  BY <1>4, <1>5 DEF Open

LEMMA OpenSetUpInv ==
    ASSUME RequestsInv, NEW t \in Thread, OpenSetUp(t) \/ OpenFails(t)
    PROVE  RequestsInv'
<1>0. FileInv(t) /\ StatInv(t) /\ RequestsType
  BY DEF RequestsInv
<1> DEFINE o == file[t].cache
<1>1. /\ phase = "mounted" /\ pc[t] = "openSetUp"
      /\ UNCHANGED <<phase, cause, data, statbuf, size, sizes, robbed>>
      /\ pc' = [pc EXCEPT ![t] = "idle"]
  BY DEF OpenSetUp, OpenFails, At, End, Running, Goto, optionVars
<1>2. /\ SettingUp(t) /\ SetUpCache(t) = o /\ state[o] = "new" /\ o \in Object /\ UseCache
      /\ file[t].open /\ key[t] \in Key /\ entries[key[t]] # None /\ entries[key[t]].cache = o
  BY <1>0, <1>1 DEF SettingUp, SetUpCache, FileInv, RequestsType
<1>3. PICK next \in {"running", "orphaned"} : state' = [state EXCEPT ![o] = next]
  BY DEF OpenSetUp, OpenFails, Becomes
<1>4. \A p \in Object : p # o => state'[p] = state[p]
  BY <1>0, <1>3 DEF RequestsType
<1>5. \A j \in Present : state[entries[j].cache] = "finished" =>
         /\ state'[entries[j].cache] = "finished"
         /\ size'[entries[j].cache] = size[entries[j].cache]
  BY <1>0, <1>1, <1>2, <1>4 DEF Present, RequestsType
<1>6. \A u \in Thread : u # t /\ SettingUp(u) => state'[SetUpCache(u)] = "new"
  <2> SUFFICES ASSUME NEW u \in Thread, u # t, SettingUp(u)
               PROVE  state'[SetUpCache(u)] = "new"
    OBVIOUS
  <2>1. SetUpCache(u) # o
    BY <1>2 DEF RequestsInv, SetUpsApart
  <2>2. SetUpCache(u) \in Object /\ state[SetUpCache(u)] = "new"
    BY <1>0 DEF RequestsInv, FileInv, SetUpCache, RequestsType
  <2> QED
    BY <1>4, <2>1, <2>2
<1>7. pc'[t] = "idle" /\ \A u \in Thread : u # t => pc'[u] = pc[u]
  BY <1>0, <1>1 DEF RequestsType
<1>8. state' \in [Object -> {"new", "orphaned", "running", "finished"}]
  BY <1>0, <1>3 DEF RequestsType
<1>9. StatInv(t)' /\ ~SettingUp(t)'
  BY <1>7 DEF StatInv, OnPath, SettingUp
<1> HIDE DEF o
<1>10. CASE OpenSetUp(t)
  <2>1. UNCHANGED <<key, file, ptr, entries>>
    BY <1>10 DEF OpenSetUp
  <2>2. RequestsType'
    BY <1>0, <1>1, <1>8, <2>1 DEF RequestsType
  <2>3. \A j : Pinned(j)' <=> Pinned(j)
    BY <2>1 DEF Pinned
  <2>4. Keeps(t)
    BY <1>1, <1>5, <1>6, <1>7, <2>1, <2>3 DEF Keeps
  <2>5. FileInv(t)' /\ SparesInv'
    BY <1>0, <1>1, <1>7, <1>9, <2>1, Modes DEF FileInv, RequestsInv, SparesInv
  <2> QED
    BY <1>1, <1>9, <2>2, <2>4, <2>5, ThreadStep
<1>11. CASE OpenFails(t)
  <2> DEFINE spare == More(Spare(key[t]))
  <2>1. /\ entries' = [entries EXCEPT ![key[t]] = Entry(o, spare)]
        /\ file' = [file EXCEPT ![t] = NotOpen] /\ ptr' = [ptr EXCEPT ![t] = None]
        /\ key' = [key EXCEPT ![t] = None]
    BY <1>11 DEF OpenFails, UseForEver, End, o, NotOpen, File
  <2>2. /\ spare \in Int /\ (Pinned(key[t]) => spare > 0)
        /\ key[t] \notin robbed => spare >= 0
    BY <1>0, <1>2, SpareFacts DEF RequestsInv
  <2> HIDE DEF spare
  <2>3. /\ Entry(o, spare) \in [cache : Object, spare : Int] /\ Entry(o, spare).cache = o
        /\ Entry(o, spare).spare = spare /\ Entry(o, spare) # None
    BY <1>2, <2>2, EntryFacts
  <2>12. /\ entries' \in [Key -> [cache : Object, spare : Int] \cup {None}]
        /\ entries'[key[t]] = Entry(o, spare)
        /\ \A j \in Key : j # key[t] => entries'[j] = entries[j]
    BY <1>0, <1>2, <2>1, <2>3 DEF RequestsType
  <2>4. NotOpen \in [open : BOOLEAN, cache : Object \cup {None}] /\ ~NotOpen.open
    BY DEF NotOpen, File
  <2>5. /\ file' \in [Thread -> [open : BOOLEAN, cache : Object \cup {None}]]
        /\ file'[t] = NotOpen /\ \A u \in Thread : u # t => file'[u] = file[u]
    BY <1>0, <2>1, <2>4 DEF RequestsType
  <2>6. /\ key' \in [Thread -> Key \cup {None}] /\ ptr' \in [Thread -> Object \cup {None}]
        /\ \A u \in Thread : u # t => key'[u] = key[u] /\ ptr'[u] = ptr[u]
    BY <1>0, <2>1 DEF RequestsType
  <2>7. RequestsType'
    BY <1>0, <1>1, <1>8, <2>12, <2>5, <2>6 DEF RequestsType
  <2>8. /\ \A j \in Key : Pinned(j) => Pinned(j)'
        /\ SparesInv'
    BY <1>1, <2>2, <2>3, <2>12 DEF Pinned, RequestsInv, SparesInv
  <2>9. \A j \in Key : entries[j] # None =>
           entries'[j] # None /\ entries'[j].cache = entries[j].cache
    BY <1>2, <2>3, <2>12
  <2>10. Keeps(t)
    BY <1>1, <1>5, <1>6, <1>7, <2>5, <2>6, <2>8, <2>9 DEF Keeps
  <2>11. FileInv(t)'
    BY <1>7, <1>9, <2>4, <2>5 DEF FileInv
  <2> QED
    BY <1>1, <1>9, <2>7, <2>8, <2>10, <2>11, ThreadStep
<1> QED
  BY <1>10, <1>11

(* The use that a release gives back, or takes from another file.             *)
LEMMA GiveBackFacts ==
    ASSUME RequestsInv, NEW t \in Thread, key[t] \in Key,
           GiveBack(t) \/ UNCHANGED <<entries, robbed>>
    PROVE  /\ robbed \subseteq robbed' /\ robbed' \subseteq Key
           /\ entries' \in [Key -> [cache : Object, spare : Int] \cup {None}]
           /\ SparesInv'
           /\ \A k \in Key : entries[k] # None =>
                 entries'[k] # None /\ entries'[k].cache = entries[k].cache
           /\ \A k \in Key : Pinned(k) /\ k \notin robbed' => Pinned(k)'
<1>0. RequestsType /\ SparesInv
  BY DEF RequestsInv
<1>1. CASE UNCHANGED <<entries, robbed>>
  BY <1>0, <1>1 DEF RequestsType, SparesInv, Pinned
<1>2. CASE ~OwnUse(t) /\ GiveBack(t)
  <2>1. robbed' = IF entries[key[t]] = None THEN robbed ELSE robbed \cup {key[t]}
    BY <1>2 DEF GiveBack
  <2>2. PICK many \in BOOLEAN :
           entries' = [k \in Key |->
               IF k = key[t] /\ entries[k] # None
               THEN Entry(entries[k].cache, Fewer(entries[k].spare, many))
               ELSE Lost(t, k)]
    BY <1>2 DEF GiveBack
  <2>3. robbed \subseteq robbed' /\ robbed' \subseteq Key
    BY <1>0, <2>1 DEF RequestsType
  <2>4. ASSUME NEW k \in Key, entries[k] = None
        PROVE  entries'[k] = None
    BY <2>2, <2>4 DEF Lost
  <2>5. ASSUME NEW k \in Key, entries[k] # None
        PROVE  \E n \in Int :
                  /\ entries'[k] = Entry(entries[k].cache, n)
                  /\ k \notin robbed' => n >= entries[k].spare
                  /\ k \notin robbed' /\ entries[k].spare > 0 => n > 0
    <3>1. entries[k].cache \in Object /\ entries[k].spare \in Int
          /\ entries[k] = Entry(entries[k].cache, entries[k].spare)
      BY <1>0, <2>5 DEF RequestsType, Entry
    <3>2. CASE k = key[t]
      <4>1. k \in robbed' /\ Fewer(entries[k].spare, many) \in Int
        BY <2>1, <2>5, <3>1, <3>2 DEF Fewer
      <4> QED
        BY <2>2, <2>5, <3>2, <4>1
    <3>3. CASE k # key[t] /\ entries[k].cache = file[t].cache
      <4>1. entries'[k] = Entry(entries[k].cache, More(entries[k].spare))
        BY <2>2, <2>5, <3>3 DEF Lost
      <4>2. /\ More(entries[k].spare) \in Int
            /\ More(entries[k].spare) >= entries[k].spare
        BY <3>1 DEF More
      <4> QED
        BY <3>1, <4>1, <4>2
    <3>4. CASE k # key[t] /\ entries[k].cache # file[t].cache
      <4>1. entries'[k] = entries[k]
        BY <2>2, <2>5, <3>4 DEF Lost
      <4> QED
        BY <3>1, <4>1
    <3> QED
      BY <3>2, <3>3, <3>4
  <2>6. ASSUME NEW k \in Key, entries[k] # None
        PROVE  /\ entries'[k] \in [cache : Object, spare : Int] /\ entries'[k] # None
               /\ entries'[k].cache = entries[k].cache
               /\ k \notin robbed' => entries'[k].spare >= entries[k].spare
               /\ k \notin robbed' /\ entries[k].spare > 0 => entries'[k].spare > 0
    <3>1. PICK n \in Int :
             /\ entries'[k] = Entry(entries[k].cache, n)
             /\ k \notin robbed' => n >= entries[k].spare
             /\ k \notin robbed' /\ entries[k].spare > 0 => n > 0
      BY <2>5, <2>6
    <3>2. entries[k].cache \in Object
      BY <1>0, <2>6 DEF RequestsType
    <3> QED
      BY <3>1, <3>2, EntryFacts
  <2>7. entries' \in [Key -> [cache : Object, spare : Int] \cup {None}]
    <3>1. \A k \in Key : entries'[k] \in [cache : Object, spare : Int] \cup {None}
      BY <2>4, <2>6
    <3>2. entries' = [k \in Key |-> entries'[k]]
      BY <2>2
    <3> QED
      BY <3>1, <3>2
  <2>8. SparesInv'
    <3> SUFFICES ASSUME NEW k \in Key, k \notin robbed', entries'[k] # None
                 PROVE  entries'[k].spare >= 0
      BY DEF SparesInv
    <3>1. entries[k] # None /\ entries[k].spare \in Int /\ entries[k].spare >= 0
      BY <1>0, <2>3, <2>4 DEF SparesInv, RequestsType
    <3>2. entries'[k].spare \in Int /\ entries'[k].spare >= entries[k].spare
      BY <2>6, <3>1
    <3> QED
      BY <3>1, <3>2
  <2>9. \A k \in Key : Pinned(k) /\ k \notin robbed' => Pinned(k)'
    BY <2>6 DEF Pinned
  <2> QED
    BY <2>3, <2>6, <2>7, <2>8, <2>9
<1> QED
  BY <1>1, <1>2 DEF GiveBack

LEMMA ReleaseInv ==
    ASSUME RequestsInv, NEW t \in Thread, Release(t)
    PROVE  RequestsInv'
<1>0. FileInv(t) /\ StatInv(t) /\ RequestsType
  BY DEF RequestsInv
<1>1. phase = "mounted" /\ UNCHANGED <<phase, cause, data, statbuf, state, size, sizes>>
  BY DEF Release, At, Running, optionVars
<1>2. key[t] \in Key /\ (GiveBack(t) \/ UNCHANGED <<entries, robbed>>)
  BY <1>0 DEF Release, FileInv
<1>3. /\ robbed \subseteq robbed' /\ robbed' \subseteq Key
      /\ entries' \in [Key -> [cache : Object, spare : Int] \cup {None}]
      /\ SparesInv'
      /\ \A k \in Key : entries[k] # None =>
            entries'[k] # None /\ entries'[k].cache = entries[k].cache
      /\ \A k \in Key : Pinned(k) /\ k \notin robbed' => Pinned(k)'
  BY <1>2, GiveBackFacts
<1>4. ASSUME NEW label \in {"idle", "cleanup"}, NEW new, pc' = [pc EXCEPT ![t] = label],
             label = "cleanup" => data.cacheLimit > 0,
             file' = [file EXCEPT ![t] = new],
             new \in [open : BOOLEAN, cache : Object \cup {None}], ~new.open,
             key' = key \/ key' = [key EXCEPT ![t] = None],
             ptr' = ptr \/ ptr' = [ptr EXCEPT ![t] = None]
      PROVE  RequestsInv'
  <2>1. RequestsType'
    BY <1>0, <1>1, <1>3, <1>4 DEF RequestsType
  <2>2. \A u \in Thread : u # t =>
           pc'[u] = pc[u] /\ file'[u] = file[u] /\ key'[u] = key[u] /\ ptr'[u] = ptr[u]
    BY <1>0, <1>4 DEF RequestsType
  <2>3. \A u \in Thread : u # t /\ SettingUp(u) => state'[SetUpCache(u)] = "new"
    BY <1>1 DEF RequestsInv, FileInv
  <2>4. Keeps(t)
    BY <1>1, <1>3, <2>2, <2>3 DEF Keeps
  <2>5. pc'[t] = label /\ file'[t] = new
    BY <1>0, <1>4 DEF RequestsType
  <2>6. FileInv(t)' /\ StatInv(t)' /\ ~SettingUp(t)'
    BY <1>1, <1>4, <2>5 DEF FileInv, StatInv, OnPath, SettingUp
  <2> QED
    BY <1>1, <1>3, <2>1, <2>4, <2>6, ThreadStep
<1>5. /\ NotOpen \in [open : BOOLEAN, cache : Object \cup {None}] /\ ~NotOpen.open
      /\ File(FALSE, file[t].cache) \in [open : BOOLEAN, cache : Object \cup {None}]
      /\ ~File(FALSE, file[t].cache).open
  BY <1>0 DEF NotOpen, File, RequestsType
<1>6. CASE UseCache /\ data.cacheLimit > 0
  <2>1. /\ pc' = [pc EXCEPT ![t] = "cleanup"] /\ UNCHANGED <<key, ptr>>
        /\ file' = [file EXCEPT ![t] = File(FALSE, file[t].cache)]
    BY <1>6 DEF Release, Goto
  <2> QED
    BY <1>4, <1>5, <1>6, <2>1
<1>7. CASE ~(UseCache /\ data.cacheLimit > 0)
  <2>1. End(t, NotOpen)
    BY <1>7 DEF Release
  <2>2. /\ pc' = [pc EXCEPT ![t] = "idle"] /\ file' = [file EXCEPT ![t] = NotOpen]
        /\ ptr' = [ptr EXCEPT ![t] = None] /\ key' = [key EXCEPT ![t] = None]
    BY <1>5, <2>1 DEF End, Goto
  <2> QED
    BY <1>4, <1>5, <2>2
<1> QED
  BY <1>6, <1>7

(* A rename only changes the paths of open files that have no request.        *)
LEMMA RenameInv ==
    ASSUME RequestsInv, NEW k \in Key, NEW j \in Key, Rename(k, j)
    PROVE  RequestsInv'
<1>0. RequestsType
  BY DEF RequestsInv
<1>1. /\ phase = "mounted"
      /\ UNCHANGED <<phase, cause, data, pc, file, ptr, statbuf, entries, state, size, sizes, robbed>>
      /\ key' = [t \in Thread |-> IF key[t] = k THEN j ELSE key[t]]
      /\ \A t \in Thread : key[t] = k => pc[t] = "idle"
  BY DEF Rename, Running, optionVars
<1>2. RequestsType'
  BY <1>0, <1>1 DEF RequestsType
<1>3. \A i : Pinned(i)' <=> Pinned(i)
  BY <1>1 DEF Pinned
<1>4. SetUpsApart' /\ SparesInv' /\ (cause = "null" => ~Seekable)'
  BY <1>1, Modes DEF RequestsInv, SetUpsApart, SettingUp, SetUpCache, SparesInv
<1>5. ASSUME NEW t \in Thread
      PROVE  FileInv(t)' /\ StatInv(t)'
  <2>1. FileInv(t) /\ StatInv(t)
    BY DEF RequestsInv
  <2>2. key'[t] = key[t] \/ (pc[t] = "idle" /\ key'[t] \in Key)
    BY <1>1
  <2>3. FileInv(t)'
    BY <1>1, <2>1, <2>2, Modes DEF FileInv, SettingUp, SetUpCache
  <2>4. CASE pc[t] = "idle"
    BY <1>1, <2>3, <2>4 DEF StatInv, OnPath
  <2>5. CASE key'[t] = key[t]
    BY <1>1, <1>3, <2>1, <2>3, <2>5, Modes DEF StatInv, OnPath
  <2> QED
    BY <2>2, <2>4, <2>5
<1> QED
  BY <1>1, <1>2, <1>4, <1>5 DEF RequestsInv

LEMMA PinnedStays ==
    ASSUME RequestsType, NEW k \in Key, Pinned(k)
    PROVE  k \notin Evictable
<1>1. IsFiniteSet(Readers(k))
  BY RequestsAssumption, FS_Subset DEF Readers
<1>2. Cardinality(Readers(k)) \in Nat
  BY <1>1, FS_CardinalityType
<1>3. entries[k].spare \in Int /\ entries[k].spare > 0
  BY DEF Pinned, RequestsType
<1>4. usageCount(k) # 0
  BY <1>2, <1>3 DEF usageCount
<1> QED
  BY <1>4 DEF Evictable

LEMMA CleanupInv ==
    ASSUME RequestsInv, NEW t \in Thread, Cleanup(t)
    PROVE  RequestsInv'
<1>0. FileInv(t) /\ StatInv(t) /\ RequestsType
  BY DEF RequestsInv
<1>1. /\ phase = "mounted" /\ pc[t] = "cleanup"
      /\ UNCHANGED <<phase, cause, data, statbuf, state, size, sizes, robbed>>
  BY DEF Cleanup, At, Running, optionVars
<1>2. ~NotOpen.open /\ NotOpen \in [open : BOOLEAN, cache : Object \cup {None}]
  BY DEF NotOpen, File
<1>3. /\ pc' = [pc EXCEPT ![t] = "idle"] /\ file' = [file EXCEPT ![t] = NotOpen]
      /\ ptr' = [ptr EXCEPT ![t] = None] /\ key' = [key EXCEPT ![t] = None]
  BY <1>2 DEF Cleanup, End, Goto
<1>4. PICK evicted \in SUBSET Evictable :
         entries' = [k \in Key |-> IF k \in evicted THEN None ELSE entries[k]]
  BY DEF Cleanup
<1>5. RequestsType'
  BY <1>0, <1>1, <1>2, <1>3, <1>4 DEF RequestsType
<1>6. data.cacheLimit # 0
  BY <1>0, <1>1 DEF FileInv
<1>7. ASSUME NEW k \in Key, entries[k] # None,
             \/ Pinned(k) /\ k \notin robbed'
             \/ data.cacheLimit = 0
             \/ state[entries[k].cache] # "finished"
      PROVE  entries'[k] = entries[k]
  <2>1. k \notin Evictable
    BY <1>0, <1>6, <1>7, PinnedStays DEF Evictable
  <2> QED
    BY <1>4, <2>1
<1>8. \A u \in Thread : u # t =>
         pc'[u] = pc[u] /\ file'[u] = file[u] /\ key'[u] = key[u] /\ ptr'[u] = ptr[u]
  BY <1>0, <1>3 DEF RequestsType
<1>9. \A u \in Thread : u # t /\ SettingUp(u) => state'[SetUpCache(u)] = "new"
  BY <1>1 DEF RequestsInv, FileInv
<1>10. \A k \in Key : Pinned(k) /\ k \notin robbed' => Pinned(k)'
  BY <1>7 DEF Pinned
<1>11. Keeps(t)
  BY <1>1, <1>7, <1>8, <1>9, <1>10 DEF Keeps
<1>14. SparesInv'
  BY <1>1, <1>4 DEF RequestsInv, SparesInv
<1>12. pc'[t] = "idle" /\ file'[t] = NotOpen
  BY <1>0, <1>3 DEF RequestsType
<1>13. FileInv(t)' /\ StatInv(t)' /\ ~SettingUp(t)'
  BY <1>2, <1>12 DEF FileInv, StatInv, OnPath, SettingUp
<1> QED
  BY <1>1, <1>5, <1>11, <1>13, <1>14, ThreadStep

LEMMA LoopInv ==
    ASSUME RequestsInv, NEW o \in Object, Write(o) \/ Finish(o)
    PROVE  RequestsInv'
<1>0. RequestsType
  BY DEF RequestsInv
<1>1. /\ phase = "mounted" /\ state[o] = "running"
      /\ UNCHANGED <<phase, cause, data, pc, key, file, ptr, statbuf, entries, sizes, robbed>>
  BY DEF Write, Finish, optionVars
<1>2. \A p \in Object : p # o => state'[p] = state[p] /\ size'[p] = size[p]
  BY <1>0 DEF Write, Finish, Becomes, RequestsType
<1>3. RequestsType'
  <2>1. /\ state' \in [Object -> {"new", "orphaned", "running", "finished"}]
        /\ size' \in [Object -> 0 .. MaxSize]
    BY <1>0, RequestsAssumption DEF Write, Finish, Becomes, RequestsType, RequestsAssumption
  <2> QED
    BY <1>0, <1>1, <2>1 DEF RequestsType
<1>4. PICK t : t \notin Thread
  BY NoSetContainsEverything
<1>5. \A k \in Present : state[entries[k].cache] = "finished" =>
         /\ state'[entries[k].cache] = "finished"
         /\ size'[entries[k].cache] = size[entries[k].cache]
  BY <1>0, <1>1, <1>2 DEF Present, RequestsType
<1>6. \A u \in Thread : SettingUp(u) => state'[SetUpCache(u)] = "new"
  BY <1>0, <1>1, <1>2 DEF RequestsInv, FileInv, SetUpCache, RequestsType
<1>7. \A k : Pinned(k)' <=> Pinned(k)
  BY <1>1 DEF Pinned
<1>8. Keeps(t)
  BY <1>1, <1>5, <1>6, <1>7 DEF Keeps
<1>9. \A u \in Thread : FileInv(u)' /\ StatInv(u)'
  BY <1>4, <1>8, OthersKeep
<1>10. SetUpsApart'
  BY <1>1 DEF RequestsInv, SetUpsApart, SettingUp, SetUpCache
<1>11. SparesInv' /\ (cause = "null" => ~Seekable)'
  BY <1>1, Modes DEF RequestsInv, SparesInv
<1> QED
  BY <1>1, <1>3, <1>9, <1>10, <1>11 DEF RequestsInv

(* The process is gone, or its end leaves the requests as they are.           *)
LEMMA EndInv ==
    ASSUME RequestsInv, UNCHANGED <<data, requestVars>>, phase = "mounted",
           phase' \in {"crashed", "exited"}, (cause = "null" => ~Seekable)'
    PROVE  RequestsInv'
<1>1. UNCHANGED <<pc, key, file, ptr, statbuf, entries, state, size, sizes, robbed>>
  BY DEF requestVars
<1>2. RequestsType' /\ SetUpsApart'
  BY <1>1 DEF RequestsInv, RequestsType, SetUpsApart, SettingUp, SetUpCache
<1>6. SparesInv'
  BY <1>1 DEF RequestsInv, SparesInv
<1>3. \A k : Pinned(k)' <=> Pinned(k)
  BY <1>1 DEF Pinned
<1>4. \A t \in Thread : FileInv(t)'
  BY <1>1, Modes DEF RequestsInv, FileInv, SettingUp, SetUpCache
<1>5. \A t \in Thread : StatInv(t)'
  BY <1>1, <1>3, Modes DEF RequestsInv, StatInv, OnPath
<1> QED
  BY <1>2, <1>4, <1>5, <1>6 DEF RequestsInv

LEMMA DeathInv ==
    ASSUME RequestsInv,
           \/ NoRoot \/ Unmount
           \/ \E t \in Thread :
                 WaitAborts(t) \/ FgetattrCrashes(t) \/ PreloadThrows(t) \/ ReleaseAborts(t)
           \/ \E o \in Object : SpawnFails(o)
    PROVE  RequestsInv'
<1>1. ASSUME NEW why \in {"rootdir", "exception", "assert", "null", "release"},
             phase = "mounted", Dies(why), why = "null" => ~Seekable
      PROVE  RequestsInv'
  <2>1. UNCHANGED <<data, requestVars>> /\ phase' = "crashed" /\ cause' = why
    BY <1>1 DEF Dies, Crash
  <2>2. (cause = "null" => ~Seekable)'
    BY <1>1, <2>1, Modes
  <2> QED
    BY <1>1, <2>1, <2>2, EndInv
<1>2. ASSUME NEW t \in Thread, FgetattrCrashes(t)
      PROVE  RequestsInv'
  <2>1. phase = "mounted" /\ file[t] = File(TRUE, None) /\ Dies("null") /\ FileInv(t)
    BY <1>2 DEF FgetattrCrashes, At, Running, RequestsInv
  <2>2. ~Seekable
    BY <2>1 DEF FileInv, File
  <2> QED
    BY <1>1, <2>1, <2>2
<1>3. ASSUME \/ NoRoot
             \/ \E t \in Thread : WaitAborts(t) \/ PreloadThrows(t) \/ ReleaseAborts(t)
             \/ \E o \in Object : SpawnFails(o)
      PROVE  RequestsInv'
  BY <1>1, <1>3 DEF NoRoot, WaitAborts, PreloadThrows, ReleaseAborts, SpawnFails, At, Running
<1>4. CASE Unmount
  <2>1. UNCHANGED <<data, cause, requestVars>> /\ phase = "mounted" /\ phase' = "exited"
    BY <1>4 DEF Unmount, Destroyed, Go
  <2>2. (cause = "null" => ~Seekable)'
    BY <2>1, Modes DEF RequestsInv
  <2> QED
    BY <2>1, <2>2, EndInv
<1> QED
  BY <1>2, <1>3, <1>4

LEMMA StartInv ==
    ASSUME RequestsInv, OptionsInv, Start, UNCHANGED requestVars
    PROVE  RequestsInv'
<1>1. UNCHANGED <<pc, key, file, ptr, statbuf, entries, state, size, sizes, robbed>>
  BY DEF requestVars
<1>2. phase \in {"start", "parsing", "fuse"} /\ cause = "none"
  <2>1. phase \in {"start", "parsing", "fuse"}
    BY DEF Start, CheckUser, ParseFlag, ParsePreload, ParseShortCache, ParseLimits,
           ParseStored, Refuse, LogFails, EndOfWords, NoPidfile, NoPidfileAnyMore, FuseInit,
           FuseFails, Take
  <2> QED
    BY <2>1 DEF OptionsInv
<1>3. cause' \in {"none", "pidfile"}
  BY <1>2 DEF Start, CheckUser, ParseFlag, ParsePreload, ParseShortCache, ParseLimits,
              ParseStored, Refuse, LogFails, EndOfWords, NoPidfile, NoPidfileAnyMore,
              FuseInit, FuseFails, Take, Go, Crash
<1>4. Untouched /\ Untouched'
  BY <1>1, <1>2 DEF RequestsInv, Untouched
<1>5. RequestsType'
  BY <1>1 DEF RequestsInv, RequestsType
<1>6. \A t \in Thread : FileInv(t)' /\ StatInv(t)' /\ ~SettingUp(t)'
  <2> SUFFICES ASSUME NEW t \in Thread
               PROVE  FileInv(t)' /\ StatInv(t)' /\ ~SettingUp(t)'
    OBVIOUS
  <2>1. pc'[t] = "idle" /\ ~file'[t].open
    BY <1>4 DEF Untouched, NotOpen, File
  <2> QED
    BY <2>1 DEF FileInv, StatInv, OnPath, SettingUp
<1>7. SetUpsApart' /\ SparesInv' /\ (cause = "null" => ~Seekable)'
  BY <1>3, <1>4, <1>6 DEF SetUpsApart, SparesInv, Untouched
<1> QED
  BY <1>4, <1>5, <1>6, <1>7 DEF RequestsInv

(* What is no step of the start leaves the options alone, but for the end.    *)
LEMMA RequestsKeepOptions ==
    ASSUME RequestsNext, ~(Start /\ UNCHANGED requestVars)
    PROVE  /\ UNCHANGED <<data, given>>
           /\ \/ UNCHANGED <<phase, cause>>
              \/ phase = "mounted" /\ phase' = "exited" /\ UNCHANGED cause
              \/ /\ phase = "mounted" /\ phase' = "crashed"
                 /\ cause' \in {"rootdir", "assert", "null", "exception", "release"}
<1>1. CASE UNCHANGED optionVars
  BY <1>1 DEF optionVars
<1>2. ASSUME NEW why \in {"rootdir", "assert", "null", "exception", "release"}, phase = "mounted", Dies(why)
      PROVE  /\ UNCHANGED <<data, given>>
             /\ phase' = "crashed" /\ cause' = why
  BY <1>2 DEF Dies, Crash
<1>3. CASE Unmount
  BY <1>3 DEF Unmount, Destroyed, Go
<1>4. ASSUME NEW t \in Thread, NewRequest(t)
      PROVE  UNCHANGED optionVars
             \/ (phase = "mounted" /\ (Dies("null") \/ Dies("release")))
  BY <1>4 DEF NewRequest, Getattr, Readdir, Open, Fgetattr, FgetattrCrashes, Read, Release,
              ReleaseAborts, At, Running
<1>5. ASSUME NEW t \in Thread, Continue(t)
      PROVE  UNCHANGED optionVars \/ (phase = "mounted" /\ Dies("assert"))
  BY <1>5 DEF Continue, Preload, SetUp, Wait, WaitAborts, Waited, Correct, IsFinished, GetSize,
              Reply, FileWaited, OpenSetUp, ReadReturns, Cleanup, At, Running
<1>6. ASSUME NEW t \in Thread, Failure(t)
      PROVE  UNCHANGED optionVars \/ (phase = "mounted" /\ Dies("exception"))
  BY <1>6 DEF Failure, PreloadThrows, OpenFails, Running
<1>7. ASSUME NEW o \in Object, Write(o) \/ Finish(o) \/ SpawnFails(o)
      PROVE  UNCHANGED optionVars \/ (phase = "mounted" /\ Dies("exception"))
  BY <1>7 DEF Write, Finish, SpawnFails
<1>8. CASE NoRoot
  BY <1>2, <1>8 DEF NoRoot
<1>9. CASE Stopped \/ Hung
  BY <1>1, <1>9 DEF Stopped, Hung, allVars, optionVars
<1>10. ASSUME NEW k \in Key, NEW j \in Key, Rename(k, j)
       PROVE  UNCHANGED optionVars
  BY <1>10 DEF Rename
<1> QED
  BY <1>1, <1>2, <1>3, <1>4, <1>5, <1>6, <1>7, <1>8, <1>9, <1>10 DEF RequestsNext

(* Both invariants are preserved together: the requests rely on the options.  *)
AllInv == OptionsInv /\ RequestsInv

LEMMA StutterInv ==
    ASSUME AllInv, UNCHANGED allVars
    PROVE  AllInv'
<1>1. UNCHANGED <<phase, data, given, cause, requestVars>>
  BY DEF allVars, optionVars
<1>2. UNCHANGED <<pc, key, file, ptr, statbuf, entries, state, size, sizes, robbed>>
  BY <1>1 DEF requestVars
<1>3. OptionsInv'
  BY <1>1 DEF AllInv, OptionsInv, OptionsTypeOK, DataType, FlagsAsGiven, Given, GivenPreload
<1>4. RequestsType' /\ SetUpsApart' /\ (Untouched' <=> Untouched)
  BY <1>2 DEF AllInv, RequestsInv, RequestsType, SetUpsApart, SettingUp, SetUpCache, Untouched
<1>5. \A k : Pinned(k)' <=> Pinned(k)
  BY <1>2 DEF Pinned
<1>6. \A t \in Thread : FileInv(t)'
  BY <1>1, <1>2, Modes DEF AllInv, RequestsInv, FileInv, SettingUp, SetUpCache
<1>7. \A t \in Thread : StatInv(t)'
  BY <1>1, <1>2, <1>5, Modes DEF AllInv, RequestsInv, StatInv, OnPath
<1>8. SparesInv' /\ (cause = "null" => ~Seekable)'
  BY <1>1, <1>2, Modes DEF AllInv, RequestsInv, SparesInv
<1> QED
  BY <1>1, <1>3, <1>4, <1>6, <1>7, <1>8 DEF AllInv, RequestsInv

LEMMA NextInv == AllInv /\ [RequestsNext]_allVars => AllInv'
<1> SUFFICES ASSUME AllInv, [RequestsNext]_allVars
             PROVE  AllInv'
  OBVIOUS
<1>0. OptionsInv /\ RequestsInv
  BY DEF AllInv
<1>1. CASE UNCHANGED allVars
  BY <1>1, StutterInv
<1>2. CASE Start /\ UNCHANGED requestVars
  BY <1>0, <1>2, StartOptions, StartInv DEF AllInv
<1>3. CASE RequestsNext /\ ~(Start /\ UNCHANGED requestVars)
  <2>1. OptionsInv'
    BY <1>0, <1>3, RequestsKeepOptions
       DEF OptionsInv, OptionsTypeOK, DataType, FlagsAsGiven, Given, GivenPreload
  <2>2. ASSUME NEW t \in Thread, NewRequest(t)
        PROVE  RequestsInv'
    BY <1>0, <2>2, GetattrInv, PreloadInv, OpenInv, OpenFileInv, ReleaseInv, DeathInv DEF NewRequest
  <2>3. ASSUME NEW t \in Thread, Continue(t)
        PROVE  RequestsInv'
    BY <1>0, <2>3, PreloadInv, SetUpInv, WaitInv, DeathInv, SizeInv, ReplyInv, OpenFileInv,
       OpenSetUpInv, CleanupInv DEF Continue
  <2>4. ASSUME NEW t \in Thread, Failure(t)
        PROVE  RequestsInv'
    BY <1>0, <2>4, DeathInv, OpenSetUpInv DEF Failure
  <2>5. ASSUME NEW o \in Object, Write(o) \/ Finish(o) \/ SpawnFails(o)
        PROVE  RequestsInv'
    BY <1>0, <2>5, LoopInv, DeathInv
  <2>6. CASE NoRoot \/ Unmount
    BY <1>0, <2>1, <2>6, DeathInv DEF AllInv
  <2>7. CASE Stopped \/ Hung
    BY <2>7, StutterInv DEF Stopped, Hung, AllInv
  <2>8. ASSUME NEW k \in Key, NEW j \in Key, Rename(k, j)
        PROVE  RequestsInv'
    BY <1>0, <2>8, RenameInv
  <2> QED
    BY <1>3, <2>1, <2>2, <2>3, <2>4, <2>5, <2>6, <2>7, <2>8 DEF RequestsNext, AllInv
<1> QED
  BY <1>1, <1>2, <1>3 DEF RequestsNext

LEMMA AllInitial == RequestsInit => AllInv
<1> SUFFICES ASSUME RequestsInit
             PROVE  AllInv
  OBVIOUS
<1>1. OptionsInv
  BY OptionsInitial DEF RequestsInit
<1>2. cause = "none"
  BY DEF RequestsInit, OptionsInit
<1>3. NotOpen \in [open : BOOLEAN, cache : Object \cup {None}] /\ ~NotOpen.open
  BY DEF NotOpen, File
<1>4. /\ pc = [t \in Thread |-> "idle"] /\ file = [t \in Thread |-> NotOpen]
      /\ entries = [k \in Key |-> None]
  BY DEF RequestsInit
<1>5. RequestsType
  BY <1>3, RequestsAssumption DEF RequestsInit, RequestsType
<1>6. Untouched
  BY <1>4 DEF Untouched
<1>7. \A t \in Thread : FileInv(t) /\ StatInv(t) /\ ~SettingUp(t)
  BY <1>3, <1>4 DEF FileInv, StatInv, OnPath, SettingUp
<1>8. SetUpsApart /\ SparesInv /\ (cause = "null" => ~Seekable)
  BY <1>2, <1>4, <1>7 DEF SetUpsApart, SparesInv
<1> QED
  BY <1>1, <1>5, <1>6, <1>7, <1>8 DEF AllInv, RequestsInv

LEMMA AllInvariant == RequestsSpec => []AllInv
<1>1. RequestsInit => AllInv
  BY AllInitial
<1>2. AllInv /\ [RequestsNext]_allVars => AllInv'
  BY NextInv
<1> QED
  BY <1>1, <1>2, PTL DEF RequestsSpec

-----------------------------------------------------------------------------
(* The sizes that stat has reported.                                         *)

Settled(k) == Pinned(k) /\ state[entries[k].cache] = "finished"

(* A size that a stat has found is that of an entry that stays.               *)
SizesInv ==
    /\ phase \in {"start", "parsing", "fuse"} => \A k \in Key : sizes[k] = 0
    /\ UseCache /\ IsFlagSet(PRELOAD_STAT) =>
          \A k \in Key \ robbed : sizes[k] # 0 =>
              Settled(k) /\ sizes[k] = size[entries[k].cache] + 1

(* Of the caches, what a step may not touch. *)
SettledStays ==
    /\ robbed \subseteq robbed'
    /\ \A k \in Key : Settled(k) /\ k \notin robbed' =>
          Settled(k)' /\ size'[entries'[k].cache] = size[entries[k].cache]

LEMMA GetSettles ==
    ASSUME AllInv, NEW k \in Key, NEW o \in Object, GetNew(k, o) \/ GetShared(k, o),
           UseForEver(k, o) \/ UseWhileOpen(k, o), UNCHANGED robbed
    PROVE  SettledStays
<1>1. PICK spare \in {Spare(k), More(Spare(k))} :
         entries' = [entries EXCEPT ![k] = Entry(o, spare)]
  BY DEF UseForEver, UseWhileOpen
<1>2. /\ \A j \in Key : entries[j] # None =>
            /\ entries'[j] # None /\ entries'[j].cache = entries[j].cache
            /\ Pinned(j) => Pinned(j)'
      /\ \A j \in Present : state[entries[j].cache] = "finished" =>
            /\ state'[entries[j].cache] = "finished"
            /\ size'[entries[j].cache] = size[entries[j].cache]
  BY <1>1, GetsInv DEF AllInv
<1>3. \A j \in Key : Pinned(j) => entries[j] # None /\ j \in Present
  BY DEF Pinned, Present
<1> QED
  BY <1>2, <1>3 DEF SettledStays, Settled

LEMMA CachesSettled ==
    ASSUME AllInv, UNCHANGED <<entries, robbed>>,
           \A k \in Key : entries[k] # None /\ state[entries[k].cache] = "finished" =>
              /\ state'[entries[k].cache] = "finished"
              /\ size'[entries[k].cache] = size[entries[k].cache]
    PROVE  SettledStays
BY DEF SettledStays, Settled, Pinned

LEMMA StepSettles ==
    ASSUME AllInv, RequestsNext, phase = "mounted"
    PROVE  SettledStays
<1>0. RequestsType /\ \A t \in Thread : FileInv(t) /\ StatInv(t)
  BY DEF AllInv, RequestsInv
<1>1. CASE UNCHANGED <<entries, state, size, robbed>>
  BY <1>1, CachesSettled
<1>2. ASSUME NEW o \in Object, state[o] # "finished",
             UNCHANGED <<entries, robbed>>,
             \A p \in Object : p # o => state'[p] = state[p] /\ size'[p] = size[p]
      PROVE  SettledStays
  BY <1>0, <1>2, CachesSettled DEF RequestsType
<1>3. ASSUME NEW t \in Thread, NEW k \in Key, NEW setUp, NEW next, PreloadGets(t, k, setUp, next),
             UNCHANGED robbed
      PROVE  SettledStays
  BY <1>3, GetSettles DEF PreloadGets
<1>4. ASSUME NEW t \in Thread, Preload(t)
      PROVE  SettledStays
  <2>1. key[t] \in Key
    BY <1>0, <1>4 DEF Preload, At, StatInv
  <2> QED
    BY <1>1, <1>3, <1>4, <2>1 DEF Preload
<1>5. ASSUME NEW t \in Thread, NEW k \in Key, Open(t, k)
      PROVE  SettledStays
  <2>1. CASE OpenCached(t, k)
    BY <1>5, <2>1, GetSettles DEF Open, OpenCached
  <2>2. CASE OpenUncached(t, k) /\ Seekable
    <3>1. PICK o \in Free : Becomes(o, "running") /\ size' = [size EXCEPT ![o] = 0]
      BY <2>2 DEF OpenUncached
    <3>2. \A j \in Present : entries[j].cache # o /\ entries[j].cache \in Object
      BY <1>0 DEF Free, Owned, Present, RequestsType
    <3>3. UNCHANGED <<entries, robbed>>
      BY <1>5, <2>2 DEF Open, OpenUncached
    <3>4. \A j \in Present : state'[entries[j].cache] = state[entries[j].cache]
                             /\ size'[entries[j].cache] = size[entries[j].cache]
      BY <1>0, <3>1, <3>2 DEF Becomes, RequestsType
    <3> QED
      BY <3>3, <3>4, CachesSettled DEF Present
  <2>3. CASE OpenUncached(t, k) /\ ~Seekable
    BY <1>1, <1>5, <2>3 DEF Open, OpenUncached
  <2> QED
    BY <1>5, <2>1, <2>2, <2>3 DEF Open
<1>6. ASSUME NEW t \in Thread, SetUp(t) \/ OpenSetUp(t)
      PROVE  SettledStays
  <2>1. SettingUp(t) /\ UNCHANGED <<entries, size, robbed>>
    BY <1>6 DEF SetUp, OpenSetUp, At, SettingUp
  <2>2. \E next : state' = [state EXCEPT ![SetUpCache(t)] = next]
    BY <1>6 DEF SetUp, OpenSetUp, At, Becomes, SetUpCache
  <2>3. SetUpCache(t) \in Object /\ state[SetUpCache(t)] = "new"
    BY <1>0, <2>1 DEF FileInv, SetUpCache, RequestsType
  <2>4. \A p \in Object : p # SetUpCache(t) => state'[p] = state[p]
    BY <1>0, <2>2 DEF RequestsType
  <2> QED
    BY <1>2, <2>1, <2>3, <2>4
<1>7. ASSUME NEW t \in Thread, OpenFails(t)
      PROVE  SettledStays
  <2>1. /\ file[t].open /\ UseCache /\ key[t] \in Key /\ SettingUp(t)
        /\ SetUpCache(t) = file[t].cache
        /\ entries[key[t]] # None /\ entries[key[t]].cache = file[t].cache
    BY <1>0, <1>7 DEF OpenFails, At, FileInv, SettingUp, SetUpCache
  <2>2. file[t].cache \in Object /\ state[file[t].cache] = "new"
    BY <1>0, <2>1 DEF FileInv, RequestsType
  <2>3. /\ state' = [state EXCEPT ![file[t].cache] = "orphaned"] /\ UNCHANGED <<size, robbed>>
        /\ entries' = [entries EXCEPT ![key[t]] = Entry(file[t].cache, More(Spare(key[t])))]
    BY <1>7 DEF OpenFails, Becomes, UseForEver
  <2>4. ASSUME NEW k \in Key, Settled(k)
        PROVE  Settled(k)' /\ size'[entries'[k].cache] = size[entries[k].cache]
    <3>1. entries[k] # None /\ entries[k].cache \in Object /\ entries[k].cache # file[t].cache
      BY <1>0, <2>2, <2>4 DEF Settled, Pinned, RequestsType
    <3>2. entries'[k] = entries[k]
      BY <1>0, <2>1, <2>3, <3>1 DEF RequestsType
    <3>3. state'[entries[k].cache] = state[entries[k].cache]
      BY <1>0, <2>3, <3>1 DEF RequestsType
    <3> QED
      BY <2>3, <2>4, <3>2, <3>3 DEF Settled, Pinned
  <2> QED
    BY <2>3, <2>4 DEF SettledStays
<1>8. ASSUME NEW t \in Thread, Cleanup(t)
      PROVE  SettledStays
  <2>1. PICK evicted \in SUBSET Evictable :
           entries' = [k \in Key |-> IF k \in evicted THEN None ELSE entries[k]]
    BY <1>8 DEF Cleanup
  <2>2. \A k \in Key : Pinned(k) => entries'[k] = entries[k]
    BY <1>0, <2>1, PinnedStays
  <2>3. UNCHANGED <<state, size, robbed>>
    BY <1>8 DEF Cleanup
  <2> QED
    BY <2>2, <2>3 DEF SettledStays, Settled, Pinned
<1>9. ASSUME NEW o \in Object, Write(o) \/ Finish(o)
      PROVE  SettledStays
  <2>1. /\ state[o] # "finished" /\ UNCHANGED <<entries, robbed>>
        /\ \A p \in Object : p # o => state'[p] = state[p] /\ size'[p] = size[p]
    BY <1>0, <1>9 DEF Write, Finish, Becomes, RequestsType
  <2> QED
    BY <1>2, <2>1
<1>10. ASSUME NEW t \in Thread,
              \/ \E k \in Key : Getattr(t, k)
              \/ Fgetattr(t) \/ Read(t)
              \/ Wait(t) \/ Waited(t) \/ Correct(t) \/ IsFinished(t) \/ GetSize(t)
              \/ Reply(t) \/ FileWaited(t) \/ ReadReturns(t)
       PROVE  SettledStays
  BY <1>1, <1>10 DEF Getattr, Fgetattr, Read, Wait, Waited, Correct, IsFinished, GetSize,
                     Reply, FileWaited, ReadReturns
<1>17. ASSUME NEW t \in Thread, Release(t)
       PROVE  SettledStays
  <2>1. key[t] \in Key /\ (GiveBack(t) \/ UNCHANGED <<entries, robbed>>)
    BY <1>0, <1>17 DEF Release, FileInv
  <2>2. /\ robbed \subseteq robbed'
        /\ \A k \in Key : entries[k] # None =>
              entries'[k] # None /\ entries'[k].cache = entries[k].cache
        /\ \A k \in Key : Pinned(k) /\ k \notin robbed' => Pinned(k)'
    BY <2>1, GiveBackFacts DEF AllInv
  <2>3. UNCHANGED <<state, size>>
    BY <1>17 DEF Release
  <2>4. \A k \in Key : Pinned(k) => entries[k] # None
    BY DEF Pinned
  <2> QED
    BY <2>2, <2>3, <2>4 DEF SettledStays, Settled
<1>11. ASSUME NEW t \in Thread, NewRequest(t)
       PROVE  SettledStays
  <2>1. CASE FgetattrCrashes(t) \/ ReleaseAborts(t)
    BY <1>1, <2>1 DEF FgetattrCrashes, ReleaseAborts, Dies, requestVars
  <2>2. ASSUME NEW k \in Key, Readdir(t, k)
        PROVE  SettledStays
    BY <1>3, <2>2 DEF Readdir
  <2> QED
    BY <1>5, <1>10, <1>11, <1>17, <2>1, <2>2 DEF NewRequest
<1>12. ASSUME NEW t \in Thread, Continue(t)
       PROVE  SettledStays
  <2>1. CASE WaitAborts(t)
    BY <1>1, <2>1 DEF WaitAborts, Dies, requestVars
  <2> QED
    BY <1>4, <1>6, <1>8, <1>10, <1>12, <2>1 DEF Continue
<1>13. ASSUME NEW t \in Thread, Failure(t)
       PROVE  SettledStays
  <2>1. CASE PreloadThrows(t)
    BY <1>1, <2>1 DEF PreloadThrows, Dies, requestVars
  <2> QED
    BY <1>7, <1>13, <2>1 DEF Failure
<1>14. ASSUME NEW o \in Object, SpawnFails(o)
       PROVE  SettledStays
  BY <1>1, <1>14 DEF SpawnFails, Dies, requestVars
<1>15. CASE NoRoot \/ Unmount \/ Stopped \/ Hung
  BY <1>1, <1>15 DEF NoRoot, Unmount, Stopped, Hung, Dies, requestVars, allVars
<1>16. CASE Start /\ UNCHANGED requestVars
  BY <1>1, <1>16 DEF requestVars
<1>18. ASSUME NEW k \in Key, NEW j \in Key, Rename(k, j)
       PROVE  SettledStays
  BY <1>1, <1>18 DEF Rename
<1> QED
  BY <1>9, <1>11, <1>12, <1>13, <1>14, <1>15, <1>16, <1>18 DEF RequestsNext

(* There are no requests before the file system is mounted, nor after.         *)
LEMMA OnlyMounted ==
    ASSUME RequestsNext, phase # "mounted"
    PROVE  UNCHANGED requestVars
<1>1. ASSUME NEW t \in Thread, NewRequest(t) \/ Continue(t) \/ Failure(t)
      PROVE  phase = "mounted"
  BY <1>1 DEF NewRequest, Continue, Failure, Getattr, Readdir, Open, OpenCached, OpenUncached,
              Begin, Fgetattr, FgetattrCrashes, Read, Release, ReleaseAborts, Preload, SetUp,
              Wait, WaitAborts, Waited, Correct, IsFinished, GetSize, Reply, FileWaited,
              OpenSetUp, ReadReturns, Cleanup, PreloadThrows, OpenFails, At, Running
<1>2. ASSUME NEW o \in Object, Write(o) \/ Finish(o) \/ SpawnFails(o)
      PROVE  phase = "mounted"
  BY <1>2 DEF Write, Finish, SpawnFails
<1>3. ASSUME NEW k \in Key, NEW j \in Key, Rename(k, j)
      PROVE  phase = "mounted"
  BY <1>3 DEF Rename, Running
<1>4. ~NoRoot /\ ~Unmount /\ ~Hung
  BY DEF NoRoot, Unmount, Destroyed, Hung
<1> QED
  BY <1>1, <1>2, <1>3, <1>4 DEF RequestsNext, Stopped, allVars

(* A size is found where an entry stays, and is the one there was before.     *)
LEMMA Recorded ==
    ASSUME AllInv, SizesInv, RequestsNext, phase = "mounted"
    PROVE  UseCache /\ IsFlagSet(PRELOAD_STAT) =>
              \A k \in Key \ robbed :
                 /\ sizes[k] # 0 => sizes'[k] = sizes[k]
                 /\ sizes'[k] # 0 =>
                       Settled(k) /\ sizes'[k] = size[entries[k].cache] + 1
<1> SUFFICES ASSUME UseCache, IsFlagSet(PRELOAD_STAT), NEW k \in Key, k \notin robbed
             PROVE  /\ sizes[k] # 0 => sizes'[k] = sizes[k]
                    /\ sizes'[k] # 0 =>
                          Settled(k) /\ sizes'[k] = size[entries[k].cache] + 1
  OBVIOUS
<1>1. CASE UNCHANGED sizes
  BY <1>1 DEF SizesInv
<1>2. ASSUME NEW t \in Thread, GetSize(t)
      PROVE  /\ sizes[k] # 0 => sizes'[k] = sizes[k]
             /\ sizes'[k] # 0 =>
                   Settled(k) /\ sizes'[k] = size[entries[k].cache] + 1
  <2>1. StatInv(t) /\ RequestsType
    BY DEF AllInv, RequestsInv
  <2>2. PICK n \in 0 .. MaxSize :
           /\ Dangling(t) \/ n = size[ptr[t]]
           /\ sizes' = [sizes EXCEPT ![key[t]] = n + 1]
    BY <1>2 DEF GetSize
  <2>3. pc[t] = "getSize"
    BY <1>2 DEF GetSize, At
  <2>4. CASE key[t] # k
    BY <2>1, <2>2, <2>4 DEF RequestsType, SizesInv
  <2>5. CASE key[t] = k
    <3>1. /\ Pinned(k) /\ entries[k] # None /\ ptr[t] = entries[k].cache
          /\ state[entries[k].cache] = "finished"
      BY <2>1, <2>3, <2>5 DEF StatInv, OnPath
    <3>2. ~Dangling(t)
      BY <3>1 DEF Dangling, Owned, Present
    <3>3. Settled(k) /\ sizes'[k] = size[entries[k].cache] + 1
      BY <2>1, <2>2, <2>5, <3>1, <3>2 DEF RequestsType, Settled
    <3> QED
      BY <3>3 DEF SizesInv
  <2> QED
    BY <2>4, <2>5
<1>3. ASSUME NEW t \in Thread, NewRequest(t) \/ Continue(t) \/ Failure(t), ~GetSize(t)
      PROVE  UNCHANGED sizes
  BY <1>3 DEF NewRequest, Continue, Failure, Getattr, Readdir, Open, Fgetattr, FgetattrCrashes,
              Read, Release, ReleaseAborts, Preload, SetUp, Wait, WaitAborts, Waited, Correct,
              IsFinished, Reply, FileWaited, OpenSetUp, ReadReturns, Cleanup, PreloadThrows,
              OpenFails, Dies, requestVars
<1>4. ASSUME NEW o \in Object, Write(o) \/ Finish(o) \/ SpawnFails(o)
      PROVE  UNCHANGED sizes
  BY <1>4 DEF Write, Finish, SpawnFails, Dies, requestVars
<1>5. ASSUME NEW i \in Key, NEW j \in Key, Rename(i, j)
      PROVE  UNCHANGED sizes
  BY <1>5 DEF Rename
<1>6. CASE NoRoot \/ Unmount \/ Stopped \/ Hung \/ (Start /\ UNCHANGED requestVars)
  BY <1>1, <1>6 DEF NoRoot, Unmount, Stopped, Hung, Dies, requestVars, allVars
<1> QED
  BY <1>1, <1>2, <1>3, <1>4, <1>5, <1>6 DEF RequestsNext

LEMMA SizesStep ==
    ASSUME AllInv, SizesInv, RequestsNext
    PROVE  SizesInv'
<1>1. CASE Start /\ UNCHANGED requestVars
  <2>1. UNCHANGED sizes /\ phase \in {"start", "parsing", "fuse"}
    BY <1>1 DEF requestVars, Start, CheckUser, ParseFlag, ParsePreload, ParseShortCache,
                ParseLimits, ParseStored, Refuse, LogFails, EndOfWords, NoPidfile,
                NoPidfileAnyMore, FuseInit, FuseFails, Take
  <2> QED
    BY <2>1 DEF SizesInv
<1>2. CASE ~(Start /\ UNCHANGED requestVars)
  <2>1. /\ UNCHANGED data
        /\ \/ UNCHANGED phase
           \/ phase = "mounted" /\ phase' \in {"exited", "crashed"}
    BY <1>2, RequestsKeepOptions
  <2>2. CASE phase = "mounted"
    <3>1. UseCache /\ IsFlagSet(PRELOAD_STAT) =>
             \A k \in Key \ robbed : sizes'[k] # 0 =>
                 Settled(k) /\ sizes'[k] = size[entries[k].cache] + 1
      BY <2>2, Recorded
    <3>2. SettledStays
      BY <2>2, StepSettles
    <3>3. UseCache /\ IsFlagSet(PRELOAD_STAT) =>
             \A k \in Key \ robbed' : sizes'[k] # 0 =>
                 Settled(k)' /\ sizes'[k] = size'[entries'[k].cache] + 1
      BY <3>1, <3>2 DEF SettledStays
    <3> QED
      BY <2>1, <2>2, <3>3, Modes DEF SizesInv
  <2>3. CASE phase # "mounted"
    <3>1. UNCHANGED requestVars
      BY <1>2, <2>3, OnlyMounted
    <3>2. UNCHANGED <<entries, state, size, sizes, robbed>>
      BY <3>1 DEF requestVars
    <3> QED
      BY <2>1, <2>3, <3>2, Modes DEF SizesInv, Settled, Pinned
  <2> QED
    BY <2>2, <2>3
<1> QED
  BY <1>1, <1>2

LEMMA SizesStutter ==
    ASSUME SizesInv, UNCHANGED allVars
    PROVE  SizesInv'
<1>1. UNCHANGED <<phase, data, entries, state, size, sizes, robbed>>
  BY DEF allVars, optionVars, requestVars
<1> QED
  BY <1>1, Modes DEF SizesInv, Settled, Pinned

LEMMA SizesInitial == RequestsInit => SizesInv
BY DEF RequestsInit, OptionsInit, SizesInv

-----------------------------------------------------------------------------
(* The theorems.                                                             *)

(* Whatever words the command line has, in whatever order, the flags that     *)
(* command_line.c has set when FUSE starts mean what the usage says.          *)
THEOREM OptionsMeanFlags == RequestsSpec => []FlagsMean
<1>1. AllInv => FlagsMean
  BY FlagBits DEF AllInv, OptionsInv, FlagsAsGiven, FlagsMean
<1> QED
  BY <1>1, AllInvariant, PTL

(* The entry whose cache waitUntilFinished() asserts to be there is, with      *)
(* --cache, in any interleaving of the requests and of the cleanups of their  *)
(* releases, unless a file that has got its path by a rename was released;    *)
(* and the cache pointer fgetattr takes for granted is null only without      *)
(* --seekable.                                                               *)
THEOREM WaitingIsSafe == RequestsSpec => []WaitNeedsCache
<1>1. AllInv => WaitNeedsCache
  <2> SUFFICES ASSUME AllInv, UseCache, NEW t \in Thread, pc[t] = "wait", key[t] \notin robbed
               PROVE  entries[key[t]] # None
    BY DEF AllInv, RequestsInv, WaitNeedsCache
  <2>1. StatInv(t)
    BY DEF AllInv, RequestsInv
  <2>2. Pinned(key[t])
    BY <2>1, WaitPreloads DEF StatInv, OnPath
  <2> QED
    BY <2>2 DEF Pinned
<1> QED
  BY <1>1, AllInvariant, PTL

(* correctStatInfo() asks no destroyed cache for its size, if there is no      *)
(* limit to the cache, or if stat preloads and no release of another file has *)
(* taken the use that preload() has counted.                                 *)
THEOREM PointersLive == RequestsSpec => []PointerValid
<1>1. ASSUME AllInv, NEW t \in Thread, pc[t] \in {"isFinished", "getSize"},
             (IsFlagSet(PRELOAD_STAT) /\ key[t] \notin robbed) \/ data.cacheLimit = 0
      PROVE  ~Dangling(t)
  <2>1. StatInv(t)
    BY <1>1 DEF AllInv, RequestsInv
  <2>2. /\ key[t] \in Key /\ entries[key[t]] # None
        /\ ptr[t] = entries[key[t]].cache
    BY <1>1, <2>1 DEF StatInv, OnPath
  <2> QED
    BY <2>2 DEF Dangling, Owned, Present
<1>2. AllInv => (data.cacheLimit > 0 \/ data.cacheLimit = 0)
  BY DEF AllInv, OptionsInv, DataType
<1>3. AllInv => PointerValid
  BY <1>1, <1>2 DEF PointerValid
<1> QED
  BY <1>3, AllInvariant, PTL

(* With --cache and --wait-on-stat, a stat by name answers with the size of   *)
(* the finished translation that the registry has, unless the release of      *)
(* another file has taken a use of its entry.                                *)
THEOREM StatsFinal == RequestsSpec => []StatAnswersFinal
<1>1. AllInv => StatAnswersFinal
  BY DEF AllInv, RequestsInv, StatInv, OnPath, StatAnswersFinal
<1> QED
  BY <1>1, AllInvariant, PTL

(* With --cache and --preload=stat, once stat has found the size of a         *)
(* translation, no later stat finds another: nobody writes into its cache,    *)
(* and its entry is not evicted before a release of another file has taken a  *)
(* use of it.                                                                *)
THEOREM StatsStable == RequestsSpec => StatStable
<1>1. RequestsInit => AllInv /\ SizesInv
  BY AllInitial, SizesInitial
<1>2. AllInv /\ SizesInv /\ [RequestsNext]_allVars => AllInv' /\ SizesInv'
  BY NextInv, SizesStep, SizesStutter
<1>3. AllInv /\ SizesInv /\ [RequestsNext]_allVars =>
         [UseCache /\ IsFlagSet(PRELOAD_STAT) =>
            \A k \in Key \ robbed : sizes[k] # 0 => sizes'[k] = sizes[k]]_allVars
  <2> SUFFICES ASSUME AllInv, SizesInv, RequestsNext, UseCache, IsFlagSet(PRELOAD_STAT)
               PROVE  \A k \in Key \ robbed : sizes[k] # 0 => sizes'[k] = sizes[k]
    OBVIOUS
  <2>1. CASE phase = "mounted"
    BY <2>1, Recorded
  <2>2. CASE phase # "mounted"
    BY <2>2, OnlyMounted DEF requestVars
  <2> QED
    BY <2>1, <2>2
<1> QED
  BY <1>1, <1>2, <1>3, PTL DEF RequestsSpec, StatStable
=============================================================================
