---------------------------- MODULE CachesProofs ----------------------------
(***************************************************************************)
(* Theorems about Caches, for any file names, cache objects and handles: the *)
(* usage counts are what they are meant to be up to the releases of files    *)
(* that have been renamed, a file is not translated twice at the same time,  *)
(* and cleanup() evicts what it should.                                     *)
(***************************************************************************)
EXTENDS Caches, FiniteSetTheorems, WellFoundedInduction, TLAPS

HandleState == {Closed, Closing} \cup {Open(k, o) : k \in Key, o \in Object}

(* Of the types, what the counts need.                                        *)
Types ==
    /\ entries \in [Key -> Entry \cup {None}]
    /\ handles \in [Handle -> HandleState]
    /\ keyOf \in [Object -> Key \cup {None}]
    /\ running \subseteq Object

(* Only finitely many files are open, however many handles there can be.      *)
Finite == \A o \in Object : IsFiniteSet(UsersOf(o))

(* How many users an entry has.                                              *)
CountOf(k) ==
    \A o \in Object : entries[k] # None /\ entries[k].cache = o =>
        /\ o \notin robbed => Cardinality(UsersOf(o)) <= entries[k].usageCount
        /\ o \notin pinned => entries[k].usageCount <= Cardinality(UsersOf(o))

Counts == \A k \in Key : CountOf(k)

(* An entry is of the key its cache was made for.                            *)
Keyed == \A k \in Key : entries[k] # None => keyOf[entries[k].cache] = k

Registered(o) ==
    /\ keyOf[o] \in Key
    /\ entries[keyOf[o]] # None
    /\ entries[keyOf[o]].cache = o

(* Running translations, and those that are read and that no stray release    *)
(* has met, are in the registry.                                            *)
RunningHeld == \A o \in running : Registered(o)
ReadHeld == \A o \in Object : o \notin robbed /\ UsersOf(o) # {} => Registered(o)

FailedInv == failed => robbed # {}

Inv == Types /\ Finite /\ Counts /\ Keyed /\ RunningHeld /\ ReadHeld /\ FailedInv

-----------------------------------------------------------------------------
(* Entries and handles.                                                      *)

LEMMA EntryFields ==
    ASSUME NEW e \in Entry
    PROVE  /\ e.cache \in Object /\ e.usageCount \in Nat
           /\ e # None
BY CachesAssumption DEF Entry, CachesAssumption

LEMMA EntryMade ==
    ASSUME NEW o \in Object, NEW time \in 0 .. MaxTime, NEW n \in Nat
    PROVE  /\ CacheData(o, time, n) \in Entry
           /\ CacheData(o, time, n).cache = o
           /\ CacheData(o, time, n).usageCount = n
BY DEF CacheData, Entry

LEMMA HandleStates ==
    ASSUME NEW k, NEW o
    PROVE  /\ Closed.state = "closed" /\ Closing.state = "closing"
           /\ Open(k, o).state = "open" /\ Open(k, o).path = k /\ Open(k, o).cache = o
BY DEF Closed, Closing, Open

LEMMA UsersAre ==
    ASSUME NEW o, NEW h
    PROVE  h \in UsersOf(o) <=> h \in Handle /\ handles[h].state = "open" /\ handles[h].cache = o
BY DEF UsersOf, IsOpen

LEMMA Opened ==
    ASSUME Types, NEW h \in Handle, NEW k \in Key, NEW o \in Object,
           handles[h] = Closed, handles' = [handles EXCEPT ![h] = Open(k, o)]
    PROVE  /\ h \notin UsersOf(o)
           /\ UsersOf(o)' = UsersOf(o) \cup {h}
           /\ \A p \in Object : p # o => UsersOf(p)' = UsersOf(p)
BY HandleStates DEF Types, UsersOf, IsOpen

LEMMA NotOpened ==
    ASSUME Types, NEW h \in Handle, handles[h].state # "open",
           NEW new \in {Closed, Closing}, handles' = [handles EXCEPT ![h] = new],
           NEW o \in Object
    PROVE  UsersOf(o)' = UsersOf(o)
BY HandleStates DEF Types, UsersOf, IsOpen

LEMMA OpenUses ==
    ASSUME Types, NEW h \in Handle, IsOpen(h)
    PROVE  /\ handles[h].path \in Key
           /\ handles[h].cache \in Object
           /\ h \in UsersOf(handles[h].cache)
<1>1. handles[h] \in HandleState
    BY DEF Types
<1>2. PICK k \in Key, o \in Object : handles[h] = Open(k, o)
    BY <1>1, HandleStates DEF HandleState, IsOpen
<1> QED
    BY <1>2, HandleStates DEF UsersOf

LEMMA NoLongerOpen ==
    ASSUME Types, NEW h \in Handle, NEW o \in Object, h \in UsersOf(o),
           NEW new \in {Closed, Closing}, handles' = [handles EXCEPT ![h] = new]
    PROVE  /\ UsersOf(o)' = UsersOf(o) \ {h}
           /\ \A p \in Object : p # o => UsersOf(p)' = UsersOf(p)
<1>1. new.state # "open"
    BY HandleStates
<1>2. \A g \in Handle : handles'[g] = IF g = h THEN new ELSE handles[g]
    BY DEF Types
<1>3. \A p \in Object, g \in Handle :
          g \in UsersOf(p)' <=> g # h /\ g \in UsersOf(p)
    BY <1>1, <1>2 DEF UsersOf, IsOpen
<1>4. \A p \in Object : p # o => h \notin UsersOf(p)
    BY DEF UsersOf
<1>5. \A p \in Object : UsersOf(p) \subseteq Handle /\ UsersOf(p)' \subseteq Handle
    BY DEF UsersOf
<1> QED
    BY <1>3, <1>4, <1>5

(* A file that has got another name still reads the same cache.               *)
LEMMA Renamed ==
    ASSUME Types, NEW k \in Key, NEW j \in Key, RenameDirectory(k, j)
    PROVE  /\ handles' \in [Handle -> HandleState]
           /\ \A o \in Object : UsersOf(o)' = UsersOf(o)
<1>1. \A h \in Handle : handles'[h] = IF IsOpen(h) /\ handles[h].path = k
                                     THEN Open(j, handles[h].cache) ELSE handles[h]
    BY DEF RenameDirectory
<1>2. handles' \in [Handle -> HandleState]
  <2>1. ASSUME NEW h \in Handle
        PROVE  (IF IsOpen(h) /\ handles[h].path = k
                THEN Open(j, handles[h].cache) ELSE handles[h]) \in HandleState
      BY OpenUses DEF HandleState, Types
  <2> QED
      BY <2>1 DEF RenameDirectory
<1>3. \A o \in Object, h \in Handle : h \in UsersOf(o)' <=> h \in UsersOf(o)
    BY <1>1, HandleStates DEF UsersOf, IsOpen
<1>4. \A o \in Object : UsersOf(o) \subseteq Handle /\ UsersOf(o)' \subseteq Handle
    BY DEF UsersOf
<1> QED
    BY <1>2, <1>3, <1>4

-----------------------------------------------------------------------------
(* What is done to the entry of one file.                                     *)

LEMMA NewEntry ==
    ASSUME Types, NEW k \in Key, NEW o \in Object, NEW time \in 0 .. MaxTime,
           NEW fails \in BOOLEAN, New(k, o, time, fails)
    PROVE  /\ entries' \in [Key -> Entry \cup {None}]
           /\ keyOf' \in [Object -> Key \cup {None}]
           /\ running' \subseteq running \cup {o} /\ running' \subseteq Object
           /\ entries[k] = None /\ entries'[k] # None
           /\ entries'[k].cache = o /\ entries'[k].usageCount = 1
           /\ \A j \in Key : j # k => entries'[j] = entries[j]
           /\ keyOf'[o] = k /\ \A p \in Object : p # o => keyOf'[p] = keyOf[p]
           /\ robbed' = robbed \ {o}
           /\ UsersOf(o) = {}
           /\ \A j \in Key : entries[j] # None => entries[j].cache # o
<1>1. CacheData(o, time, 1) \in Entry /\ CacheData(o, time, 1) # None
    BY EntryMade, EntryFields
<1>2. UsersOf(o) = {} /\ \A j \in Key : entries[j] # None => entries[j].cache # o
    BY DEF New, Owned, UsersOf, Present
<1>3. running' \subseteq running \cup {o} /\ running' \subseteq Object
    BY DEF New, Types
<1> QED
    BY <1>1, <1>2, <1>3, EntryMade DEF New, Types

LEMMA SharedEntry ==
    ASSUME Types, NEW k \in Key, NEW o \in Object, NEW time \in 0 .. MaxTime, Share(k, o, time)
    PROVE  /\ entries' \in [Key -> Entry \cup {None}]
           /\ entries[k] # None /\ entries'[k] # None
           /\ entries[k].cache = o /\ entries'[k].cache = o
           /\ entries[k].usageCount \in Nat
           /\ entries'[k].usageCount = entries[k].usageCount + 1
           /\ \A j \in Key : j # k => entries'[j] = entries[j]
<1> DEFINE e == CacheData(o, time, entries[k].usageCount + 1)
<1>1. entries[k].usageCount \in Nat
    BY EntryFields DEF Share, Types
<1>2. e \in Entry /\ e.cache = o /\ e.usageCount = entries[k].usageCount + 1
    BY <1>1, EntryMade
<1>3. e # None
    BY <1>2, EntryFields
<1>4. entries' = [entries EXCEPT ![k] = e]
    BY DEF Share
<1> HIDE DEF e
<1> QED
    BY <1>1, <1>2, <1>3, <1>4 DEF Share, Types

LEMMA GivenBack ==
    ASSUME Types, NEW k \in Key, entries[k] # None, ~Unused(k), GiveBack(k)
    PROVE  /\ entries' \in [Key -> Entry \cup {None}]
           /\ entries'[k] # None
           /\ entries'[k].cache = entries[k].cache
           /\ entries[k].usageCount \in Nat /\ entries[k].usageCount > 0
           /\ entries'[k].usageCount = entries[k].usageCount - 1
           /\ \A j \in Key : j # k => entries'[j] = entries[j]
<1>1. PICK time \in 0 .. MaxTime :
          entries' = [entries EXCEPT ![k] =
                         CacheData(@.cache, time, @.usageCount - 1)]
    BY DEF GiveBack
<1> DEFINE e == CacheData(entries[k].cache, time, entries[k].usageCount - 1)
<1>2. entries[k].usageCount \in Nat /\ entries[k].cache \in Object
    BY EntryFields DEF Types
<1>3. entries[k].usageCount > 0 /\ entries[k].usageCount - 1 \in Nat
    BY <1>2 DEF Unused
<1>4. e \in Entry /\ e.cache = entries[k].cache /\ e.usageCount = entries[k].usageCount - 1
    BY <1>2, <1>3, EntryMade
<1>5. e # None
    BY <1>4, EntryFields
<1>6. entries' = [entries EXCEPT ![k] = e]
    BY <1>1
<1> HIDE DEF e
<1> QED
    BY <1>2, <1>3, <1>4, <1>5, <1>6 DEF Types

-----------------------------------------------------------------------------
(* Counting.                                                                 *)

(* Nothing was done to the entry and the users of its cache, or only history. *)
LEMMA Unchanged ==
    ASSUME NEW k \in Key, CountOf(k), entries'[k] = entries[k],
           \A o \in Object : entries[k] # None /\ entries[k].cache = o =>
               /\ UsersOf(o)' = UsersOf(o)
               /\ o \in robbed => o \in robbed'
               /\ o \in pinned => o \in pinned'
    PROVE  CountOf(k)'
<1> SUFFICES ASSUME NEW o \in Object, entries'[k] # None, entries'[k].cache = o
             PROVE  /\ o \notin robbed' => Cardinality(UsersOf(o)') <= entries'[k].usageCount
                    /\ o \notin pinned' => entries'[k].usageCount <= Cardinality(UsersOf(o)')
    BY DEF CountOf
<1>1. /\ o \notin robbed => Cardinality(UsersOf(o)) <= entries[k].usageCount
      /\ o \notin pinned => entries[k].usageCount <= Cardinality(UsersOf(o))
    BY DEF CountOf
<1> QED
    BY <1>1

LEMMA CountFacts ==
    ASSUME Types, Finite, NEW k \in Key, entries[k] # None
    PROVE  /\ entries[k].usageCount \in Nat
           /\ entries[k].cache \in Object
           /\ IsFiniteSet(UsersOf(entries[k].cache))
           /\ Cardinality(UsersOf(entries[k].cache)) \in Nat
BY EntryFields, FS_CardinalityType DEF Types, Finite

(* One more or one fewer user.                                              *)
LEMMA Moved ==
    ASSUME NEW S, IsFiniteSet(S), NEW h
    PROVE  /\ IsFiniteSet(S \cup {h}) /\ IsFiniteSet(S \ {h})
           /\ Cardinality(S) \in Nat
           /\ h \notin S => Cardinality(S \cup {h}) = Cardinality(S) + 1
           /\ h \in S => Cardinality(S \ {h}) = Cardinality(S) - 1 /\ Cardinality(S) > 0
<1>1. Cardinality(S) \in Nat
    BY FS_CardinalityType
<1>2. IsFiniteSet(S \cup {h}) /\ (h \notin S => Cardinality(S \cup {h}) = Cardinality(S) + 1)
    BY FS_AddElement
<1>3. IsFiniteSet(S \ {h}) /\ (h \in S => Cardinality(S \ {h}) = Cardinality(S) - 1)
    BY FS_RemoveElement
<1>4. h \in S => Cardinality(S) # 0
    BY FS_EmptySet
<1> QED
    BY <1>1, <1>2, <1>3, <1>4

(* A file that is open is a user: the release of it that is its own finds the *)
(* count above 0 unless its cache was robbed.                               *)
LEMMA OpenIsUser ==
    ASSUME Types, Finite, NEW k \in Key, CountOf(k), entries[k] # None,
           UsersOf(entries[k].cache) # {}, entries[k].cache \notin robbed
    PROVE  entries[k].usageCount > 0
<1>1. /\ IsFiniteSet(UsersOf(entries[k].cache)) /\ entries[k].usageCount \in Nat
      /\ Cardinality(UsersOf(entries[k].cache)) \in Nat
      /\ Cardinality(UsersOf(entries[k].cache)) <= entries[k].usageCount
    BY CountFacts DEF CountOf
<1>2. Cardinality(UsersOf(entries[k].cache)) # 0
    BY <1>1, FS_EmptySet
<1> QED
    BY <1>1, <1>2

-----------------------------------------------------------------------------
(* The steps.                                                                *)

(* A call of get() and what its caller does: one more user, of whom there is a *)
(* handle or not.                                                           *)
Caller(o) ==
    \/ /\ \E h \in Handle : h \notin UsersOf(o) /\ UsersOf(o)' = UsersOf(o) \cup {h}
       /\ \A p \in pinned : p = o \/ p \in pinned'
    \/ UsersOf(o)' = UsersOf(o) /\ pinned' = pinned \cup {o}

LEMMA NewKeeps ==
    ASSUME Inv, NEW k \in Key, NEW o \in Object, NEW time \in 0 .. MaxTime,
           NEW fails \in BOOLEAN, New(k, o, time, fails), Caller(o),
           handles' \in [Handle -> HandleState], failed' = failed, ~failed,
           \A p \in Object : p # o => UsersOf(p)' = UsersOf(p)
    PROVE  Inv'
<1>1. Types /\ Finite /\ (\A j \in Key : CountOf(j))
    BY DEF Inv, Counts
<1>2. /\ entries' \in [Key -> Entry \cup {None}]
      /\ keyOf' \in [Object -> Key \cup {None}]
      /\ running' \subseteq running \cup {o} /\ running' \subseteq Object
      /\ entries[k] = None /\ entries'[k] # None
      /\ entries'[k].cache = o /\ entries'[k].usageCount = 1
      /\ \A j \in Key : j # k => entries'[j] = entries[j]
      /\ keyOf'[o] = k /\ \A p \in Object : p # o => keyOf'[p] = keyOf[p]
      /\ robbed' = robbed \ {o}
      /\ UsersOf(o) = {}
      /\ \A j \in Key : entries[j] # None => entries[j].cache # o
    BY <1>1, NewEntry
<1>3. Types'
    BY <1>2 DEF Types
<1>4. IsFiniteSet(UsersOf(o)') /\ Cardinality(UsersOf(o)') \in {0, 1}
      /\ (o \notin pinned' => Cardinality(UsersOf(o)') = 1)
  <2>1. IsFiniteSet({}) /\ Cardinality({}) = 0
      BY FS_EmptySet
  <2>2. ASSUME NEW h \in Handle, UsersOf(o)' = UsersOf(o) \cup {h}
        PROVE  IsFiniteSet(UsersOf(o)') /\ Cardinality(UsersOf(o)') = 1
    <3>1. IsFiniteSet({} \cup {h}) /\ Cardinality({} \cup {h}) = Cardinality({}) + 1
        BY <2>1, Moved
    <3> QED
        BY <1>2, <2>1, <2>2, <3>1
  <2>3. ASSUME UsersOf(o)' = UsersOf(o), o \in pinned'
        PROVE  IsFiniteSet(UsersOf(o)') /\ Cardinality(UsersOf(o)') = 0
      BY <1>2, <2>1, <2>3
  <2> QED
      BY <2>2, <2>3 DEF Caller
<1>5. Finite'
    BY <1>1, <1>4 DEF Finite
<1>6. \A j \in Key : entries[j] # None => entries[j].cache \in Object
    BY <1>1, CountFacts
<1>7. CountOf(k)'
  <2>1. Cardinality(UsersOf(o)') <= 1 /\ (o \notin pinned' => 1 <= Cardinality(UsersOf(o)'))
      BY <1>4
  <2> QED
      BY <1>2, <2>1 DEF CountOf
<1>8. ASSUME NEW j \in Key, j # k
      PROVE  CountOf(j)'
    BY <1>1, <1>2, <1>6, <1>8, Unchanged DEF Caller
<1>9. Counts'
    BY <1>7, <1>8 DEF Counts
<1>10. Keyed'
    BY <1>2, <1>6 DEF Inv, Keyed
<1>11. Registered(o)' /\ \A p \in Object : p # o /\ Registered(p) => Registered(p)'
    BY <1>2 DEF Registered
<1>12. RunningHeld'
    BY <1>2, <1>11 DEF Inv, RunningHeld
<1>13. ReadHeld'
  <2> SUFFICES ASSUME NEW p \in Object, p \notin robbed', UsersOf(p)' # {}
               PROVE  Registered(p)'
      BY DEF ReadHeld
  <2>1. p # o => p \notin robbed /\ UsersOf(p) # {}
      BY <1>2
  <2> QED
      BY <1>11, <2>1 DEF Inv, ReadHeld
<1>14. FailedInv'
    BY DEF FailedInv
<1> QED
    BY <1>3, <1>5, <1>9, <1>10, <1>12, <1>13, <1>14 DEF Inv

LEMMA ShareKeeps ==
    ASSUME Inv, NEW k \in Key, NEW o \in Object, NEW time \in 0 .. MaxTime,
           Share(k, o, time), Caller(o), pinned \subseteq pinned',
           handles' \in [Handle -> HandleState], failed' = failed,
           \A p \in Object : p # o => UsersOf(p)' = UsersOf(p)
    PROVE  Inv'
<1>1. Types /\ Finite /\ (\A j \in Key : CountOf(j))
    BY DEF Inv, Counts
<1>2. /\ entries' \in [Key -> Entry \cup {None}]
      /\ entries[k] # None /\ entries'[k] # None
      /\ entries[k].cache = o /\ entries'[k].cache = o
      /\ entries[k].usageCount \in Nat
      /\ entries'[k].usageCount = entries[k].usageCount + 1
      /\ \A j \in Key : j # k => entries'[j] = entries[j]
    BY <1>1, SharedEntry
<1>3. running' = running /\ keyOf' = keyOf /\ robbed' = robbed
    BY DEF Share
<1>4. Types'
    BY <1>1, <1>2, <1>3 DEF Types
<1> DEFINE n == Cardinality(UsersOf(o))
           n2 == Cardinality(UsersOf(o)')
<1>5. IsFiniteSet(UsersOf(o)) /\ n \in Nat
    BY <1>1, FS_CardinalityType DEF Finite
<1>6. IsFiniteSet(UsersOf(o)') /\ (n2 = n + 1 \/ (n2 = n /\ o \in pinned'))
  <2>1. ASSUME NEW h \in Handle, h \notin UsersOf(o), UsersOf(o)' = UsersOf(o) \cup {h}
        PROVE  IsFiniteSet(UsersOf(o)') /\ n2 = n + 1
      BY <1>5, <2>1, Moved
  <2>2. ASSUME UsersOf(o)' = UsersOf(o), o \in pinned'
        PROVE  IsFiniteSet(UsersOf(o)') /\ n2 = n /\ o \in pinned'
      BY <1>5, <2>2
  <2> QED
      BY <2>1, <2>2 DEF Caller
<1>7. Finite'
    BY <1>1, <1>6 DEF Finite
<1>8. /\ o \notin robbed => n <= entries[k].usageCount
      /\ o \notin pinned => entries[k].usageCount <= n
    BY <1>1, <1>2 DEF CountOf
<1> HIDE DEF n, n2
<1>10. /\ o \notin robbed' => n2 <= entries'[k].usageCount
       /\ o \notin pinned' => entries'[k].usageCount <= n2
    BY <1>2, <1>3, <1>5, <1>6, <1>8
<1>11. CountOf(k)'
    BY <1>2, <1>10 DEF CountOf, n2
<1>12. ASSUME NEW j \in Key, j # k
       PROVE  CountOf(j)'
  <2>1. entries[j] # None => entries[j].cache # o /\ entries[j].cache \in Object
      BY <1>1, <1>2, <1>12, CountFacts DEF Inv, Keyed
  <2> QED
      BY <1>1, <1>2, <1>3, <1>12, <2>1, Unchanged
<1>13. Counts' /\ Keyed'
    BY <1>2, <1>3, <1>11, <1>12 DEF Inv, Counts, Keyed
<1>14. \A p \in Object : Registered(p) => Registered(p)'
    BY <1>2, <1>3 DEF Registered
<1>15. Registered(o)
    BY <1>2 DEF Inv, Keyed, Registered
<1>16. RunningHeld' /\ ReadHeld'
  <2>1. RunningHeld'
      BY <1>1, <1>3, <1>14 DEF Inv, RunningHeld, Types
  <2>2. ReadHeld'
      BY <1>3, <1>14, <1>15 DEF Inv, ReadHeld
  <2> QED
      BY <2>1, <2>2
<1>17. FailedInv'
    BY <1>3 DEF Inv, FailedInv
<1> QED
    BY <1>4, <1>7, <1>13, <1>16, <1>17 DEF Inv

LEMMA Gets ==
    ASSUME NEW k \in Key, NEW o \in Object, Get(k, o) \/ GetAndFail(k, o)
    PROVE  /\ cleaner = None /\ failed' = failed
           /\ \E time \in 0 .. MaxTime :
                 \/ \E fails \in BOOLEAN : New(k, o, time, fails)
                 \/ Share(k, o, time)
BY DEF Get, GetAndFail

LEMMA GetKeeps ==
    ASSUME Inv, ~failed, NEW k \in Key, NEW o \in Object, Get(k, o) \/ GetAndFail(k, o), Caller(o),
           entries[k] # None => pinned \subseteq pinned',
           handles' \in [Handle -> HandleState],
           \A p \in Object : p # o => UsersOf(p)' = UsersOf(p)
    PROVE  Inv'
<1>1. PICK time \in 0 .. MaxTime :
          \/ \E fails \in BOOLEAN : New(k, o, time, fails)
          \/ Share(k, o, time)
    BY Gets
<1>2. failed' = failed
    BY Gets
<1>3. CASE Share(k, o, time)
    BY <1>2, <1>3, ShareKeeps DEF Share
<1>4. ASSUME NEW fails \in BOOLEAN, New(k, o, time, fails)
      PROVE  Inv'
    BY <1>2, <1>4, NewKeeps
<1> QED
    BY <1>1, <1>3, <1>4

LEMMA OpenFileKeeps ==
    ASSUME Inv, ~failed, NEW h \in Handle, NEW k \in Key, OpenFile(h, k)
    PROVE  Inv'
<1>1. PICK o \in Object :
          /\ Get(k, o)
          /\ handles' = [handles EXCEPT ![h] = Open(k, o)]
          /\ pinned' = IF entries[k] = None THEN pinned \ {o} ELSE pinned
    BY DEF OpenFile
<1>2. Types /\ handles[h] = Closed
    BY DEF Inv, OpenFile
<1>3. handles' \in [Handle -> HandleState]
    BY <1>1, <1>2 DEF Types, HandleState
<1>4. /\ h \notin UsersOf(o) /\ UsersOf(o)' = UsersOf(o) \cup {h}
      /\ \A p \in Object : p # o => UsersOf(p)' = UsersOf(p)
    BY <1>1, <1>2, Opened
<1>5. Caller(o) /\ (entries[k] # None => pinned \subseteq pinned')
    BY <1>1, <1>4 DEF Caller
<1> QED
    BY <1>1, <1>3, <1>4, <1>5, GetKeeps

LEMMA UncalledKeeps ==
    ASSUME Inv, ~failed, NEW k \in Key, OpenFails(k) \/ Preload(k)
    PROVE  Inv'
<1>1. PICK o \in Object : (Get(k, o) \/ GetAndFail(k, o)) /\ pinned' = pinned \cup {o}
    BY DEF OpenFails, Preload
<1>2. handles' = handles
    BY DEF OpenFails, Preload
<1>3. handles' \in [Handle -> HandleState]
    BY <1>2 DEF Inv, Types
<1>4. \A p \in Object : UsersOf(p)' = UsersOf(p)
    BY <1>2 DEF UsersOf, IsOpen
<1>5. Caller(o) /\ pinned \subseteq pinned'
    BY <1>1, <1>4 DEF Caller
<1> QED
    BY <1>1, <1>3, <1>4, <1>5, GetKeeps

(* Of a step that changes no entry. *)
LEMMA OthersKeep ==
    ASSUME Inv, UNCHANGED <<entries, keyOf>>, running' \subseteq running,
           robbed \subseteq robbed', pinned \subseteq pinned', failed' => failed \/ robbed' # {},
           handles' \in [Handle -> HandleState], \A o \in Object : UsersOf(o)' = UsersOf(o)
    PROVE  Inv'
<1>1. Types /\ Finite /\ (\A j \in Key : CountOf(j))
    BY DEF Inv, Counts
<1>2. Types' /\ Finite'
    BY <1>1 DEF Types, Finite
<1>3. Counts'
  <2>1. \A j \in Key : entries[j] # None => entries[j].cache \in Object
      BY <1>1, CountFacts
  <2> QED
      BY <1>1, <2>1, Unchanged DEF Counts
<1>4. \A o \in Object : Registered(o)' <=> Registered(o)
    BY DEF Registered
<1>5. Keyed' /\ RunningHeld' /\ ReadHeld' /\ FailedInv'
  <2>1. Keyed'
      BY DEF Inv, Keyed
  <2>2. RunningHeld'
      BY <1>1, <1>4 DEF Inv, RunningHeld, Types
  <2>3. ReadHeld'
      BY <1>4 DEF Inv, ReadHeld
  <2>4. FailedInv'
      BY DEF Inv, FailedInv
  <2> QED
      BY <2>1, <2>2, <2>3, <2>4
<1> QED
    BY <1>2, <1>3, <1>5 DEF Inv

(* A release of an open file, its own or a stray one.                        *)
LEMMA ReleaseFileKeeps ==
    ASSUME Inv, NEW h \in Handle, ReleaseFile(h)
    PROVE  Inv'
<1> DEFINE new == IF cacheLimit > 0 THEN Closing ELSE Closed
<1>1. Types /\ Finite /\ (\A j \in Key : CountOf(j))
    BY DEF Inv, Counts
<1>16. IsOpen(h)
    BY DEF ReleaseFile
<1>3. PICK path \in Key, o \in Object :
          handles[h].path = path /\ handles[h].cache = o /\ h \in UsersOf(o)
    BY <1>1, <1>16, OpenUses
<1>2. /\ IsOpen(h) /\ new \in {Closed, Closing}
      /\ handles' = [handles EXCEPT ![h] = new]
      /\ ~Unused(path) /\ GiveBack(path)
      /\ UNCHANGED <<running, keyOf, failed>>
      /\ robbed' = IF ~OwnUse(h) /\ entries[path] # None
                   THEN robbed \cup {entries[path].cache} ELSE robbed
      /\ pinned' = IF OwnUse(h) THEN pinned ELSE pinned \cup {o}
      /\ OwnUse(h) <=> entries[path] # None /\ entries[path].cache = o
    BY <1>3 DEF ReleaseFile, RecordRelease, OwnUse
<1> HIDE DEF new
<1>4. /\ UsersOf(o)' = UsersOf(o) \ {h}
      /\ \A p \in Object : p # o => UsersOf(p)' = UsersOf(p)
    BY <1>1, <1>2, <1>3, NoLongerOpen
<1>5. /\ entries' \in [Key -> Entry \cup {None}]
      /\ \A j \in Key : j # path => entries'[j] = entries[j]
      /\ entries[path] = None => entries'[path] = entries[path]
      /\ entries[path] # None =>
            /\ entries'[path] # None
            /\ entries'[path].cache = entries[path].cache
            /\ entries[path].usageCount \in Nat /\ entries[path].usageCount > 0
            /\ entries'[path].usageCount = entries[path].usageCount - 1
  <2>1. CASE entries[path] = None
      BY <1>1, <1>2, <2>1 DEF GiveBack, Types
  <2>2. CASE entries[path] # None
      BY <1>1, <1>2, <1>3, <2>2, GivenBack
  <2> QED
      BY <2>1, <2>2
<1>6. Types'
    BY <1>1, <1>2, <1>5 DEF Types, HandleState
<1>7. /\ IsFiniteSet(UsersOf(o)) /\ IsFiniteSet(UsersOf(o)')
      /\ Cardinality(UsersOf(o)) \in Nat /\ Cardinality(UsersOf(o)) > 0
      /\ Cardinality(UsersOf(o)') = Cardinality(UsersOf(o)) - 1
    BY <1>1, <1>3, <1>4, Moved DEF Finite
<1>8. Finite'
    BY <1>1, <1>4, <1>7 DEF Finite
<1>9. ASSUME NEW j \in Key
      PROVE  CountOf(j)'
  <2> SUFFICES ASSUME NEW q \in Object, entries'[j] # None, entries'[j].cache = q
               PROVE  /\ q \notin robbed' => Cardinality(UsersOf(q)') <= entries'[j].usageCount
                      /\ q \notin pinned' => entries'[j].usageCount <= Cardinality(UsersOf(q)')
      BY DEF CountOf
  <2>1. entries[j] # None /\ entries[j].cache = q
      BY <1>5
  <2>2. q \in Object /\ entries[j].usageCount \in Nat /\ Cardinality(UsersOf(q)) \in Nat
      BY <1>1, <2>1, CountFacts
  <2>3. /\ q \notin robbed => Cardinality(UsersOf(q)) <= entries[j].usageCount
        /\ q \notin pinned => entries[j].usageCount <= Cardinality(UsersOf(q))
      BY <1>1, <2>1 DEF CountOf
  <2>10. j = path => q = entries[path].cache
      BY <2>1
  <2>5. /\ q \notin robbed' => Cardinality(UsersOf(q)') <= entries'[j].usageCount
        /\ q \notin pinned' => entries'[j].usageCount <= Cardinality(UsersOf(q)')
    <3>1. CASE j # path /\ q # o
        BY <1>2, <1>4, <1>5, <2>2, <2>3, <3>1
    <3>2. CASE j # path /\ q = o
      <4>1. entries'[j] = entries[j]
          BY <1>5, <3>2
      <4>2. ~OwnUse(h)
          BY <1>2, <1>3, <2>1, <3>2 DEF Inv, Keyed
      <4>3. o \in pinned'
          BY <1>2, <4>2
      <4>4. q \notin robbed' => q \notin robbed
          BY <1>2
      <4> QED
          BY <1>7, <2>2, <2>3, <3>2, <4>1, <4>3, <4>4
    <3>3. CASE j = path /\ q # o
      <4>1. ~OwnUse(h) /\ q \in robbed'
          BY <1>2, <2>1, <2>10, <3>3
      <4>2. UsersOf(q)' = UsersOf(q) /\ (q \notin pinned' => q \notin pinned)
          BY <1>2, <1>4, <2>2, <3>3
      <4> QED
          BY <1>5, <2>1, <2>2, <2>3, <3>3, <4>1, <4>2
    <3>4. CASE j = path /\ q = o
      <4>1. OwnUse(h) /\ robbed' = robbed /\ pinned' = pinned
          BY <1>2, <2>1, <2>10, <3>4
      <4> QED
          BY <1>5, <1>7, <2>1, <2>2, <2>3, <3>4, <4>1
    <3> QED
        BY <3>1, <3>2, <3>3, <3>4
  <2> QED
      BY <2>5
<1>10. Counts'
    BY <1>9 DEF Counts
<1>11. \A j \in Key : /\ entries'[j] # None <=> entries[j] # None
                      /\ entries[j] # None => entries'[j].cache = entries[j].cache
    BY <1>5
<1>12. Keyed' /\ \A p \in Object : Registered(p)' <=> Registered(p)
    BY <1>2, <1>11 DEF Inv, Keyed, Registered
<1>13. RunningHeld'
    BY <1>1, <1>2, <1>12 DEF Inv, RunningHeld, Types
<1>14. ReadHeld'
  <2>1. \A p \in Object : UsersOf(p)' \subseteq UsersOf(p)
      BY <1>4
  <2>2. robbed \subseteq robbed'
      BY <1>2
  <2> QED
      BY <1>12, <2>1, <2>2 DEF Inv, ReadHeld
<1>15. FailedInv'
    BY <1>2 DEF Inv, FailedInv
<1> QED
    BY <1>6, <1>8, <1>10, <1>12, <1>13, <1>14, <1>15 DEF Inv

(* The assertion only fails where a stray release has been, or for one.        *)
LEMMA ReleaseAbortsKeeps ==
    ASSUME Inv, NEW h \in Handle, ReleaseAborts(h)
    PROVE  Inv'
<1> DEFINE path == handles[h].path
           o == handles[h].cache
<1>1. Types /\ Finite /\ (\A j \in Key : CountOf(j))
    BY DEF Inv, Counts
<1>2. /\ IsOpen(h) /\ entries[path] # None /\ entries[path].usageCount = 0
      /\ UNCHANGED <<entries, handles, running, keyOf>>
      /\ robbed' = IF entries[path].cache # o THEN robbed \cup {entries[path].cache} ELSE robbed
      /\ pinned \subseteq pinned'
    BY DEF ReleaseAborts, Unused, RecordRelease, OwnUse
<1>3. path \in Key /\ h \in UsersOf(o)
    BY <1>1, <1>2, OpenUses
<1> HIDE DEF path, o
<1>4. robbed' # {} /\ robbed \subseteq robbed'
  <2>1. entries[path].cache = o => o \in robbed
      BY <1>1, <1>2, <1>3, OpenIsUser
  <2> QED
      BY <1>2, <2>1
<1>5. \A p \in Object : UsersOf(p)' = UsersOf(p)
    BY <1>2 DEF UsersOf, IsOpen
<1> QED
    BY <1>1, <1>2, <1>4, <1>5, OthersKeep DEF Types

LEMMA CleanupLookKeeps ==
    ASSUME Inv, NEW k \in Key, CleanupLook(k), entries[k] # None
    PROVE  Inv'
<1>1. Types /\ Finite /\ (\A j \in Key : CountOf(j))
    BY DEF Inv, Counts
<1>2. /\ entries' = IF Evictable(k) THEN [entries EXCEPT ![k] = None] ELSE entries
      /\ UNCHANGED <<handles, running, failed, keyOf, robbed, pinned>>
    BY DEF CleanupLook, history
<1>3. \A o \in Object : UsersOf(o)' = UsersOf(o)
    BY <1>2 DEF UsersOf, IsOpen
<1>4. CASE ~Evictable(k)
    BY <1>1, <1>2, <1>3, <1>4, OthersKeep DEF Inv, FailedInv, Types
<1>5. CASE Evictable(k)
  <2>1. /\ entries' \in [Key -> Entry \cup {None}]
        /\ entries'[k] = None
        /\ \A j \in Key : j # k => entries'[j] = entries[j]
      BY <1>1, <1>2, <1>5 DEF Types
  <2>2. Types' /\ Finite'
      BY <1>1, <1>2, <1>3, <2>1 DEF Types, Finite
  <2>3. Counts'
    <3>1. \A j \in Key : entries[j] # None => entries[j].cache \in Object
        BY <1>1, CountFacts
    <3>2. ASSUME NEW j \in Key, j # k
          PROVE  CountOf(j)'
        BY <1>1, <1>2, <1>3, <2>1, <3>1, <3>2, Unchanged
    <3>3. CountOf(k)'
        BY <2>1 DEF CountOf
    <3> QED
        BY <3>2, <3>3 DEF Counts
  <2>4. Keyed' /\ FailedInv'
      BY <1>2, <2>1 DEF Inv, Keyed, FailedInv
  <2>5. ASSUME NEW p \in Object, Registered(p), p # entries[k].cache
        PROVE  Registered(p)'
      BY <1>2, <2>1, <2>5 DEF Registered
  <2>6. entries[k].cache \notin running
      BY <1>5 DEF Evictable, Unfinished
  <2>7. entries[k].cache \in robbed \/ UsersOf(entries[k].cache) = {}
      BY <1>1, <1>5, OpenIsUser DEF Evictable
  <2>8. RunningHeld'
      BY <1>1, <1>2, <2>5, <2>6 DEF Inv, RunningHeld, Types
  <2>9. ReadHeld'
      BY <1>2, <1>3, <2>5, <2>7 DEF Inv, ReadHeld
  <2> QED
      BY <2>2, <2>3, <2>4, <2>8, <2>9 DEF Inv
<1> QED
    BY <1>4, <1>5

LEMMA CleanupBeginKeeps ==
    ASSUME Inv, NEW h \in Handle, CleanupBegin(h)
    PROVE  Inv'
<1>1. /\ Types /\ handles[h].state # "open"
      /\ handles' = [handles EXCEPT ![h] = Closed]
      /\ UNCHANGED <<entries, running, failed, keyOf, robbed, pinned>>
    BY HandleStates DEF Inv, CleanupBegin, history
<1>2. \A o \in Object : UsersOf(o)' = UsersOf(o)
    BY <1>1, NotOpened
<1>3. handles' \in [Handle -> HandleState]
    BY <1>1 DEF Types, HandleState
<1> QED
    BY <1>1, <1>2, <1>3, OthersKeep DEF Inv, FailedInv

LEMMA RenameKeeps ==
    ASSUME Inv, NEW k \in Key, NEW j \in Key, RenameDirectory(k, j)
    PROVE  Inv'
<1>1. UNCHANGED <<entries, running, failed, keyOf, robbed, pinned>>
    BY DEF RenameDirectory, history
<1>2. /\ handles' \in [Handle -> HandleState]
      /\ \A o \in Object : UsersOf(o)' = UsersOf(o)
    BY Renamed DEF Inv
<1> QED
    BY <1>1, <1>2, OthersKeep DEF Inv, FailedInv

(* cleanup() only looks at entries there are.                                *)
Shape == cleaner # None => cleaner \in Cleaning /\ cleaner.left \subseteq Present

LEMMA NextKeeps ==
    ASSUME Inv, Shape, [Next]_vars
    PROVE  Inv'
<1>1. ASSUME UNCHANGED <<entries, handles, failed, keyOf, robbed, pinned>>, running' \subseteq running
      PROVE  Inv'
    BY <1>1, OthersKeep DEF UsersOf, IsOpen, Inv, Types, FailedInv
<1>2. ASSUME NEW k \in Key, CleanupCount(k)
      PROVE  Inv'
    BY <1>1, <1>2 DEF CleanupCount, history
<1>3. CASE CleanupCounted
    BY <1>1, <1>3 DEF CleanupCounted, history
<1>4. ASSUME NEW o \in Object, Write(o) \/ Finish(o)
      PROVE  Inv'
    BY <1>1, <1>4 DEF Write, Finish, history
<1>5. CASE UNCHANGED vars
    BY <1>1, <1>5 DEF vars, history
<1>6. ASSUME NEW k \in Key, CleanupLook(k)
      PROVE  Inv'
  <2>1. entries[k] # None
      BY <1>6 DEF CleanupLook, Shape, Present
  <2> QED
      BY <1>6, <2>1, CleanupLookKeeps
<1>7. ASSUME ~failed, Use
      PROVE  Inv'
    BY <1>7, OpenFileKeeps, UncalledKeeps, RenameKeeps, ReleaseFileKeeps, ReleaseAbortsKeeps,
        CleanupBeginKeeps DEF Use
<1> QED
    BY <1>2, <1>3, <1>4, <1>5, <1>6, <1>7 DEF Next, Cleanup, Aborted

LEMMA InitInv ==
    ASSUME Init
    PROVE  Inv /\ Shape
<1>1. Types
    BY DEF Init, Types, HandleState
<1>2. \A o \in Object : UsersOf(o) = {}
    BY HandleStates DEF Init, UsersOf, IsOpen
<1>3. Finite
    BY <1>2, FS_EmptySet DEF Finite
<1>4. \A k \in Key : entries[k] = None
    BY DEF Init
<1> QED
    BY <1>1, <1>2, <1>3, <1>4 DEF Init, Inv, Counts, CountOf, Keyed, RunningHeld, ReadHeld,
        FailedInv, Shape

-----------------------------------------------------------------------------
(* Sums over finite sets.                                                    *)

(* Induction over finite sets: a property that some subset does not have is   *)
(* missing from a subset all of whose smaller subsets have it.               *)
LEMMA SmallestSubset ==
    ASSUME NEW S, IsFiniteSet(S), NEW C \in SUBSET (SUBSET S), C # {}
    PROVE  \E s \in C : \A t \in SUBSET s : t # s => t \notin C
<1> DEFINE R == StrictSubsetOrdering(S)
<1>1. C \subseteq FiniteSubsetsOf(S)
    BY FS_Subset DEF FiniteSubsetsOf
<1>2. IsWellFoundedOn(R, FiniteSubsetsOf(S))
    BY FS_StrictSubsetOrderingWellFounded
<1> HIDE DEF R
<1>3. PICK s \in C : \A t \in C : ~(<<t, s>> \in R)
    BY <1>1, <1>2, WFMin
<1>4. ASSUME NEW t \in SUBSET s, t # s, t \in C
      PROVE  FALSE
    BY <1>3, <1>4 DEF R, StrictSubsetOrdering
<1> QED
    BY <1>3, <1>4

Pick(s) == CHOOSE x \in s : TRUE

(* The function the community modules sum with: g[s] is the sum of f over s. *)
Sums(f, S, g) ==
    g = [s \in SUBSET S |-> IF s = {} THEN 0 ELSE f[Pick(s)] + g[s \ {Pick(s)}]]

SumOver(f, S) == (CHOOSE g : Sums(f, S, g))[S]

LEMMA Picked == ASSUME NEW s, s # {} PROVE Pick(s) \in s /\ s \ {Pick(s)} \in SUBSET s /\ s \ {Pick(s)} # s
BY DEF Pick

LEMMA SumsAgree ==
    ASSUME NEW S, IsFiniteSet(S), NEW f, NEW g, Sums(f, S, g),
           NEW S2, NEW f2, NEW g2, Sums(f2, S2, g2),
           NEW A \in SUBSET S, A \in SUBSET S2, \A x \in A : f[x] = f2[x]
    PROVE  g[A] = g2[A]
<1> DEFINE C == {s \in SUBSET A : g[s] # g2[s]}
<1> SUFFICES ASSUME C # {} PROVE FALSE
    OBVIOUS
<1>1. IsFiniteSet(A) /\ C \in SUBSET (SUBSET A)
    BY FS_Subset
<1> HIDE DEF C
<1>2. PICK s \in C : \A t \in SUBSET s : t # s => t \notin C
    BY <1>1, SmallestSubset
<1>3. s \in SUBSET A /\ g[s] # g2[s]
    BY <1>2 DEF C
<1>4. /\ g[s] = IF s = {} THEN 0 ELSE f[Pick(s)] + g[s \ {Pick(s)}]
      /\ g2[s] = IF s = {} THEN 0 ELSE f2[Pick(s)] + g2[s \ {Pick(s)}]
    BY <1>3 DEF Sums
<1>5. s # {}
    BY <1>3, <1>4
<1>6. /\ Pick(s) \in A
      /\ s \ {Pick(s)} \in SUBSET A
      /\ s \ {Pick(s)} \notin C
    BY <1>2, <1>3, <1>5, Picked
<1>7. g[s \ {Pick(s)}] = g2[s \ {Pick(s)}] /\ f[Pick(s)] = f2[Pick(s)]
    BY <1>6 DEF C
<1> QED
    BY <1>3, <1>4, <1>5, <1>7

(* Such a function exists for every finite set. *)
LEMMA SumsExist ==
    ASSUME NEW S, IsFiniteSet(S), NEW f
    PROVE  Sums(f, S, CHOOSE g : Sums(f, S, g))
<1> DEFINE Solved(s) == Sums(f, s, CHOOSE g : Sums(f, s, g))
           C == {s \in SUBSET S : ~Solved(s)}
<1> SUFFICES ASSUME ~Solved(S) PROVE FALSE
    OBVIOUS
<1>1. C \in SUBSET (SUBSET S) /\ C # {}
    OBVIOUS
<1> HIDE DEF C
<1>2. PICK a \in C : \A t \in SUBSET a : t # a => t \notin C
    BY <1>1, SmallestSubset
<1>3. a \in SUBSET S /\ ~Solved(a) /\ IsFiniteSet(a)
    BY <1>2, FS_Subset DEF C
<1>4. \A t \in SUBSET a : t # a => Solved(t)
    BY <1>2, <1>3 DEF C
<1> DEFINE G == [s \in SUBSET a |->
                    IF s = {} THEN 0 ELSE f[Pick(s)] + SumOver(f, s \ {Pick(s)})]
<1>5. ASSUME NEW t \in SUBSET a, t # a
      PROVE  G[t] = SumOver(f, t)
  <2> DEFINE g == CHOOSE g : Sums(f, t, g)
  <2>1. Sums(f, t, g) /\ SumOver(f, t) = g[t] /\ IsFiniteSet(t)
      BY <1>3, <1>4, <1>5, FS_Subset DEF SumOver
  <2> HIDE DEF g
  <2>2. g[t] = IF t = {} THEN 0 ELSE f[Pick(t)] + g[t \ {Pick(t)}]
      BY <2>1 DEF Sums
  <2>3. CASE t = {}
      BY <2>1, <2>2, <2>3
  <2>4. CASE t # {}
    <3> DEFINE u == t \ {Pick(t)}
               h == CHOOSE h : Sums(f, u, h)
    <3>1. u \in SUBSET t /\ u \in SUBSET a /\ u # a
        BY <1>5, <2>4, Picked
    <3>2. Sums(f, u, h) /\ SumOver(f, u) = h[u]
        BY <1>4, <3>1 DEF SumOver
    <3> HIDE DEF h, u
    <3>3. g[u] = h[u]
        BY <2>1, <3>1, <3>2, SumsAgree
    <3> QED
        BY <2>1, <2>2, <2>4, <3>2, <3>3 DEF u
  <2> QED
      BY <2>3, <2>4
<1>6. Sums(f, a, G)
  <2>1. ASSUME NEW s \in SUBSET a, s # {}
        PROVE  SumOver(f, s \ {Pick(s)}) = G[s \ {Pick(s)}]
    <3>1. s \ {Pick(s)} \in SUBSET a /\ s \ {Pick(s)} # a
        BY <2>1, Picked
    <3> QED
        BY <1>5, <3>1
  <2>2. G = [s \in SUBSET a |-> IF s = {} THEN 0 ELSE f[Pick(s)] + SumOver(f, s \ {Pick(s)})]
      OBVIOUS
  <2> HIDE DEF G
  <2> QED
      BY <2>1, <2>2 DEF Sums
<1> HIDE DEF G
<1>7. Solved(a)
    BY <1>6
<1> QED
    BY <1>3, <1>7

LEMMA SumEmpty == \A f : SumOver(f, {}) = 0
<1> SUFFICES ASSUME NEW f PROVE SumOver(f, {}) = 0
    OBVIOUS
<1> DEFINE g == CHOOSE g : Sums(f, {}, g)
<1>1. Sums(f, {}, g) /\ SumOver(f, {}) = g[{}]
    BY FS_EmptySet, SumsExist DEF SumOver
<1> HIDE DEF g
<1> QED
    BY <1>1 DEF Sums

(* Taking out one element takes its part out of the sum. *)
LEMMA SumWithout ==
    ASSUME NEW S, IsFiniteSet(S), NEW f, \A x \in S : f[x] \in Nat, NEW x \in S
    PROVE  SumOver(f, S) = f[x] + SumOver(f, S \ {x})
<1>1. ASSUME NEW s \in SUBSET S, s # {}
      PROVE  SumOver(f, s) = f[Pick(s)] + SumOver(f, s \ {Pick(s)})
  <2> DEFINE g == CHOOSE g : Sums(f, s, g)
             u == s \ {Pick(s)}
             h == CHOOSE h : Sums(f, u, h)
  <2>1. IsFiniteSet(s) /\ u \in SUBSET s /\ IsFiniteSet(u)
      BY <1>1, FS_Subset
  <2>2. Sums(f, s, g) /\ Sums(f, u, h) /\ SumOver(f, s) = g[s] /\ SumOver(f, u) = h[u]
      BY <2>1, SumsExist DEF SumOver
  <2> HIDE DEF g, h
  <2>3. g[s] = f[Pick(s)] + g[u]
      BY <1>1, <2>2 DEF Sums
  <2> HIDE DEF u
  <2>4. g[u] = h[u]
      BY <2>1, <2>2, SumsAgree
  <2> QED
      BY <2>2, <2>3, <2>4 DEF u
<1>2. SumOver(f, {}) = 0
    BY SumEmpty
<1> DEFINE C == {s \in SUBSET S : ~ /\ SumOver(f, s) \in Nat
                                    /\ \A y \in s : SumOver(f, s) = f[y] + SumOver(f, s \ {y})}
<1> SUFFICES ASSUME C # {} PROVE FALSE
    OBVIOUS
<1>3. C \in SUBSET (SUBSET S)
    OBVIOUS
<1> HIDE DEF C
<1>4. PICK s \in C : \A t \in SUBSET s : t # s => t \notin C
    BY <1>3, SmallestSubset
<1>5. \A t \in SUBSET s : t # s => /\ SumOver(f, t) \in Nat
                                  /\ \A y \in t : SumOver(f, t) = f[y] + SumOver(f, t \ {y})
  <2>1. s \in SUBSET S
      BY <1>4 DEF C
  <2> SUFFICES ASSUME NEW t \in SUBSET s, t # s
               PROVE  /\ SumOver(f, t) \in Nat
                      /\ \A y \in t : SumOver(f, t) = f[y] + SumOver(f, t \ {y})
      OBVIOUS
  <2>2. t \notin C /\ t \in SUBSET S
      BY <1>4, <2>1
  <2> QED
      BY <2>2 DEF C
<1>6. s \in SUBSET S /\ s # {}
  <2>1. /\ s \in SUBSET S
        /\ ~ /\ SumOver(f, s) \in Nat
             /\ \A y \in s : SumOver(f, s) = f[y] + SumOver(f, s \ {y})
      BY <1>4 DEF C
  <2> HIDE DEF C
  <2>2. s = {} => SumOver(f, s) \in Nat
      BY <1>2
  <2> QED
      BY <2>1, <2>2
<1> DEFINE p == Pick(s)
           u == s \ {p}
<1>7. p \in s /\ u \in SUBSET s /\ u # s
    BY <1>6, Picked
<1>8. SumOver(f, s) = f[p] + SumOver(f, u)
    BY <1>1, <1>6
<1> HIDE DEF p
<1>9. SumOver(f, s) \in Nat
    BY <1>5, <1>6, <1>7, <1>8
<1>10. ASSUME NEW y \in s, y # p
       PROVE  SumOver(f, s) = f[y] + SumOver(f, s \ {y})
  <2>1. y \in u /\ SumOver(f, u) = f[y] + SumOver(f, u \ {y})
      BY <1>5, <1>7, <1>10
  <2>2. p \in s \ {y} /\ SumOver(f, s \ {y}) = f[p] + SumOver(f, (s \ {y}) \ {p})
      BY <1>5, <1>7, <1>10
  <2>3. u \ {y} = (s \ {y}) \ {p}
      OBVIOUS
  <2>4. SumOver(f, u \ {y}) \in Nat /\ f[y] \in Nat /\ f[p] \in Nat
    <3>1. u \ {y} \in SUBSET s /\ u \ {y} # s
      BY <1>10
    <3> QED
      BY <1>5, <1>6, <1>7, <3>1
  <2> HIDE DEF u
  <2> QED
      BY <1>8, <2>1, <2>2, <2>3, <2>4
<1>11. \A y \in s : SumOver(f, s) = f[y] + SumOver(f, s \ {y})
    BY <1>8, <1>10
<1> QED
    BY <1>4, <1>9, <1>11 DEF C

LEMMA Monotone ==
    ASSUME NEW m \in Nat, NEW a \in Nat, NEW b \in Nat, a <= b
    PROVE  m * a <= m * b
<1>1. PICK d \in Nat : b = a + d
    BY b - a \in Nat
<1>2. m * b = m * a + m * d /\ m * d \in Nat /\ m * a \in Nat
    BY <1>1
<1> QED
    BY <1>2

LEMMA OneMore ==
    ASSUME NEW m \in Nat
    PROVE  /\ m * 0 = 0
           /\ \A a \in Nat : m * (a + 1) = m * a + m /\ m * a \in Nat
OBVIOUS

-----------------------------------------------------------------------------
(* What cleanup() knows while it runs.  It keeps the registry's mutex, so the  *)
(* entries are its own; a quiet one sees the caches as they are.             *)

SizesOK == size \in [Object -> 0 .. MaxSize]

Sizes == [k \in Key |-> size[entries[k].cache]]

(* The total is the size of the entries that were counted, and then of all     *)
(* that are left; an entry that was passed over cannot be evicted.           *)
Swept ==
    cleaner # None /\ cleaner.quiet =>
        /\ cleaner.phase = "sum" =>
              cleaner.total = SumOver(Sizes, Present \ cleaner.left)
        /\ cleaner.phase = "evict" =>
              /\ cleaner.total = SumOver(Sizes, Present)
              /\ \A k \in Present \ cleaner.left : ~Evictable(k)

CleanupInv == Inv /\ SizesOK /\ Shape /\ Swept

LEMMA TotalIsSum ==
    ASSUME NEW S, IsFiniteSet(S), NEW e, NEW n
    PROVE  MapThenSumSet(LAMBDA k : n[e[k].cache], S) = SumOver([k \in S |-> n[e[k].cache]], S)
<1> DEFINE f == [k \in S |-> n[e[k].cache]]
           P(g) == g = [s \in SUBSET S |->
                           IF s = {} THEN 0
                           ELSE n[e[CHOOSE x \in s : TRUE].cache] + g[s \ {CHOOSE x \in s : TRUE}]]
<1>1. MapThenSumSet(LAMBDA k : n[e[k].cache], S) = (CHOOSE g : P(g))[S]
    BY DEF MapThenSumSet, MapThenFoldSet
<1>2. ASSUME NEW g
      PROVE  P(g) <=> Sums(f, S, g)
  <2>1. \A s \in SUBSET S : s # {} => f[Pick(s)] = n[e[CHOOSE x \in s : TRUE].cache]
      BY Picked DEF Pick
  <2> HIDE DEF f
  <2> QED
      BY <2>1 DEF Sums, Pick
<1> HIDE DEF P, f
<1>3. (CHOOSE g : P(g)) = (CHOOSE g : Sums(f, S, g))
    BY <1>2
<1> QED
    BY <1>1, <1>3 DEF SumOver, f

LEMMA SumSame ==
    ASSUME NEW S, IsFiniteSet(S), NEW f, NEW f2, \A x \in S : f[x] = f2[x]
    PROVE  SumOver(f, S) = SumOver(f2, S)
<1> DEFINE g == CHOOSE g : Sums(f, S, g)
           g2 == CHOOSE g2 : Sums(f2, S, g2)
<1>1. /\ Sums(f, S, g) /\ Sums(f2, S, g2)
      /\ SumOver(f, S) = g[S] /\ SumOver(f2, S) = g2[S]
    BY SumsExist DEF SumOver
<1> HIDE DEF g, g2
<1> QED
    BY <1>1, SumsAgree

LEMMA SumBounded ==
    ASSUME NEW S, IsFiniteSet(S), NEW m \in Nat, NEW f, \A x \in S : f[x] \in 0 .. m
    PROVE  SumOver(f, S) \in 0 .. m * Cardinality(S)
<1> DEFINE C == {s \in SUBSET S : SumOver(f, s) \notin 0 .. m * Cardinality(s)}
<1> SUFFICES ASSUME C # {} PROVE FALSE
    OBVIOUS
<1>1. C \in SUBSET (SUBSET S)
    OBVIOUS
<1> HIDE DEF C
<1>2. PICK s \in C : \A t \in SUBSET s : t # s => t \notin C
    BY <1>1, SmallestSubset
<1>3. /\ s \in SUBSET S /\ IsFiniteSet(s)
      /\ SumOver(f, s) \notin 0 .. m * Cardinality(s)
    BY <1>2, FS_Subset DEF C
<1>4. s # {}
  <2> SUFFICES ASSUME s = {} PROVE FALSE
      OBVIOUS
  <2>1. Cardinality(s) = 0 /\ SumOver(f, s) = 0
      BY FS_EmptySet, SumEmpty
  <2>2. m * Cardinality(s) = 0
      BY <2>1, OneMore
  <2> QED
      BY <1>3, <2>1, <2>2
<1> PICK x \in s : TRUE
    BY <1>4
<1> DEFINE u == s \ {x}
<1>5. SumOver(f, s) = f[x] + SumOver(f, u)
    BY <1>3, SumWithout
<1>6. SumOver(f, u) \in 0 .. m * Cardinality(u)
  <2>1. u \in SUBSET s /\ u # s /\ u \in SUBSET S
      BY <1>3
  <2>2. u \notin C
      BY <1>2, <2>1
  <2> HIDE DEF u
  <2> QED
      BY <2>1, <2>2 DEF C
<1>7. Cardinality(s) \in Nat /\ Cardinality(u) \in Nat /\ Cardinality(s) = Cardinality(u) + 1
  <2>1. IsFiniteSet(u) /\ Cardinality(u) = Cardinality(s) - 1
      BY <1>3, FS_RemoveElement
  <2>2. Cardinality(s) \in Nat /\ Cardinality(u) \in Nat
      BY <1>3, <2>1, FS_CardinalityType
  <2> QED
      BY <2>1, <2>2
<1>8. m * Cardinality(s) = m * Cardinality(u) + m /\ m * Cardinality(u) \in Nat
  <2>1. \A a \in Nat, b \in Nat : b = a + 1 => m * b = m * a + m /\ m * a \in Nat
      BY OneMore
  <2> HIDE DEF u
  <2> QED
      BY <1>7, <2>1
<1> HIDE DEF u
<1>9. f[x] \in 0 .. m
    BY <1>3
<1> QED
    BY <1>3, <1>5, <1>6, <1>8, <1>9

LEMMA PresentSums ==
    ASSUME Types, SizesOK, NEW S \in SUBSET Present
    PROVE  /\ IsFiniteSet(S)
           /\ \A k \in S : Sizes[k] = size[entries[k].cache] /\ Sizes[k] \in 0 .. MaxSize
           /\ SumOver(Sizes, S) \in 0 .. Word - 1
<1>1. S \in SUBSET Key /\ IsFiniteSet(Key) /\ IsFiniteSet(S) /\ MaxSize \in Nat /\ Word \in Nat
    BY CachesAssumption, FS_Subset DEF Present, CachesAssumption
<1>2. \A k \in S : Sizes[k] = size[entries[k].cache] /\ Sizes[k] \in 0 .. MaxSize
    BY <1>1, EntryFields DEF Types, SizesOK, Sizes, Present
<1>3. SumOver(Sizes, S) \in 0 .. MaxSize * Cardinality(S)
    BY <1>1, <1>2, SumBounded
<1>4. Cardinality(S) \in Nat /\ Cardinality(Key) \in Nat /\ Cardinality(S) <= Cardinality(Key)
    BY <1>1, FS_Subset, FS_CardinalityType
<1>5. MaxSize * Cardinality(S) <= MaxSize * Cardinality(Key)
    BY <1>1, <1>4, Monotone
<1>6. MaxSize * Cardinality(Key) < Word
    BY CachesAssumption DEF CachesAssumption
<1>7. MaxSize * Cardinality(S) \in Nat /\ MaxSize * Cardinality(Key) \in Nat
    BY <1>1, <1>4
<1> QED
    BY <1>1, <1>2, <1>3, <1>5, <1>6, <1>7

LEMMA Modulo ==
    ASSUME NEW n \in Int, NEW w \in Nat, w > 0
    PROVE  /\ n % w \in 0 .. w - 1
           /\ n \in 0 .. w - 1 => n % w = n
OBVIOUS

LEMMA WordPositive == Word \in Nat /\ Word > 0 /\ MaxSize \in Nat
<1>1. Cardinality(Key) \in Nat /\ MaxSize \in Nat
    BY CachesAssumption, FS_CardinalityType DEF CachesAssumption
<1>2. MaxSize * Cardinality(Key) \in Nat
    BY <1>1
<1> QED
    BY <1>1, <1>2, CachesAssumption DEF CachesAssumption

LEMMA CleaningFields ==
    ASSUME NEW c \in Cleaning
    PROVE  /\ c # None
           /\ c.phase \in {"sum", "evict"} /\ c.left \in SUBSET Key
           /\ c.total \in Nat /\ c.quiet \in BOOLEAN
BY CachesAssumption DEF Cleaning, CachesAssumption

LEMMA EntriesSame ==
    ASSUME entries' = entries
    PROVE  Present' = Present
BY DEF Present

LEMMA SizesSame ==
    ASSUME entries' = entries, size' = size
    PROVE  Present' = Present /\ Sizes' = Sizes
BY DEF Present, Sizes

LEMMA SizesKept ==
    ASSUME Inv, SizesOK, [Next]_vars
    PROVE  SizesOK'
<1>1. ASSUME NEW k \in Key, NEW o \in Object, Get(k, o) \/ GetAndFail(k, o)
      PROVE  SizesOK'
  <2>1. PICK time \in 0 .. MaxTime :
            \/ \E fails \in BOOLEAN : New(k, o, time, fails)
            \/ Share(k, o, time)
      BY <1>1, Gets
  <2> QED
      BY <2>1, WordPositive DEF New, Share, SizesOK
<1>2. ASSUME NEW o \in Object, Write(o)
      PROVE  SizesOK'
    BY <1>2, WordPositive DEF Write, SizesOK
<1>3. CASE size' = size
    BY <1>3 DEF SizesOK
<1> QED
    BY <1>1, <1>2, <1>3 DEF Next, Use, Aborted, Cleanup, OpenFile, OpenFails, Preload,
        RenameDirectory, ReleaseFile, ReleaseAborts, CleanupBegin, CleanupCount, CleanupLook,
        CleanupCounted, Finish, vars

LEMMA BeginSweeps ==
    ASSUME CleanupInv, NEW h \in Handle, CleanupBegin(h)
    PROVE  Shape' /\ Swept'
<1>1. cleaner' = Cleaner("sum", Present, 0, TRUE) /\ Present' = Present
    BY EntriesSame DEF CleanupBegin
<1>2. cleaner' \in Cleaning
    BY <1>1 DEF Cleaner, Cleaning, Present
<1>3. /\ cleaner'.phase = "sum" /\ cleaner'.left = Present' /\ cleaner'.total = 0
    BY <1>1 DEF Cleaner
<1>4. Present' \ cleaner'.left = {}
    BY <1>3
<1> QED
    BY <1>2, <1>3, <1>4, SumEmpty DEF Shape, Swept

LEMMA CountSweeps ==
    ASSUME CleanupInv, NEW k \in Key, CleanupCount(k)
    PROVE  Shape' /\ Swept'
<1>1. /\ Types /\ SizesOK /\ cleaner \in Cleaning /\ cleaner.left \subseteq Present
      /\ k \in cleaner.left /\ k \in Present /\ cleaner.phase = "sum"
      /\ cleaner' = [cleaner EXCEPT !.left = @ \ {k},
                                    !.total = (@ + size[entries[k].cache]) % Word]
      /\ Present' = Present /\ Sizes' = Sizes
    BY SizesSame DEF CleanupInv, Inv, Shape, CleanupCount
<1>2. /\ Sizes[k] = size[entries[k].cache] /\ Sizes[k] \in 0 .. MaxSize
    BY <1>1, PresentSums
<1> DEFINE total == (cleaner.total + Sizes[k]) % Word
<1>3. total \in Nat
    BY <1>1, <1>2, CleaningFields, WordPositive, Modulo
<1>4. /\ cleaner' \in Cleaning /\ cleaner'.left = cleaner.left \ {k}
      /\ cleaner'.total = total /\ cleaner'.phase = "sum" /\ cleaner'.quiet = cleaner.quiet
  <2> HIDE DEF total
  <2>1. cleaner' = [cleaner EXCEPT !.left = @ \ {k}, !.total = total]
      BY <1>1, <1>2 DEF total
  <2> QED
      BY <1>1, <1>3, <2>1 DEF Cleaning
<1>5. ASSUME cleaner.quiet
      PROVE  total = SumOver(Sizes, Present \ cleaner'.left)
  <2> DEFINE S == Present \ cleaner'.left
  <2>1. S \in SUBSET Present /\ k \in S /\ S \ {k} = Present \ cleaner.left
      BY <1>1, <1>4
  <2>2. cleaner.total = SumOver(Sizes, Present \ cleaner.left)
      BY <1>1, <1>5, CleaningFields DEF CleanupInv, Swept
  <2> HIDE DEF S
  <2>3. /\ IsFiniteSet(S) /\ SumOver(Sizes, S) \in 0 .. Word - 1
        /\ \A x \in S : Sizes[x] \in Nat
      BY <1>1, <2>1, PresentSums, WordPositive
  <2>4. SumOver(Sizes, S) = Sizes[k] + cleaner.total
      BY <2>1, <2>2, <2>3, SumWithout
  <2>5. cleaner.total + Sizes[k] = SumOver(Sizes, S)
      BY <1>1, <1>2, <2>4, CleaningFields, WordPositive
  <2> QED
      BY <2>3, <2>5, Modulo, WordPositive DEF S
<1> HIDE DEF total
<1> QED
    BY <1>1, <1>4, <1>5 DEF Shape, Swept

LEMMA CountedSweeps ==
    ASSUME CleanupInv, CleanupCounted
    PROVE  Shape' /\ Swept'
<1>1. CASE cleaner' = None
    BY <1>1 DEF Shape, Swept
<1>2. CASE cleaner' # None
  <2>1. /\ cleaner \in Cleaning /\ cleaner.left = {} /\ cleaner.phase = "sum"
        /\ cleaner' = [cleaner EXCEPT !.phase = "evict", !.left = Present]
        /\ Present' = Present /\ Sizes' = Sizes
      BY <1>2, SizesSame DEF CleanupInv, Shape, CleanupCounted
  <2>2. /\ cleaner' \in Cleaning /\ cleaner'.left = Present /\ cleaner'.phase = "evict"
        /\ cleaner'.total = cleaner.total /\ cleaner'.quiet = cleaner.quiet
      BY <2>1 DEF Cleaning, Present
  <2>3. Present \ cleaner.left = Present /\ Present' \ cleaner'.left = {}
      BY <2>1, <2>2
  <2>4. cleaner.quiet => cleaner.total = SumOver(Sizes, Present)
      BY <2>1, <2>3, CleaningFields DEF CleanupInv, Swept
  <2> QED
      BY <2>1, <2>2, <2>3, <2>4 DEF Shape, Swept
<1> QED
    BY <1>1, <1>2

(* One entry is looked at: what the total is then, and what was evicted.      *)
LookedAt(k) ==
    IF Evictable(k) THEN (cleaner.total - size[entries[k].cache]) % Word ELSE cleaner.total

LEMMA LookLeaves ==
    ASSUME CleanupInv, NEW k \in Key, CleanupLook(k)
    PROVE  /\ cleaner \in Cleaning /\ cleaner.phase = "evict"
           /\ k \in Present /\ cleaner.left \subseteq Present /\ k \in cleaner.left
           /\ LookedAt(k) \in Nat
           /\ Present' \in SUBSET Present
           /\ \A j \in Present : j \in Present' <=> j # k \/ ~Evictable(k)
           /\ \A j \in Present' : Evictable(j)' = Evictable(j) /\ Sizes'[j] = Sizes[j]
           /\ cleaner.quiet =>
                 /\ LookedAt(k) = SumOver(Sizes', Present')
                 /\ \A j \in Present' : j \notin cleaner.left \/ j = k => ~Evictable(j)
<1>1. /\ Types /\ SizesOK /\ cleaner \in Cleaning /\ cleaner.left \subseteq Present
      /\ k \in cleaner.left /\ k \in Present /\ cleaner.phase = "evict"
      /\ entries' = IF Evictable(k) THEN [entries EXCEPT ![k] = None] ELSE entries
      /\ size' = size /\ running' = running /\ orphaned' = orphaned
    BY DEF CleanupInv, Inv, Shape, CleanupLook
<1>2. /\ Sizes[k] = size[entries[k].cache] /\ Sizes[k] \in 0 .. MaxSize
      /\ IsFiniteSet(Present) /\ SumOver(Sizes, Present) \in 0 .. Word - 1
      /\ \A x \in Present : Sizes[x] \in Nat
    BY <1>1, PresentSums, WordPositive
<1>3. /\ LookedAt(k) = IF Evictable(k) THEN (cleaner.total - Sizes[k]) % Word
                       ELSE cleaner.total
      /\ LookedAt(k) \in Nat
  <2>1. LookedAt(k) = IF Evictable(k) THEN (cleaner.total - Sizes[k]) % Word
                       ELSE cleaner.total
      BY <1>2 DEF LookedAt
  <2>2. cleaner.total \in Nat /\ cleaner.total - Sizes[k] \in Int
      BY <1>1, <1>2, CleaningFields, WordPositive
  <2> QED
      BY <2>1, <2>2, Modulo, WordPositive
<1>4. /\ Present' \in SUBSET Present
      /\ Present' = IF Evictable(k) THEN Present \ {k} ELSE Present
      /\ \A j \in Present' : entries'[j] = entries[j] /\ j \in Key
    BY <1>1 DEF Present, Types
<1>5. \A j \in Present' : Evictable(j)' = Evictable(j) /\ Sizes'[j] = Sizes[j]
    BY <1>1, <1>4 DEF Evictable, Unfinished, Sizes
<1>6. \A j \in Present : j \in Present' <=> j # k \/ ~Evictable(k)
    BY <1>1, <1>4
<1>7. ASSUME cleaner.quiet
      PROVE  LookedAt(k) = SumOver(Sizes', Present')
  <2>1. cleaner.total = SumOver(Sizes, Present)
      BY <1>1, <1>7, CleaningFields DEF CleanupInv, Swept
  <2>2. IsFiniteSet(Present') /\ SumOver(Sizes', Present') = SumOver(Sizes, Present')
      BY <1>2, <1>4, <1>5, FS_Subset, SumSame
  <2>3. CASE ~Evictable(k)
      BY <1>3, <1>4, <2>1, <2>2, <2>3
  <2>4. CASE Evictable(k)
    <3>1. Present' = Present \ {k}
        BY <1>4, <2>4
    <3>2. SumOver(Sizes, Present) = Sizes[k] + SumOver(Sizes, Present')
        BY <1>1, <1>2, <3>1, SumWithout
    <3>3. SumOver(Sizes, Present') \in 0 .. Word - 1
        BY <1>1, <1>4, PresentSums
    <3>4. cleaner.total - Sizes[k] = SumOver(Sizes, Present')
        BY <1>2, <2>1, <3>2, <3>3, WordPositive
    <3>5. (cleaner.total - Sizes[k]) % Word = SumOver(Sizes, Present')
        BY <3>3, <3>4, Modulo, WordPositive
    <3> QED
        BY <1>3, <2>2, <2>4, <3>5
  <2> QED
      BY <2>3, <2>4
<1>8. ASSUME cleaner.quiet, NEW j \in Present', j \notin cleaner.left \/ j = k
      PROVE  ~Evictable(j)
    BY <1>1, <1>4, <1>6, <1>8, CleaningFields DEF CleanupInv, Swept
<1> QED
    BY <1>1, <1>3, <1>4, <1>5, <1>6, <1>7, <1>8

LEMMA LookSweeps ==
    ASSUME CleanupInv, NEW k \in Key, CleanupLook(k)
    PROVE  Shape' /\ Swept'
<1>1. CASE cleaner' = None
    BY <1>1 DEF Shape, Swept
<1>2. CASE cleaner' # None
  <2>1. cleaner' = [cleaner EXCEPT !.left = @ \ {k}, !.total = LookedAt(k)]
      BY <1>2 DEF CleanupLook, LookedAt
  <2>2. /\ cleaner' \in Cleaning /\ cleaner'.left = cleaner.left \ {k}
        /\ cleaner'.total = LookedAt(k) /\ cleaner'.quiet = cleaner.quiet
        /\ cleaner'.phase = "evict"
      BY <2>1, LookLeaves DEF Cleaning
  <2>3. cleaner'.left \subseteq Present'
      BY <2>2, LookLeaves
  <2>4. cleaner.quiet => /\ cleaner'.total = SumOver(Sizes', Present')
                         /\ \A j \in Present' \ cleaner'.left : ~Evictable(j)'
      BY <2>2, LookLeaves
  <2> QED
      BY <2>2, <2>3, <2>4 DEF Shape, Swept
<1> QED
    BY <1>1, <1>2

LEMMA SweepKept ==
    ASSUME CleanupInv, [Next]_vars
    PROVE  CleanupInv'
<1>1. Inv' /\ SizesOK'
    BY NextKeeps, SizesKept DEF CleanupInv
<1>2. ASSUME cleaner = None, cleaner' = cleaner
      PROVE  Shape' /\ Swept'
    BY <1>2 DEF Shape, Swept
<1>3. ASSUME Disturb, entries' = entries
      PROVE  Shape' /\ Swept'
  <2>1. CASE cleaner = None
      BY <1>3, <2>1 DEF Disturb, Shape, Swept
  <2>2. CASE cleaner # None
    <3>1. /\ cleaner \in Cleaning /\ cleaner.left \subseteq Present
          /\ cleaner' = [cleaner EXCEPT !.quiet = FALSE] /\ Present' = Present
        BY <1>3, <2>2, EntriesSame DEF CleanupInv, Shape, Disturb
    <3>2. cleaner' \in Cleaning /\ cleaner'.left = cleaner.left /\ cleaner'.quiet = FALSE
        BY <3>1 DEF Cleaning
    <3> QED
        BY <3>1, <3>2 DEF Shape, Swept
  <2> QED
      BY <2>1, <2>2
<1>4. CASE UNCHANGED vars
  <2>1. /\ Present' = Present /\ Sizes' = Sizes /\ cleaner' = cleaner
        /\ entries' = entries /\ running' = running /\ orphaned' = orphaned
      BY <1>4, SizesSame DEF vars
  <2> QED
      BY <1>1, <2>1 DEF CleanupInv, Shape, Swept, Evictable, Unfinished
<1>5. ASSUME NEW k \in Key, OpenFails(k) \/ Preload(k) \/ \E h \in Handle : OpenFile(h, k)
      PROVE  Shape' /\ Swept'
    BY <1>2, <1>5 DEF OpenFile, OpenFails, Preload, Get, GetAndFail
<1>6. ASSUME NEW k \in Key, NEW j \in Key, RenameDirectory(k, j)
      PROVE  Shape' /\ Swept'
  <2>1. UNCHANGED <<entries, size, running, orphaned, cleaner>>
      BY <1>6 DEF RenameDirectory
  <2>2. Present' = Present /\ Sizes' = Sizes
      BY <2>1, SizesSame
  <2> QED
      BY <2>1, <2>2 DEF CleanupInv, Shape, Swept, Evictable, Unfinished
<1>7. ASSUME NEW h \in Handle, ReleaseFile(h) \/ ReleaseAborts(h)
      PROVE  Shape' /\ Swept'
    BY <1>2, <1>7 DEF ReleaseFile, ReleaseAborts
<1>8. ASSUME NEW o \in Object, Write(o) \/ Finish(o)
      PROVE  Shape' /\ Swept'
    BY <1>3, <1>8 DEF Write, Finish
<1> QED
    BY <1>1, <1>4, <1>5, <1>6, <1>7, <1>8, BeginSweeps, CountSweeps, CountedSweeps,
        LookSweeps DEF CleanupInv, Next, Use, Aborted, Cleanup

LEMMA InitCleanup ==
    ASSUME Init
    PROVE  CleanupInv
<1>1. Inv /\ Shape
    BY InitInv
<1>2. cleaner = None /\ SizesOK
    BY WordPositive DEF Init, SizesOK
<1> QED
    BY <1>1, <1>2 DEF CleanupInv, Swept

LEMMA CleanupInvariant == Spec => []CleanupInv
BY InitCleanup, SweepKept, PTL DEF Spec

(* For any number of files and handles, however directories are renamed and    *)
(* whatever fails: as long as no release of another file has met an entry, it  *)
(* counts at least the files that are open on it, so that it is not evicted    *)
(* under them and the assertion in release() holds; and it counts no more than *)
(* these unless it was preloaded, or a use of it was lost by a failed open()   *)
(* or by a release under another path.                                       *)
THEOREM UsesCounted == Spec => []UsageCounted
<1>1. ASSUME Inv
      PROVE  UsageCounted
  <2>1. ASSUME NEW h \in Handle, IsOpen(h), handles[h].cache \notin robbed
        PROVE  \E k \in Present : entries[k].cache = handles[h].cache
    <3>1. handles[h].cache \in Object /\ h \in UsersOf(handles[h].cache)
        BY <1>1, <2>1, OpenUses DEF Inv
    <3>2. Registered(handles[h].cache)
        BY <1>1, <2>1, <3>1 DEF Inv, ReadHeld
    <3> QED
        BY <3>2 DEF Registered, Present
  <2>2. ASSUME NEW k \in Present
        PROVE  /\ entries[k].cache \notin robbed =>
                      Cardinality(UsersOf(entries[k].cache)) <= entries[k].usageCount
               /\ entries[k].cache \notin pinned =>
                      entries[k].usageCount <= Cardinality(UsersOf(entries[k].cache))
    <3>1. k \in Key /\ entries[k] # None /\ entries[k].cache \in Object
        BY <1>1, EntryFields DEF Inv, Types, Present
    <3> QED
        BY <1>1, <3>1 DEF Inv, Counts, CountOf
  <2> QED
      BY <1>1, <2>1, <2>2 DEF UsageCounted, Inv, FailedInv
<1>2. CleanupInv => Inv
    BY DEF CleanupInv
<1> QED
    BY <1>1, <1>2, CleanupInvariant, PTL

(* A file whose translation has not finished is not translated again.         *)
THEOREM SharedWhileRunning == Spec => []OneTranslation
<1>1. CleanupInv => OneTranslation
    BY DEF CleanupInv, Inv, RunningHeld, Registered, OneTranslation
<1> QED
    BY <1>1, CleanupInvariant, PTL

LEMMA OnlyLookEvicts ==
    ASSUME CleanupInv, Next, NEW k \in Present, Evicts(k)
    PROVE  CleanupLook(k) /\ Evictable(k)
<1>1. Types /\ k \in Key /\ entries[k] # None /\ entries'[k] = None
    BY DEF CleanupInv, Inv, Evicts, Present
<1>2. ASSUME NEW j \in Key, NEW o \in Object, Get(j, o) \/ GetAndFail(j, o)
      PROVE  FALSE
  <2>1. PICK time \in 0 .. MaxTime :
            \/ \E fails \in BOOLEAN : New(j, o, time, fails)
            \/ Share(j, o, time)
      BY <1>2, Gets
  <2> QED
      BY <1>1, <2>1, NewEntry, SharedEntry
<1>3. ASSUME NEW h \in Handle, ReleaseFile(h)
      PROVE  FALSE
  <2> DEFINE path == handles[h].path
  <2>1. path \in Key /\ ~Unused(path) /\ GiveBack(path)
      BY <1>1, <1>3, OpenUses DEF ReleaseFile
  <2> HIDE DEF path
  <2>2. entries[path] # None
      BY <1>1, <2>1 DEF GiveBack
  <2> QED
      BY <1>1, <2>1, <2>2, GivenBack
<1>4. entries' # entries
    BY <1>1
<1>5. PICK j \in Key : CleanupLook(j)
    BY <1>2, <1>3, <1>4 DEF Next, Use, Aborted, vars, Cleanup, OpenFile, OpenFails, Preload,
        RenameDirectory, ReleaseAborts, CleanupBegin, CleanupCount, CleanupCounted, Write, Finish
<1>6. entries' = IF Evictable(j) THEN [entries EXCEPT ![j] = None] ELSE entries
    BY <1>5 DEF CleanupLook
<1>7. Evictable(j) /\ j = k
    BY <1>1, <1>4, <1>6 DEF Types
<1> QED
    BY <1>5, <1>7

(* In whatever order the registry's files were opened, and however often a     *)
(* cleanup was run: what it evicts is the least recently used.               *)
THEOREM EvictsTheOldest == Spec => LeastRecentFirst
<1>1. ASSUME CleanupInv, [Next]_vars, vars' # vars,
             NEW k \in Present, Evicts(k), NEW other \in Present,
             entries[other].lastAccessed < entries[k].lastAccessed, cleaner.quiet
      PROVE  ~Evictable(other)
  <2>1. CleanupLook(k)
      BY <1>1, OnlyLookEvicts
  <2>2. /\ cleaner # None /\ cleaner.phase = "evict"
        /\ \A j \in cleaner.left : entries[k].lastAccessed <= entries[j].lastAccessed
      BY <2>1 DEF CleanupLook, Oldest
  <2>3. entries[k].lastAccessed \in Nat /\ entries[other].lastAccessed \in Nat
      BY <1>1 DEF CleanupInv, Inv, Types, Present, Entry
  <2>4. other \notin cleaner.left
      BY <1>1, <2>2, <2>3
  <2> QED
      BY <1>1, <2>2, <2>4 DEF CleanupInv, Swept
<1>2. CleanupInv /\ [Next]_vars =>
          [\A k \in Present : Evicts(k) =>
              \A other \in Present :
                  entries[other].lastAccessed < entries[k].lastAccessed =>
                      ~Evictable(other) \/ ~cleaner.quiet]_vars
    BY <1>1
<1> QED
    BY <1>2, CleanupInvariant, PTL DEF Spec, LeastRecentFirst

LEMMA UsedIsLeft ==
    ASSUME CleanupInv, NEW k \in Present, ~Evictable(k)
    PROVE  LeftBecause(k, Unfinished \cup pinned)
<1>1. k \in Key /\ entries[k] # None /\ Types /\ Finite /\ CountOf(k)
    BY DEF CleanupInv, Inv, Counts, Present
<1>2. /\ entries[k].usageCount \in Nat
      /\ entries[k].cache \notin pinned =>
            entries[k].usageCount <= Cardinality(UsersOf(entries[k].cache))
    BY <1>1, CountFacts DEF CountOf
<1>3. UsersOf(entries[k].cache) = {} => Cardinality(UsersOf(entries[k].cache)) = 0
    BY FS_EmptySet
<1> QED
    BY <1>2, <1>3 DEF Evictable, LeftBecause

TotalRight == TotalSize = SumOver(Sizes, Present)

LEMMA TotalIsRight == TotalRight
<1> DEFINE f == [k \in Present |-> size[entries[k].cache]]
<1>1. IsFiniteSet(Present)
    BY CachesAssumption, FS_Subset DEF Present, CachesAssumption
<1>2. TotalSize = SumOver(f, Present)
    BY <1>1, TotalIsSum DEF TotalSize
<1>3. \A k \in Present : f[k] = Sizes[k]
    BY DEF Sizes, Present
<1> HIDE DEF f
<1>4. SumOver(f, Present) = SumOver(Sizes, Present)
    BY <1>1, <1>3, SumSame
<1> QED
    BY <1>2, <1>4 DEF TotalRight

(* However many entries there are and however large, cleanup() gets under the  *)
(* limit or leaves only what is open, still being translated, or has a use     *)
(* that was lost or preloaded.                                               *)
THEOREM CleanupDoesItsJob == Spec => CleanupEffective
<1>1. ASSUME CleanupInv, TotalRight', [Next]_vars, vars' # vars,
             CleanupEnds, cleaner.quiet
      PROVE  LimitKept(Unfinished \cup pinned)
  <2>1. /\ cleaner # None /\ cleaner' = None /\ cleaner \in Cleaning
      BY <1>1 DEF CleanupEnds, CleanupInv, Shape
  <2>3. TotalSize' = SumOver(Sizes', Present')
      BY <1>1 DEF TotalRight
  <2>4. CASE CleanupCounted
    <3>1. /\ cleaner.phase = "sum" /\ cleaner.left = {} /\ ~(cleaner.total > cacheLimit)
          /\ Present' = Present /\ Sizes' = Sizes
      <4>1. [cleaner EXCEPT !.phase = "evict", !.left = Present] \in Cleaning
          BY <2>1 DEF Cleaning, Present
      <4> QED
          BY <2>1, <2>4, <4>1, CleaningFields, SizesSame DEF CleanupCounted
    <3>2. Present \ cleaner.left = Present
        BY <3>1
    <3>3. cleaner.total = SumOver(Sizes, Present)
        BY <1>1, <2>1, <3>1, <3>2 DEF CleanupInv, Swept
    <3>4. cleaner.total <= cacheLimit
        BY <2>1, <3>1, CleaningFields, CachesAssumption DEF CachesAssumption
    <3> QED
        BY <2>3, <3>1, <3>3, <3>4 DEF LimitKept
  <2>5. ASSUME NEW k \in Key, CleanupLook(k)
        PROVE  LimitKept(Unfinished \cup pinned)
    <3>1. LookedAt(k) = SumOver(Sizes', Present') /\ LookedAt(k) \in Nat
        BY <1>1, <2>5, LookLeaves
    <3>2. EnoughSpace(LookedAt(k)) \/ cleaner.left = {k}
      <4>1. [cleaner EXCEPT !.left = @ \ {k}, !.total = LookedAt(k)] \in Cleaning
          BY <2>1, <3>1 DEF Cleaning
      <4> QED
          BY <2>1, <2>5, <4>1, CleaningFields DEF CleanupLook, LookedAt
    <3>3. CASE EnoughSpace(LookedAt(k))
      <4>1. LookedAt(k) <= cacheLimit
          BY <3>1, <3>3, CachesAssumption DEF EnoughSpace, CachesAssumption
      <4> QED
          BY <2>3, <3>1, <4>1 DEF LimitKept
    <3>4. CASE cleaner.left = {k}
      <4>1. ASSUME NEW j \in Present'
            PROVE  LeftBecause(j, Unfinished \cup pinned)
        <5>1. j \in Present /\ ~Evictable(j)
            BY <1>1, <2>5, <3>4, <4>1, LookLeaves
        <5> QED
            BY <1>1, <5>1, UsedIsLeft
      <4> QED
          BY <4>1 DEF LimitKept
    <3> QED
        BY <3>2, <3>3, <3>4
  <2>6. ASSUME Disturb PROVE FALSE
    <3>1. [cleaner EXCEPT !.quiet = FALSE] \in Cleaning
        BY <2>1 DEF Cleaning
    <3> QED
        BY <2>1, <2>6, <3>1, CleaningFields DEF Disturb
  <2>7. ASSUME NEW k \in Key, CleanupCount(k) PROVE FALSE
    <3>1. k \in Present /\ Types /\ SizesOK
        BY <1>1, <2>7 DEF CleanupInv, Inv, Shape, CleanupCount
    <3>2. (cleaner.total + size[entries[k].cache]) % Word \in Nat
        BY <2>1, <3>1, PresentSums, CleaningFields, WordPositive, Modulo
    <3>3. cleaner' \in Cleaning
      <4> DEFINE t == (cleaner.total + size[entries[k].cache]) % Word
      <4>1. cleaner' = [cleaner EXCEPT !.left = @ \ {k}, !.total = t]
          BY <2>7 DEF CleanupCount
      <4> HIDE DEF t
      <4> QED
          BY <2>1, <3>2, <4>1 DEF Cleaning, t
    <3> QED
        BY <2>1, <3>3, CleaningFields
  <2> QED
      BY <1>1, <2>1, <2>4, <2>5, <2>6, <2>7 DEF Next, Use, Aborted, Cleanup, OpenFile,
          OpenFails, Preload, Get, GetAndFail, RenameDirectory, ReleaseFile, ReleaseAborts,
          CleanupBegin, Write, Finish, vars
<1>2. CleanupInv /\ TotalRight' /\ [Next]_vars =>
          [CleanupEnds /\ cleaner.quiet => LimitKept(Unfinished \cup pinned)]_vars
    BY <1>1
<1> QED
    BY <1>2, CleanupInvariant, TotalIsRight, PTL DEF Spec, CleanupEffective

-----------------------------------------------------------------------------
(* What cleanup() has counted is enough to evict, whatever is written: only   *)
(* what there is may be less by then.                                        *)

CountedEnough == cleaner # None /\ cleaner.phase = "evict" => cleaner.total >= cacheLimit

LEMMA CountedEnoughKept ==
    ASSUME CleanupInv, CleanupInv', CountedEnough, [Next]_vars
    PROVE  CountedEnough'
<1>1. cleaner # None => cleaner \in Cleaning
    BY DEF CleanupInv, Shape
<1>2. cacheLimit \in Nat
    BY CachesAssumption DEF CachesAssumption
<1>3. CASE UNCHANGED cleaner
    BY <1>3 DEF CountedEnough
<1>4. CASE Disturb
  <2>1. CASE cleaner = None
      BY <1>4, <2>1 DEF Disturb, CountedEnough
  <2>2. CASE cleaner # None
    <3>1. cleaner'.phase = cleaner.phase /\ cleaner'.total = cleaner.total
        BY <1>1, <1>4, <2>2 DEF Disturb, Cleaning
    <3> QED
        BY <2>2, <3>1 DEF CountedEnough
  <2> QED
      BY <2>1, <2>2
<1>5. ASSUME NEW h \in Handle, CleanupBegin(h)
      PROVE  CountedEnough'
    BY <1>5 DEF CleanupBegin, Cleaner, CountedEnough
<1>6. ASSUME NEW k \in Key, CleanupCount(k)
      PROVE  CountedEnough'
  <2>1. cleaner'.phase = "sum"
      BY <1>1, <1>6 DEF CleanupCount, Cleaning
  <2> QED
      BY <2>1 DEF CountedEnough
<1>7. CASE CleanupCounted
  <2>1. CASE cleaner' = None
      BY <2>1 DEF CountedEnough
  <2>2. CASE cleaner' # None
    <3>1. cleaner.total > cacheLimit /\ cleaner \in Cleaning
        BY <1>1, <1>7, <2>2 DEF CleanupCounted
    <3>2. cleaner'.total = cleaner.total
        BY <1>7, <2>2, <3>1 DEF CleanupCounted, Cleaning
    <3> QED
        BY <1>2, <3>1, <3>2, CleaningFields DEF CountedEnough
  <2> QED
      BY <2>1, <2>2
<1>8. ASSUME NEW k \in Key, CleanupLook(k)
      PROVE  CountedEnough'
  <2>1. LookedAt(k) \in Nat /\ cleaner \in Cleaning
      BY <1>8, LookLeaves
  <2>2. CASE cleaner' = None
      BY <2>2 DEF CountedEnough
  <2>3. CASE cleaner' # None
    <3>1. /\ ~EnoughSpace(LookedAt(k))
          /\ cleaner' = [cleaner EXCEPT !.left = @ \ {k}, !.total = LookedAt(k)]
        BY <1>8, <2>3 DEF CleanupLook, LookedAt
    <3>2. cleaner'.total = LookedAt(k)
        BY <2>1, <3>1 DEF Cleaning
    <3> QED
        BY <1>2, <2>1, <3>1, <3>2 DEF EnoughSpace, CountedEnough
  <2> QED
      BY <2>2, <2>3
<1> QED
    BY <1>3, <1>4, <1>5, <1>6, <1>7, <1>8 DEF Next, Use, Aborted, Cleanup, OpenFile,
        OpenFails, Preload, Get, GetAndFail, RenameDirectory, ReleaseFile, ReleaseAborts,
        Write, Finish, vars

(* cleanup() evicts below the limit only if a cache has grown or finished     *)
(* since it began, as in the run that shows that it can: in no order of opens *)
(* and releases does it happen otherwise, for any sizes and any limit.        *)
THEOREM QuietCleanupSpares == Spec => QuietEvictsAboveLimit
<1>1. ASSUME CleanupInv, CountedEnough, TotalRight, [Next]_vars, vars' # vars,
             NEW k \in Present, Evicts(k), cleaner.quiet
      PROVE  TotalSize >= cacheLimit
  <2>1. cleaner # None /\ cleaner.phase = "evict"
      BY <1>1, OnlyLookEvicts DEF CleanupLook
  <2>2. cleaner.total = SumOver(Sizes, Present)
      BY <1>1, <2>1 DEF CleanupInv, Swept
  <2> QED
      BY <1>1, <2>1, <2>2 DEF TotalRight, CountedEnough
<1>2. CleanupInv /\ CountedEnough /\ TotalRight /\ [Next]_vars =>
          [\A k \in Present : Evicts(k) /\ cleaner.quiet => TotalSize >= cacheLimit]_vars
    BY <1>1
<1>3. Init => CountedEnough
    BY DEF Init, CountedEnough
<1> QED
    BY <1>2, <1>3, CleanupInvariant, CountedEnoughKept, TotalIsRight, PTL
        DEF Spec, QuietEvictsAboveLimit
=============================================================================
