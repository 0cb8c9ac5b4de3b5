----------------------------- MODULE MountProofs -----------------------------
(***************************************************************************)
(* Theorems about Mount, for any names, directories, files and handles.      *)
(***************************************************************************)
EXTENDS Mount, TLAPS

-----------------------------------------------------------------------------
(* Names and what they are.                                                  *)

NamesOK ==
    /\ entries \in [Dir -> [Name -> Node \cup {Nothing}]]
    /\ handles \in [Handle -> FileHandle \cup {Nothing}]

LEMMA HandleFields ==
    ASSUME NEW f \in FileHandle, f.kind = "plain"
    PROVE  /\ f.dir \in Dir /\ f.name \in Name
           /\ f.node \in File /\ f.access \in Access
           /\ f = Plain(f.dir, f.name, f.node, f.access)
    BY DEF FileHandle, Plain, Translated

LEMMA PutEntry ==
    ASSUME NamesOK, NEW d \in Dir, NEW n \in Name, NEW x \in Node \cup {Nothing}
    PROVE  /\ Put(d, n, x) \in [Dir -> [Name -> Node \cup {Nothing}]]
           /\ \A e \in Dir, m \in Name :
                 Put(d, n, x)[e][m] = IF e = d /\ m = n THEN x ELSE entries[e][m]
    BY DEF NamesOK, Put

LEMMA SourceFiles ==
    \A x : x \in Sources <=>
        x \in File /\ \E d \in Dir, n \in Name : ~Visible(n) /\ entries[d][n] = x
    BY DEF Sources

LEMMA SourceFilesNext ==
    \A x : x \in Sources' <=>
        x \in File /\ \E d \in Dir, n \in Name : ~Visible(n) /\ entries'[d][n] = x
    BY DEF Sources, Visible

(* What a name with a source stands for is a name, too. *)
LEMMA ActualIsName ==
    ASSUME NEW d \in Dir, NEW n \in Name
    PROVE  /\ Actual(d, n) \in Name
           /\ n.suffix # "none" => SourceOf(n) \in Name /\ TargetOf(n) \in Name
           /\ HasSource(d, n) => ~Visible(SourceOf(n))
    BY MountAssumption DEF MountAssumption, Actual, HasSource, SourceOf, TargetOf, Visible

-----------------------------------------------------------------------------
(* Sources are not written.                                                  *)

(* No file has both a name that shows it translated and one that shows it as   *)
(* it is. *)
OneFace == \A d \in Dir, n \in Name : Visible(n) => entries[d][n] \notin Sources

NotOpen == \A h \in OpenHandles : handles[h].kind = "plain" => handles[h].node \notin Sources

SourceInv ==
    /\ NamesOK
    /\ OneFace
    /\ NotOpen
    /\ SourceUntouched

LEMMA SourceInit == Init => SourceInv
BY MountAssumption, SourceFiles
DEF MountAssumption, Init, SourceInv, NamesOK, OneFace, NotOpen, SourceUntouched, OpenHandles

(* A step that only gives a name without the source suffix to a file that has  *)
(* such names already, or to a new one, changes no source.                   *)
LEMMA VisiblePut ==
    ASSUME SourceInv, NEW d \in Dir, NEW n \in Name, NEW x \in Node \cup {Nothing},
           entries' = Put(d, n, x), Visible(n), x \notin Sources
    PROVE  /\ Sources' = Sources
           /\ OneFace'
           /\ entries' \in [Dir -> [Name -> Node \cup {Nothing}]]
<1>1. \A e \in Dir, m \in Name :
         entries'[e][m] = IF e = d /\ m = n THEN x ELSE entries[e][m]
  BY PutEntry DEF SourceInv
<1>2. entries' \in [Dir -> [Name -> Node \cup {Nothing}]]
  BY PutEntry DEF SourceInv
<1>3. Sources' = Sources
  <2>1. \A e \in Dir, m \in Name : ~Visible(m) => entries'[e][m] = entries[e][m]
    BY <1>1
  <2>2. \A y : y \in Sources' <=> y \in Sources
    BY <2>1, SourceFiles, SourceFilesNext
  <2> QED
    BY <2>2
<1>4. OneFace'
  BY <1>1, <1>3 DEF SourceInv, OneFace, Visible
<1> QED
  BY <1>2, <1>3, <1>4

(* Taking a name away leaves no more sources than there were. *)
LEMMA Removal ==
    ASSUME SourceInv, NEW d \in Dir, NEW n \in Name, entries' = Put(d, n, Nothing)
    PROVE  /\ Sources' \subseteq Sources
           /\ OneFace'
           /\ entries' \in [Dir -> [Name -> Node \cup {Nothing}]]
<1>1. /\ \A e \in Dir, m \in Name :
            entries'[e][m] = IF e = d /\ m = n THEN Nothing ELSE entries[e][m]
      /\ entries' \in [Dir -> [Name -> Node \cup {Nothing}]]
  BY PutEntry DEF SourceInv
<1>2. Nothing \notin File
  BY MountAssumption DEF MountAssumption
<1>3. Sources' \subseteq Sources
  BY <1>1, <1>2, SourceFiles, SourceFilesNext
<1>4. OneFace'
  BY <1>1, <1>2, <1>3, SourceFiles DEF SourceInv, OneFace, Visible
<1> QED
  BY <1>1, <1>3, <1>4

(* What is fresh is no source and not open. *)
LEMMA FreshFacts ==
    ASSUME SourceInv, NEW x, Fresh(x), x # Nothing
    PROVE  /\ x \notin Sources
           /\ \A d \in Dir, n \in Name : entries[d][n] # x
           /\ \A h \in OpenHandles : handles[h].kind = "plain" => handles[h].node # x
BY SourceFiles DEF Fresh, Linked

-----------------------------------------------------------------------------
(* The steps.                                                                *)

LEMMA SourceMakeName ==
    ASSUME SourceInv, NEW d \in Dir, NEW n \in Name,
           NEW x \in File \cup Special, New(d, n, x), Visible(n),
           handles' = handles \/ \E h \in Handle : handles' = [handles EXCEPT ![h] = Plain(d, n, x, "write")] /\ x \in File
    PROVE  SourceInv'
<1>1. x # Nothing /\ x \in Node
  BY MountAssumption DEF MountAssumption, Node
<1>2. /\ x \notin Sources
      /\ \A h \in OpenHandles : handles[h].kind = "plain" => handles[h].node # x
  BY <1>1, FreshFacts DEF New
<1>3. /\ Sources' = Sources
      /\ OneFace'
      /\ entries' \in [Dir -> [Name -> Node \cup {Nothing}]]
  BY <1>1, <1>2, VisiblePut DEF New
<1>4. handles' \in [Handle -> FileHandle \cup {Nothing}] /\ NotOpen'
  <2>1. CASE handles' = handles
    BY <2>1, <1>3 DEF SourceInv, NamesOK, NotOpen, OpenHandles
  <2>2. CASE \E h \in Handle : handles' = [handles EXCEPT ![h] = Plain(d, n, x, "write")] /\ x \in File
    <3>1. PICK h \in Handle : handles' = [handles EXCEPT ![h] = Plain(d, n, x, "write")] /\ x \in File
      BY <2>2
    <3>2. Plain(d, n, x, "write") \in FileHandle /\ Plain(d, n, x, "write").node = x
      BY <3>1 DEF FileHandle, Plain, Access
    <3>3. handles' \in [Handle -> FileHandle \cup {Nothing}]
      BY <3>1, <3>2 DEF SourceInv, NamesOK
    <3>4. ASSUME NEW g \in Handle, handles'[g] # Nothing, handles'[g].kind = "plain"
          PROVE  handles'[g].node \notin Sources'
      <4>1. CASE g = h
        BY <4>1, <3>1, <3>2, <1>2, <1>3 DEF SourceInv, NamesOK
      <4>2. CASE g # h
        BY <4>2, <3>1, <3>4, <1>3 DEF SourceInv, NamesOK, NotOpen, OpenHandles
      <4> QED
        BY <4>1, <4>2
    <3> QED
      BY <3>3, <3>4 DEF NotOpen, OpenHandles
  <2> QED
    BY <2>1, <2>2
<1>5. SourceUntouched'
  BY <1>3 DEF New, SourceInv, SourceUntouched
<1> QED
  BY <1>3, <1>4, <1>5 DEF SourceInv, NamesOK

(* A source that is added is new, so that no other name has it. *)
LEMMA SourceArrivesStep ==
    ASSUME SourceInv, NEW d \in Dir, NEW n \in Name, NEW x \in File, SourceArrives(d, n, x)
    PROVE  SourceInv'
<1>1. x # Nothing /\ x \in Node
  BY MountAssumption DEF MountAssumption, Node
<1>2. /\ x \notin Sources
      /\ \A e \in Dir, m \in Name : entries[e][m] # x
      /\ \A h \in OpenHandles : handles[h].kind = "plain" => handles[h].node # x
  BY <1>1, FreshFacts DEF SourceArrives
<1>3. /\ \A e \in Dir, m \in Name :
            entries'[e][m] = IF e = d /\ m = n THEN x ELSE entries[e][m]
      /\ entries' \in [Dir -> [Name -> Node \cup {Nothing}]]
  BY <1>1, PutEntry DEF SourceArrives, SourceInv
<1>4. ~Visible(n)
  BY DEF SourceArrives, Visible
<1>5. Sources' \subseteq Sources \cup {x}
  BY <1>3, SourceFiles, SourceFilesNext
<1>6. OneFace'
  BY <1>2, <1>3, <1>4, <1>5 DEF SourceInv, OneFace, Visible
<1>7. NotOpen'
  BY <1>2, <1>5 DEF SourceArrives, SourceInv, NotOpen, OpenHandles
<1>8. SourceUntouched'
  BY <1>5 DEF SourceArrives, SourceInv, SourceUntouched
<1> QED
  BY <1>3, <1>6, <1>7, <1>8 DEF SourceArrives, SourceInv, NamesOK

LEMMA SourceMkdir ==
    ASSUME SourceInv, NEW n \in Name, NEW x \in Dir, Mkdir(n, x)
    PROVE  SourceInv'
<1>1. Root \in Dir /\ x \in Node /\ x \notin File
  BY MountAssumption DEF MountAssumption, Node
<1>2. /\ \A e \in Dir, m \in Name :
            entries'[e][m] = IF e = Root /\ m = n THEN x ELSE entries[e][m]
      /\ entries' \in [Dir -> [Name -> Node \cup {Nothing}]]
      /\ entries[Root][n] = Nothing
  BY <1>1, PutEntry DEF Mkdir, New, SourceInv
<1>3. Nothing \notin File
  BY MountAssumption DEF MountAssumption
<1>4. Sources' \subseteq Sources
  BY <1>1, <1>2, SourceFiles, SourceFilesNext
<1>5. OneFace'
  BY <1>1, <1>2, <1>4, SourceFiles DEF SourceInv, OneFace, Visible
<1>6. NotOpen' /\ SourceUntouched'
  BY <1>4 DEF Mkdir, New, SourceInv, NotOpen, SourceUntouched, OpenHandles
<1> QED
  BY <1>2, <1>5, <1>6 DEF Mkdir, SourceInv, NamesOK

LEMMA SourceLink ==
    ASSUME SourceInv, NEW d \in Dir, NEW n \in Name, NEW d2 \in Dir, NEW n2 \in Name,
           Link(d, n, d2, n2)
    PROVE  SourceInv'
<1>1. entries[d][n] \in Node /\ Visible(n) /\ Visible(n2)
  BY DEF Link, Known, Node
<1>2. entries[d][n] \notin Sources
  BY <1>1 DEF SourceInv, OneFace
<1>3. /\ Sources' = Sources
      /\ OneFace'
      /\ entries' \in [Dir -> [Name -> Node \cup {Nothing}]]
  BY <1>1, <1>2, VisiblePut DEF Link
<1> QED
  BY <1>3 DEF Link, SourceInv, NamesOK, NotOpen, SourceUntouched, OpenHandles

(* Both the old name and the new one show the file as it is. *)
LEMMA SourceRename ==
    ASSUME SourceInv, NEW d \in Dir, NEW n \in Name, NEW d2 \in Dir, NEW n2 \in Name,
           Rename(d, n, d2, n2)
    PROVE  SourceInv'
<1> DEFINE x == entries[d][n]
<1>1. x \in Node \cup {Nothing} /\ Visible(n) /\ Visible(n2)
  BY DEF Rename, Known, SourceInv, NamesOK
<1>2. x \notin Sources
  BY <1>1 DEF SourceInv, OneFace
<1>3. /\ Put(d, n, Nothing) \in [Dir -> [Name -> Node \cup {Nothing}]]
      /\ \A e \in Dir, m \in Name :
            Put(d, n, Nothing)[e][m] = IF e = d /\ m = n THEN Nothing ELSE entries[e][m]
  BY PutEntry DEF SourceInv
<1>4. entries' = [Put(d, n, Nothing) EXCEPT ![d2][n2] = x]
  BY DEF Rename
<1>5. /\ entries' \in [Dir -> [Name -> Node \cup {Nothing}]]
      /\ \A e \in Dir, m \in Name :
            entries'[e][m] = IF e = d2 /\ m = n2 THEN x
                             ELSE IF e = d /\ m = n THEN Nothing ELSE entries[e][m]
  <2> HIDE DEF x
  <2> QED
    BY <1>1, <1>3, <1>4
<1> HIDE DEF x
<1>6. Sources' = Sources
  <2>1. \A e \in Dir, m \in Name : ~Visible(m) => entries'[e][m] = entries[e][m]
    BY <1>1, <1>5
  <2>2. \A y : y \in Sources' <=> y \in Sources
    BY <2>1, SourceFiles, SourceFilesNext
  <2> QED
    BY <2>2
<1>7. Nothing \notin Sources
  BY SourceFiles, MountAssumption DEF MountAssumption
<1>8. OneFace'
  BY <1>2, <1>5, <1>6, <1>7 DEF SourceInv, OneFace, Visible
<1>9. /\ handles' \in [Handle -> FileHandle \cup {Nothing}]
      /\ \A h \in Handle : handles'[h] # Nothing => handles[h] # Nothing
      /\ \A h \in Handle : handles'[h] # Nothing /\ handles'[h].kind = "plain" =>
            handles[h].kind = "plain" /\ handles'[h].node = handles[h].node
  <2>1. handles' = Moved(d, n, d2, n2)
    BY DEF Rename
  <2>2. ASSUME NEW h \in Handle
        PROVE  /\ Moved(d, n, d2, n2)[h] \in FileHandle \cup {Nothing}
               /\ Moved(d, n, d2, n2)[h] # Nothing => handles[h] # Nothing
               /\ Moved(d, n, d2, n2)[h] # Nothing /\ Moved(d, n, d2, n2)[h].kind = "plain" =>
                    handles[h].kind = "plain" /\ Moved(d, n, d2, n2)[h].node = handles[h].node
    <3>1. CASE ~(h \in OpenHandles /\ handles[h].dir = d /\ handles[h].name = n)
      BY <3>1 DEF Moved, SourceInv, NamesOK
    <3>2. CASE h \in OpenHandles /\ handles[h].dir = d /\ handles[h].name = n
      <4>1. Moved(d, n, d2, n2)[h] = Elsewhere(handles[h], d2, n2)
        BY <3>2 DEF Moved
      <4>2. handles[h] \in FileHandle /\ handles[h] # Nothing
        BY <3>2 DEF SourceInv, NamesOK, OpenHandles
      <4>3. CASE handles[h].kind = "plain"
        <5>1. /\ Elsewhere(handles[h], d2, n2) = Plain(d2, n2, handles[h].node, handles[h].access)
              /\ handles[h].node \in File /\ handles[h].access \in Access
          BY <4>2, <4>3, HandleFields DEF Elsewhere
        <5> QED
          BY <4>1, <4>2, <4>3, <5>1 DEF FileHandle, Plain
      <4>4. CASE handles[h].kind # "plain"
        <5>1. Elsewhere(handles[h], d2, n2) = Translated(d2, n2)
          BY <4>4 DEF Elsewhere
        <5> QED
          BY <4>1, <4>2, <5>1 DEF FileHandle, Translated
      <4> QED
        BY <4>3, <4>4
    <3> QED
      BY <3>1, <3>2
  <2> QED
    BY <2>1, <2>2 DEF Moved
<1>10. NotOpen'
  BY <1>6, <1>9 DEF SourceInv, NotOpen, OpenHandles
<1>11. SourceUntouched'
  BY <1>6 DEF Rename, SourceInv, SourceUntouched
<1> QED
  BY <1>5, <1>8, <1>9, <1>10, <1>11 DEF SourceInv, NamesOK

(* Steps that give no name to anything. *)
LEMMA SourceFewer ==
    ASSUME SourceInv, NEW d \in Dir, NEW n \in Name, entries' = Put(d, n, Nothing),
           handles' = handles, written' = written
    PROVE  SourceInv'
<1>1. /\ Sources' \subseteq Sources
      /\ OneFace'
      /\ entries' \in [Dir -> [Name -> Node \cup {Nothing}]]
  BY Removal
<1> QED
  BY <1>1 DEF SourceInv, NamesOK, NotOpen, SourceUntouched, OpenHandles

(* Steps that open, change or release a file, or change none of all this. *)
LEMMA SourceFile ==
    ASSUME SourceInv, entries' = entries,
           \/ handles' = handles
           \/ \E h \in Handle : handles' = [handles EXCEPT ![h] = Nothing]
           \/ \E h \in Handle, d \in Dir, n \in Name : handles' = [handles EXCEPT ![h] = Translated(d, n)]
           \/ \E h \in Handle, d \in Dir, n \in Name, f \in File \ Sources, a \in Access :
                 handles' = [handles EXCEPT ![h] = Plain(d, n, f, a)],
           Sources \cap written' = {}
    PROVE  SourceInv'
<1>1. Sources' = Sources
  BY DEF Sources
<1>2. OneFace' /\ SourceUntouched' /\ entries' \in [Dir -> [Name -> Node \cup {Nothing}]]
  BY <1>1 DEF SourceInv, NamesOK, OneFace, SourceUntouched
<1>3. ASSUME NEW h \in Handle, NEW v \in FileHandle \cup {Nothing},
             handles' = [handles EXCEPT ![h] = v],
             v # Nothing /\ v.kind = "plain" => v.node \notin Sources
      PROVE  handles' \in [Handle -> FileHandle \cup {Nothing}] /\ NotOpen'
  <2>1. handles' \in [Handle -> FileHandle \cup {Nothing}]
    BY <1>3 DEF SourceInv, NamesOK
  <2>2. ASSUME NEW g \in Handle, handles'[g] # Nothing, handles'[g].kind = "plain"
        PROVE  handles'[g].node \notin Sources'
    BY <2>2, <1>1, <1>3 DEF SourceInv, NamesOK, NotOpen, OpenHandles
  <2> QED
    BY <2>1, <2>2 DEF NotOpen, OpenHandles
<1>4. handles' \in [Handle -> FileHandle \cup {Nothing}] /\ NotOpen'
  <2>1. CASE handles' = handles
    BY <2>1, <1>1 DEF SourceInv, NamesOK, NotOpen, OpenHandles
  <2>2. CASE \E h \in Handle : handles' = [handles EXCEPT ![h] = Nothing]
    BY <2>2, <1>3
  <2>3. CASE \E h \in Handle, d \in Dir, n \in Name : handles' = [handles EXCEPT ![h] = Translated(d, n)]
    <3>1. PICK h \in Handle, d \in Dir, n \in Name : handles' = [handles EXCEPT ![h] = Translated(d, n)]
      BY <2>3
    <3>2. Translated(d, n) \in FileHandle /\ Translated(d, n).kind # "plain"
      BY DEF FileHandle, Translated
    <3> QED
      BY <3>1, <3>2, <1>3
  <2>4. CASE \E h \in Handle, d \in Dir, n \in Name, f \in File \ Sources, a \in Access :
                handles' = [handles EXCEPT ![h] = Plain(d, n, f, a)]
    <3>1. PICK h \in Handle, d \in Dir, n \in Name, f \in File \ Sources, a \in Access :
                handles' = [handles EXCEPT ![h] = Plain(d, n, f, a)]
      BY <2>4
    <3>2. Plain(d, n, f, a) \in FileHandle /\ Plain(d, n, f, a).node = f
      BY DEF FileHandle, Plain
    <3> QED
      BY <3>1, <3>2, <1>3
  <2> QED
    BY <2>1, <2>2, <2>3, <2>4
<1> QED
  BY <1>2, <1>4 DEF SourceInv, NamesOK

(* A file that is written is one that is shown as it is. *)
LEMMA SourceWrite ==
    ASSUME SourceInv, NEW h \in Handle, Write(h) \/ Ftruncate(h)
    PROVE  SourceInv'
<1>1. /\ h \in OpenHandles /\ handles[h].kind = "plain"
      /\ written' = written \cup {handles[h].node}
      /\ entries' = entries /\ handles' = handles
  BY DEF Write, Ftruncate
<1>2. handles[h] \in FileHandle
  BY <1>1 DEF SourceInv, NamesOK, OpenHandles
<1>3. handles[h].node \in File /\ handles[h].node \notin Sources
  BY <1>1, <1>2, HandleFields DEF SourceInv, NotOpen
<1>4. Sources \cap written' = {}
  BY <1>1, <1>3 DEF SourceInv, SourceUntouched
<1> QED
  BY <1>1, <1>4, SourceFile

LEMMA SourceTruncate ==
    ASSUME SourceInv, NEW d \in Dir, NEW n \in Name, Truncate(d, n)
    PROVE  SourceInv'
<1>1. entries[d][n] \notin Sources
  BY DEF Truncate, Known, SourceInv, OneFace
<1>2. Sources \cap written' = {}
  BY <1>1 DEF Truncate, SourceInv, SourceUntouched
<1> QED
  BY <1>2, SourceFile DEF Truncate

LEMMA SourceOpenPlain ==
    ASSUME SourceInv, NEW h \in Handle, NEW d \in Dir, NEW n \in Name, NEW a \in Access,
           OpenPlain(h, d, n, a)
    PROVE  SourceInv'
<1>1. entries[d][n] \in File \ Sources
  BY DEF OpenPlain, Opens, Known, SourceInv, OneFace
<1>2. Sources \cap written' = {}
  BY DEF OpenPlain, SourceInv, SourceUntouched
<1> QED
  BY <1>1, <1>2, SourceFile DEF OpenPlain

LEMMA SourceStep == SourceInv /\ [Next]_vars => SourceInv'
<1> SUFFICES ASSUME SourceInv, [Next]_vars
             PROVE  SourceInv'
  OBVIOUS
<1> USE DEF SourceUntouched
<1>1. ASSUME entries' = entries, handles' = handles, written' = written
      PROVE  SourceInv'
  BY <1>1, SourceFile DEF SourceInv
<1>2. CASE MakeName
  <2>1. PICK d \in Dir, n \in Name :
           \/ Check(d, n)
           \/ CallFails(d, n)
           \/ \E x \in File \cup Special : Mknod(d, n, x)
           \/ \E x \in Special : Symlink(d, n, x)
           \/ \E x \in File, h \in Handle : Create(h, d, n, x)
           \/ \E x \in File : SourceArrives(d, n, x)
           \/ \E d2 \in Dir, n2 \in Name : Link(d, n, d2, n2)
    BY <1>2 DEF MakeName
  <2>2. ASSUME NEW x \in File \cup Special, Mknod(d, n, x)
        PROVE  SourceInv'
    BY <2>2, SourceMakeName DEF Mknod
  <2>3. ASSUME NEW x \in Special, Symlink(d, n, x)
        PROVE  SourceInv'
    BY <2>3, SourceMakeName DEF Symlink
  <2>4. ASSUME NEW x \in File, NEW h \in Handle, Create(h, d, n, x)
        PROVE  SourceInv'
    BY <2>4, SourceMakeName DEF Create
  <2>5. ASSUME NEW x \in File, SourceArrives(d, n, x)
        PROVE  SourceInv'
    BY <2>5, SourceArrivesStep
  <2>6. ASSUME NEW d2 \in Dir, NEW n2 \in Name, Link(d, n, d2, n2)
        PROVE  SourceInv'
    BY <2>6, SourceLink
  <2>7. CASE Check(d, n) \/ CallFails(d, n)
    BY <2>7, <1>1 DEF Check, CallFails
  <2> QED
    BY <2>1, <2>2, <2>3, <2>4, <2>5, <2>6, <2>7
<1>3. CASE UseName
  <2>1. PICK d \in Dir, n \in Name :
           \/ Unlink(d, n)
           \/ Truncate(d, n)
           \/ \E d2 \in Dir, n2 \in Name : Rename(d, n, d2, n2)
           \/ \E w \in BOOLEAN : Chmod(d, n, w)
           \/ \E h \in Handle, a \in Access : OpenPlain(h, d, n, a)
           \/ \E h \in Handle : OpenTranslated(h, d, n)
    BY <1>3 DEF UseName
  <2>2. CASE Unlink(d, n)
    BY <2>2, ActualIsName, SourceFewer DEF Unlink
  <2>3. CASE Truncate(d, n)
    BY <2>3, SourceTruncate
  <2>5. ASSUME NEW d2 \in Dir, NEW n2 \in Name, Rename(d, n, d2, n2)
        PROVE  SourceInv'
    BY <2>5, SourceRename
  <2>6. ASSUME NEW w \in BOOLEAN, Chmod(d, n, w)
        PROVE  SourceInv'
    BY <2>6, <1>1 DEF Chmod
  <2>7. ASSUME NEW h \in Handle, NEW a \in Access, OpenPlain(h, d, n, a)
        PROVE  SourceInv'
    BY <2>7, SourceOpenPlain
  <2>8. ASSUME NEW h \in Handle, OpenTranslated(h, d, n)
        PROVE  SourceInv'
    BY <2>8, SourceFile DEF OpenTranslated, SourceInv
  <2> QED
    BY <2>1, <2>2, <2>3, <2>5, <2>6, <2>7, <2>8
<1>4. CASE UseDirectory
  <2>1. ASSUME NEW n \in Name, Rmdir(n)
        PROVE  SourceInv'
    BY <2>1, SourceFewer, MountAssumption DEF Rmdir, MountAssumption
  <2>2. ASSUME NEW n \in Name, NEW x \in Dir \ {Root}, Mkdir(n, x)
        PROVE  SourceInv'
    BY <2>2, SourceMkdir
  <2> QED
    BY <1>4, <2>1, <2>2 DEF UseDirectory
<1>5. CASE UseHandle
  <2>1. PICK h \in Handle :
           Write(h) \/ Ftruncate(h) \/ Release(h)
    BY <1>5 DEF UseHandle
  <2>2. CASE Write(h) \/ Ftruncate(h)
    BY <2>2, SourceWrite
  <2>3. CASE Release(h)
    BY <2>3, SourceFile DEF Release, SourceInv
  <2> QED
    BY <2>1, <2>2, <2>3
<1>6. CASE UNCHANGED vars
  BY <1>6, <1>1 DEF vars
<1> QED
  BY <1>2, <1>3, <1>4, <1>5, <1>6 DEF Next

(* No file is written through the mount while it is shown translated, whatever *)
(* is renamed, linked, opened and written in whatever order: the checks that   *)
(* functions.c makes in each operation are enough.                           *)
THEOREM SourcesSafe == Spec => []SourceUntouched
<1>1. SourceInv => SourceUntouched
  BY DEF SourceInv
<1> QED
  BY <1>1, SourceInit, SourceStep, PTL DEF Spec

-----------------------------------------------------------------------------
(* Nothing hides behind a translated file.                                   *)

LEMMA TargetOfSource ==
    ASSUME NEW m \in Name, m.suffix = "target"
    PROVE  /\ SourceOf(m) \in Name
           /\ SourceOf(m).suffix = "source"
           /\ TargetOf(SourceOf(m)) = m
           /\ ~Visible(SourceOf(m)) /\ Visible(m)
<1>1. m = [stem |-> m.stem, suffix |-> m.suffix]
  BY MountAssumption DEF MountAssumption
<1>2. SourceOf(m) = [stem |-> m.stem, suffix |-> "source"]
  BY <1>1 DEF SourceOf
<1>3. TargetOf(SourceOf(m)) = [stem |-> m.stem, suffix |-> "target"]
  BY <1>2 DEF TargetOf
<1> QED
  BY <1>1, <1>2, <1>3, MountAssumption DEF MountAssumption, Visible

(* A name that has got a source since it was checked is still known to be so:  *)
(* what an operation makes is hidden only if it was overtaken.               *)
ShadowInv ==
    \A d \in Dir, n \in Name :
        HasSource(d, n) =>
            \/ entries[d][n] = Nothing /\ <<d, n>> \notin checked
            \/ <<d, n>> \in overtaken

LEMMA ShadowMeans ==
    /\ ShadowInv <=> \A d \in Dir, m \in Name :
          m.suffix = "target" /\ entries[d][SourceOf(m)] \in File /\ <<d, m>> \notin overtaken
             => entries[d][m] = Nothing /\ <<d, m>> \notin checked
    /\ ShadowInv' <=> \A d \in Dir, m \in Name :
          m.suffix = "target" /\ entries'[d][SourceOf(m)] \in File /\ <<d, m>> \notin overtaken'
             => entries'[d][m] = Nothing /\ <<d, m>> \notin checked'
BY DEF ShadowInv, HasSource, SourceOf

LEMMA ShadowInit == Init => ShadowInv
BY MountAssumption, ShadowMeans, TargetOfSource DEF MountAssumption, Init

(* A name is given up, or one that was checked is made. *)
LEMMA ShadowPut ==
    ASSUME NamesOK, ShadowInv, NEW d \in Dir, NEW n \in Name, NEW x \in Node \cup {Nothing},
           entries' = Put(d, n, x), checked' \subseteq checked, overtaken' = overtaken,
           \/ x = Nothing
           \/ <<d, n>> \in checked /\ (Visible(n) \/ x \notin File)
    PROVE  ShadowInv'
<1>1. \A e \in Dir, m \in Name :
         entries'[e][m] = IF e = d /\ m = n THEN x ELSE entries[e][m]
  BY PutEntry
<1>2. Nothing \notin File
  BY MountAssumption DEF MountAssumption
<1>3. ASSUME NEW e \in Dir, NEW m \in Name, m.suffix = "target",
             entries'[e][SourceOf(m)] \in File, <<e, m>> \notin overtaken'
      PROVE  entries'[e][m] = Nothing /\ <<e, m>> \notin checked'
  <2>1. SourceOf(m) \in Name /\ ~Visible(SourceOf(m))
    BY <1>3, TargetOfSource
  <2>2. ~(e = d /\ SourceOf(m) = n)
    BY <1>1, <1>2, <1>3, <2>1
  <2>3. entries[e][SourceOf(m)] \in File
    BY <1>1, <1>3, <2>1, <2>2
  <2>4. entries[e][m] = Nothing /\ <<e, m>> \notin checked
    BY <1>3, <2>3, ShadowMeans
  <2> QED
    BY <1>1, <2>4
<1> QED
  BY <1>3, ShadowMeans

(* A source comes where no file has the target's name: it overtakes what has   *)
(* checked that name. *)
LEMMA ShadowArrives ==
    ASSUME NamesOK, ShadowInv, NEW d \in Dir, NEW n \in Name, NEW x \in File,
           SourceArrives(d, n, x)
    PROVE  ShadowInv'
<1>1. \A e \in Dir, m \in Name :
         entries'[e][m] = IF e = d /\ m = n THEN x ELSE entries[e][m]
  BY PutEntry DEF SourceArrives, Node
<1>2. /\ entries[d][TargetOf(n)] = Nothing /\ ~Visible(n)
      /\ checked' = checked
      /\ overtaken' = overtaken \cup ({<<d, TargetOf(n)>>} \cap checked)
  BY DEF SourceArrives, Visible
<1>3. ASSUME NEW e \in Dir, NEW m \in Name, m.suffix = "target",
             entries'[e][SourceOf(m)] \in File, <<e, m>> \notin overtaken'
      PROVE  entries'[e][m] = Nothing /\ <<e, m>> \notin checked'
  <2>1. /\ SourceOf(m) \in Name /\ TargetOf(SourceOf(m)) = m
        /\ Visible(m)
    BY <1>3, TargetOfSource
  <2>2. entries'[e][m] = entries[e][m] /\ <<e, m>> \notin overtaken
    BY <1>1, <1>2, <1>3, <2>1
  <2>3. CASE e = d /\ SourceOf(m) = n
    BY <1>2, <1>3, <2>1, <2>2, <2>3
  <2>4. CASE ~(e = d /\ SourceOf(m) = n)
    <3>1. entries[e][SourceOf(m)] \in File
      BY <1>1, <1>3, <2>1, <2>4
    <3> QED
      BY <1>2, <1>3, <2>2, <3>1, ShadowMeans
  <2> QED
    BY <2>3, <2>4
<1> QED
  BY <1>3, ShadowMeans

LEMMA ShadowCheck ==
    ASSUME ShadowInv, NEW d \in Dir, NEW n \in Name, Check(d, n)
    PROVE  ShadowInv'
<1>1. /\ ~HasSource(d, n)
      /\ entries' = entries
      /\ checked' = checked \cup {<<d, n>>}
      /\ overtaken' = overtaken \ {<<d, n>>}
  BY DEF Check
<1>2. ASSUME NEW e \in Dir, NEW m \in Name, m.suffix = "target",
             entries'[e][SourceOf(m)] \in File, <<e, m>> \notin overtaken'
      PROVE  entries'[e][m] = Nothing /\ <<e, m>> \notin checked'
  <2>1. <<e, m>> # <<d, n>>
    BY <1>1, <1>2 DEF HasSource
  <2> QED
    BY <1>1, <1>2, <2>1, ShadowMeans
<1> QED
  BY <1>2, ShadowMeans

LEMMA ShadowRename ==
    ASSUME NamesOK, ShadowInv, NEW d \in Dir, NEW n \in Name, NEW d2 \in Dir, NEW n2 \in Name,
           Rename(d, n, d2, n2)
    PROVE  ShadowInv'
<1> DEFINE x == entries[d][n]
<1>1. /\ Put(d, n, Nothing) \in [Dir -> [Name -> Node \cup {Nothing}]]
      /\ \A e \in Dir, m \in Name :
            Put(d, n, Nothing)[e][m] = IF e = d /\ m = n THEN Nothing ELSE entries[e][m]
  BY PutEntry
<1>2. /\ entries' = [Put(d, n, Nothing) EXCEPT ![d2][n2] = x]
      /\ Visible(n) /\ Visible(n2)
      /\ <<d2, n2>> \in checked /\ checked' \subseteq checked /\ overtaken' = overtaken
  BY DEF Rename, Known, Made
<1> HIDE DEF x
<1>3. \A e \in Dir, m \in Name :
            entries'[e][m] = IF e = d2 /\ m = n2 THEN x
                             ELSE IF e = d /\ m = n THEN Nothing ELSE entries[e][m]
  BY <1>1, <1>2
<1>4. ASSUME NEW e \in Dir, NEW m \in Name, m.suffix = "target",
             entries'[e][SourceOf(m)] \in File, <<e, m>> \notin overtaken'
      PROVE  entries'[e][m] = Nothing /\ <<e, m>> \notin checked'
  <2>1. SourceOf(m) \in Name /\ SourceOf(m) # n /\ SourceOf(m) # n2
    BY <1>2, <1>4, TargetOfSource
  <2>2. entries[e][SourceOf(m)] \in File
    BY <1>3, <1>4, <2>1
  <2>3. entries[e][m] = Nothing /\ <<e, m>> \notin checked
    BY <1>2, <1>4, <2>2, ShadowMeans
  <2> QED
    BY <1>2, <1>3, <2>3
<1> QED
  BY <1>4, ShadowMeans

LEMMA ShadowSame ==
    ASSUME ShadowInv, entries' = entries, checked' \subseteq checked, overtaken' = overtaken
    PROVE  ShadowInv'
BY ShadowMeans

LEMMA ShadowStep == NamesOK /\ ShadowInv /\ [Next]_vars => ShadowInv'
<1> SUFFICES ASSUME NamesOK, ShadowInv, [Next]_vars
             PROVE  ShadowInv'
  OBVIOUS
<1>1. File \cup Special \subseteq Node /\ Dir \subseteq Node /\ Root \in Dir /\ Dir \cap File = {}
  BY MountAssumption DEF MountAssumption, Node
<1>2. CASE MakeName
  <2>1. PICK d \in Dir, n \in Name :
           \/ Check(d, n)
           \/ CallFails(d, n)
           \/ \E x \in File \cup Special : Mknod(d, n, x)
           \/ \E x \in Special : Symlink(d, n, x)
           \/ \E x \in File, h \in Handle : Create(h, d, n, x)
           \/ \E x \in File : SourceArrives(d, n, x)
           \/ \E d2 \in Dir, n2 \in Name : Link(d, n, d2, n2)
    BY <1>2 DEF MakeName
  <2>2. ASSUME NEW x \in File \cup Special,
               \/ Mknod(d, n, x)
               \/ Symlink(d, n, x)
               \/ \E h \in Handle : Create(h, d, n, x)
        PROVE  ShadowInv'
    <3>1. /\ entries' = Put(d, n, x) /\ Visible(n)
          /\ <<d, n>> \in checked /\ checked' \subseteq checked /\ overtaken' = overtaken
      BY <2>2 DEF Mknod, Symlink, Create, New, Made
    <3> QED
      BY <1>1, <3>1, ShadowPut
  <2>3. ASSUME NEW x \in File, SourceArrives(d, n, x)
        PROVE  ShadowInv'
    BY <2>3, ShadowArrives
  <2>4. ASSUME NEW d2 \in Dir, NEW n2 \in Name, Link(d, n, d2, n2)
        PROVE  ShadowInv'
    <3>1. /\ entries' = Put(d2, n2, entries[d][n]) /\ Visible(n2)
          /\ entries[d][n] \in Node \cup {Nothing}
          /\ <<d2, n2>> \in checked /\ checked' \subseteq checked /\ overtaken' = overtaken
      BY <1>1, <2>4 DEF Link, Made
    <3> QED
      BY <3>1, ShadowPut
  <2>5. CASE CallFails(d, n)
    BY <2>5, ShadowSame DEF CallFails, Made
  <2> QED
    BY <2>1, <2>2, <2>3, <2>4, <2>5, ShadowCheck
<1>3. CASE UseName
  <2>1. PICK d \in Dir, n \in Name :
           \/ Unlink(d, n)
           \/ \E d2 \in Dir, n2 \in Name : Rename(d, n, d2, n2)
           \/ UNCHANGED <<entries, checked, overtaken>>
    BY <1>3 DEF UseName, Truncate, Chmod, OpenPlain, OpenTranslated
  <2>2. CASE Unlink(d, n)
    <3>1. /\ entries' = Put(d, Actual(d, n), Nothing) /\ Actual(d, n) \in Name
          /\ checked' = checked /\ overtaken' = overtaken
      BY <2>2, ActualIsName DEF Unlink
    <3> QED
      BY <3>1, ShadowPut
  <2> QED
    BY <2>1, <2>2, ShadowRename, ShadowSame
<1>4. CASE UseDirectory
  <2>1. ASSUME NEW n \in Name, Rmdir(n)
        PROVE  ShadowInv'
    BY <1>1, <2>1, ShadowPut DEF Rmdir
  <2>2. ASSUME NEW n \in Name, NEW x \in Dir \ {Root}, Mkdir(n, x)
        PROVE  ShadowInv'
    <3>1. /\ entries' = Put(Root, n, x) /\ x \notin File /\ x \in Node
          /\ <<Root, n>> \in checked /\ checked' \subseteq checked /\ overtaken' = overtaken
      BY <1>1, <2>2 DEF Mkdir, New, Made
    <3> QED
      BY <1>1, <3>1, ShadowPut
  <2> QED
    BY <1>4, <2>1, <2>2 DEF UseDirectory
<1>5. CASE UseHandle \/ UNCHANGED vars
  <2>1. UNCHANGED <<entries, checked, overtaken>>
    BY <1>5 DEF UseHandle, Write, Ftruncate, Release, vars
  <2> QED
    BY <2>1, ShadowSame
<1> QED
  BY <1>2, <1>3, <1>4, <1>5 DEF Next

(* No file is hidden because its name stands for the translation of another,   *)
(* except one whose source came between an operation's check and its system   *)
(* call: the check that each operation makes of its own catches every source  *)
(* that the kernel has not heard of, after any renames and in any directory.  *)
THEOREM NothingShadowed == Spec => []NoShadow
<1>1. SourceInv => NamesOK
  BY DEF SourceInv
<1>2. Spec => []SourceInv
  BY SourceInit, SourceStep, PTL DEF Spec
<1>3. ShadowInv => NoShadow
  BY DEF ShadowInv, NoShadow
<1> QED
  BY <1>1, <1>2, <1>3, ShadowInit, ShadowStep, PTL DEF Spec
-----------------------------------------------------------------------------
(* The operations agree on what a name is.                                   *)

(* A name with the source suffix is never a link or a device: nothing can make *)
(* or move one there, and only files come from elsewhere.                    *)
SourceNames ==
    \A d \in Dir, n \in Name : ~Visible(n) => entries[d][n] \notin Special

LEMMA SourceNamesPut ==
    ASSUME NamesOK, SourceNames, NEW d \in Dir, NEW n \in Name, NEW x \in Node \cup {Nothing},
           entries' = Put(d, n, x), Visible(n) \/ x \notin Special
    PROVE  SourceNames'
<1>1. \A e \in Dir, m \in Name :
         entries'[e][m] = IF e = d /\ m = n THEN x ELSE entries[e][m]
  BY PutEntry
<1> QED
  BY <1>1 DEF SourceNames, Visible

LEMMA SourceNamesRename ==
    ASSUME NamesOK, SourceNames, NEW d \in Dir, NEW n \in Name, NEW d2 \in Dir, NEW n2 \in Name,
           Rename(d, n, d2, n2)
    PROVE  SourceNames'
<1>1. /\ Put(d, n, Nothing) \in [Dir -> [Name -> Node \cup {Nothing}]]
      /\ \A e \in Dir, m \in Name :
            Put(d, n, Nothing)[e][m] = IF e = d /\ m = n THEN Nothing ELSE entries[e][m]
  BY PutEntry
<1>2. /\ entries' = [Put(d, n, Nothing) EXCEPT ![d2][n2] = entries[d][n]]
      /\ Visible(n) /\ Visible(n2)
  BY DEF Rename, Known
<1>3. \A e \in Dir, m \in Name : ~Visible(m) => entries'[e][m] = entries[e][m]
  BY <1>1, <1>2
<1> QED
  BY <1>3 DEF SourceNames, Visible

LEMMA SourceNamesStep == NamesOK /\ SourceNames /\ [Next]_vars => SourceNames'
<1> SUFFICES ASSUME NamesOK, SourceNames, [Next]_vars
             PROVE  SourceNames'
  OBVIOUS
<1>1. /\ File \cup Special \subseteq Node /\ Dir \subseteq Node /\ Root \in Dir
      /\ (File \cup Dir \cup {Nothing}) \cap Special = {}
  BY MountAssumption DEF MountAssumption, Node
<1>2. CASE MakeName
  <2>1. PICK d \in Dir, n \in Name :
           \/ Check(d, n)
           \/ CallFails(d, n)
           \/ \E x \in File \cup Special : Mknod(d, n, x)
           \/ \E x \in Special : Symlink(d, n, x)
           \/ \E x \in File, h \in Handle : Create(h, d, n, x)
           \/ \E x \in File : SourceArrives(d, n, x)
           \/ \E d2 \in Dir, n2 \in Name : Link(d, n, d2, n2)
    BY <1>2 DEF MakeName
  <2>2. ASSUME NEW x \in File \cup Special,
               \/ Mknod(d, n, x)
               \/ Symlink(d, n, x)
               \/ \E h \in Handle : Create(h, d, n, x)
        PROVE  SourceNames'
    <3>1. entries' = Put(d, n, x) /\ Visible(n)
      BY <2>2 DEF Mknod, Symlink, Create, New
    <3> QED
      BY <1>1, <3>1, SourceNamesPut
  <2>3. ASSUME NEW x \in File, SourceArrives(d, n, x)
        PROVE  SourceNames'
    BY <1>1, <2>3, SourceNamesPut DEF SourceArrives
  <2>4. ASSUME NEW d2 \in Dir, NEW n2 \in Name, Link(d, n, d2, n2)
        PROVE  SourceNames'
    <3>1. /\ entries' = Put(d2, n2, entries[d][n]) /\ Visible(n2)
          /\ entries[d][n] \in Node \cup {Nothing}
      BY <1>1, <2>4 DEF Link
    <3> QED
      BY <3>1, SourceNamesPut
  <2>5. CASE Check(d, n) \/ CallFails(d, n)
    BY <2>5 DEF Check, CallFails, SourceNames, Visible
  <2> QED
    BY <2>1, <2>2, <2>3, <2>4, <2>5
<1>3. CASE UseName
  <2>1. PICK d \in Dir, n \in Name :
           \/ Unlink(d, n)
           \/ \E d2 \in Dir, n2 \in Name : Rename(d, n, d2, n2)
           \/ entries' = entries
    BY <1>3 DEF UseName, Truncate, Chmod, OpenPlain, OpenTranslated
  <2>2. CASE Unlink(d, n)
    <3>1. entries' = Put(d, Actual(d, n), Nothing) /\ Actual(d, n) \in Name
      BY <2>2, ActualIsName DEF Unlink
    <3> QED
      BY <1>1, <3>1, SourceNamesPut
  <2>3. CASE entries' = entries
    BY <2>3 DEF SourceNames, Visible
  <2> QED
    BY <2>1, <2>2, <2>3, SourceNamesRename
<1>4. CASE UseDirectory
  <2>1. ASSUME NEW n \in Name, Rmdir(n)
        PROVE  SourceNames'
    BY <1>1, <2>1, SourceNamesPut DEF Rmdir
  <2>2. ASSUME NEW n \in Name, NEW x \in Dir \ {Root}, Mkdir(n, x)
        PROVE  SourceNames'
    <3>1. entries' = Put(Root, n, x) /\ x \notin Special /\ x \in Node
      BY <1>1, <2>2 DEF Mkdir, New
    <3> QED
      BY <1>1, <3>1, SourceNamesPut
  <2> QED
    BY <1>4, <2>1, <2>2 DEF UseDirectory
<1>5. CASE UseHandle \/ UNCHANGED vars
  <2>1. entries' = entries
    BY <1>5 DEF UseHandle, Write, Ftruncate, Release, vars
  <2> QED
    BY <2>1 DEF SourceNames, Visible
<1> QED
  BY <1>2, <1>3, <1>4, <1>5 DEF Next

LEMMA ListingFound == NamesOK /\ SourceNames => ListedIsFound
<1> SUFFICES ASSUME NamesOK, SourceNames, NEW d \in Dir, NEW n \in Name
             PROVE  n \in Listing(d) <=>
                        \/ Found(d, n)
                        \/ n.suffix = "target" /\ entries[d][SourceOf(n)] \in Dir
  BY DEF ListedIsFound
<1>1. Nothing \notin Node
  BY MountAssumption DEF MountAssumption, Node
<1>2. ASSUME NEW m \in Name, ~Visible(m)
      PROVE  TargetOf(m) \in Name /\ TargetOf(m).suffix = "target" /\ SourceOf(TargetOf(m)) = m
  <2>1. m = [stem |-> m.stem, suffix |-> "source"] /\ TargetOf(m) \in Name
    BY <1>2, MountAssumption DEF MountAssumption, Visible
  <2>2. TargetOf(m) = [stem |-> m.stem, suffix |-> "target"]
    BY <2>1 DEF TargetOf
  <2>3. SourceOf(TargetOf(m)) = [stem |-> m.stem, suffix |-> "source"]
    BY <2>2 DEF SourceOf
  <2> QED
    BY <2>1, <2>2, <2>3
<1>3. Found(d, n) <=> Visible(n) /\ (HasSource(d, n) \/ entries[d][n] # Nothing)
  BY <1>1 DEF Found, Shown, Actual, HasSource, Node
<1>4. n \in Listing(d) <=>
        \/ Visible(n) /\ entries[d][n] # Nothing
        \/ n.suffix = "target" /\ entries[d][SourceOf(n)] # Nothing
  <2>1. ASSUME n \in Listing(d)
        PROVE  \/ Visible(n) /\ entries[d][n] # Nothing
               \/ n.suffix = "target" /\ entries[d][SourceOf(n)] # Nothing
    <3>1. PICK m \in Name : /\ entries[d][m] # Nothing
                            /\ n = IF Visible(m) THEN m ELSE TargetOf(m)
      BY <2>1 DEF Listing
    <3> QED
      BY <1>2, <3>1
  <2>2. ASSUME n.suffix = "target", entries[d][SourceOf(n)] # Nothing
        PROVE  n \in Listing(d)
    <3>1. SourceOf(n) \in Name /\ ~Visible(SourceOf(n)) /\ TargetOf(SourceOf(n)) = n
      BY <2>2, TargetOfSource
    <3> QED
      BY <2>2, <3>1 DEF Listing
  <2>3. ASSUME Visible(n), entries[d][n] # Nothing
        PROVE  n \in Listing(d)
    BY <2>3 DEF Listing
  <2> QED
    BY <2>1, <2>2, <2>3
<1>5. ASSUME n.suffix = "target"
      PROVE  /\ Visible(n)
             /\ \/ entries[d][SourceOf(n)] = Nothing
                \/ entries[d][SourceOf(n)] \in File
                \/ entries[d][SourceOf(n)] \in Dir
  <2>1. SourceOf(n) \in Name /\ ~Visible(SourceOf(n)) /\ Visible(n)
    BY <1>5, TargetOfSource
  <2> QED
    BY <2>1 DEF SourceNames, NamesOK, Node
<1>6. HasSource(d, n) <=> n.suffix = "target" /\ entries[d][SourceOf(n)] \in File
  BY DEF HasSource
<1> QED
  BY <1>1, <1>3, <1>4, <1>5, <1>6 DEF Node

LEMMA OperationsAgree ==
    ASSUME NEW d \in Dir, NEW n \in Name, Known(d, n)
    PROVE  /\ {Chowned(d, n), Utimed(d, n), Statfsed(d, n)} = {Shown(d, n)}
           /\ Shown(d, n) \in Special => LinkRead(d, n) = Shown(d, n)
           /\ Shown(d, n) \in Dir => OpenedDir(d, n) = Shown(d, n)
           /\ Shown(d, n) \in File => \A a \in Access :
                  /\ Opens(d, n, a) <=> MayAccess(d, n, a)
                  /\ Opens(d, n, a) <=> (a = "write" => ShownWritable(d, n))
<1>1. /\ Visible(n)
      /\ Shown(d, n) = entries[d][Actual(d, n)]
      /\ HasSource(d, n) => Shown(d, n) \in File
      /\ ~HasSource(d, n) => Actual(d, n) = n
  BY DEF Known, Shown, Actual, HasSource
<1>2. File \cap Special = {} /\ Dir \cap File = {} /\ Nothing \notin File
  BY MountAssumption DEF MountAssumption
<1>3. {Chowned(d, n), Utimed(d, n), Statfsed(d, n)} = {Shown(d, n)}
  BY <1>1 DEF Chowned, Utimed, Statfsed
<1>4. Shown(d, n) \in Special => LinkRead(d, n) = Shown(d, n)
  BY <1>1, <1>2 DEF LinkRead
<1>5. Shown(d, n) \in Dir => OpenedDir(d, n) = Shown(d, n)
  BY <1>1, <1>2 DEF OpenedDir
<1>6. ASSUME Shown(d, n) \in File, NEW a \in Access
      PROVE  /\ Opens(d, n, a) <=> MayAccess(d, n, a)
             /\ Opens(d, n, a) <=> (a = "write" => ShownWritable(d, n))
  <2>1. CASE HasSource(d, n)
    BY <2>1 DEF Opens, MayAccess, ShownWritable, Access
  <2>2. CASE ~HasSource(d, n)
    BY <1>1, <1>2, <1>6, <2>2 DEF Opens, MayAccess, ShownWritable
  <2> QED
    BY <2>1, <2>2
<1> QED
  BY <1>3, <1>4, <1>5, <1>6

(* Whatever has been made, renamed, linked or added beside it, a name that the *)
(* kernel can ask for is one thing to all operations, although each of them    *)
(* translates and checks it by itself, and readdir() lists it.               *)
THEOREM NamesMeanOneThing == Spec => []NamesAgree
<1>1. Init => SourceNames
  BY MountAssumption DEF MountAssumption, Init, SourceNames
<1>2. SourceInv => NamesOK
  BY DEF SourceInv
<1>3. Spec => []SourceInv
  BY SourceInit, SourceStep, PTL DEF Spec
<1>4. NamesOK /\ SourceNames => NamesAgree
  BY ListingFound, OperationsAgree DEF NamesAgree
<1> QED
  BY <1>1, <1>2, <1>3, <1>4, SourceNamesStep, PTL DEF Spec
=============================================================================
