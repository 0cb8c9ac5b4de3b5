-------------------------------- MODULE Mount --------------------------------
(***************************************************************************)
(* The names of the mount and the operations on them in --cache mode, when   *)
(* nothing is preloaded                                                     *)
(* (src/src/functions.c, functions_translate.c, functions_common.c, util.c). *)
(*                                                                         *)
(* A file x.source in the directory that is mapped is seen as x.target, and  *)
(* not as x.source.  Each operation decides for itself, with the checks of  *)
(* functions_common.h, what a name stands for and whether it is allowed.     *)
(*                                                                         *)
(* What makes a name checks it for a source and then does the system call:   *)
(* two steps, between which a source can come from outside of the mount, and *)
(* operations on other names too.  The kernel and libfuse only keep apart    *)
(* two operations that change one directory, and a rename or removal of a    *)
(* directory and the operations in it.                                      *)
(* The other operations need a file that is there already, beside which no   *)
(* source comes, so that what they have checked stays true: each is one step.*)
(***************************************************************************)
EXTENDS Naturals, FiniteSets

CONSTANTS
    Name,           \* [stem, suffix], where suffix is one of Suffix
    Dir,            \* directories
    Root,           \* the one that is mapped
    File,           \* regular files
    Special,        \* symbolic links and devices, which the kernel opens itself
    Handle,         \* what FUSE has open
    Nothing,        \* no file, no handle
    MaxEntries      \* bound: names in all directories

Suffix == {"source", "target", "none"}

SourceOf(n) == [n EXCEPT !.suffix = "source"]
TargetOf(n) == [n EXCEPT !.suffix = "target"]

(* No name has both suffixes. *)
ASSUME MountAssumption ==
    /\ \A n \in Name : n = [stem |-> n.stem, suffix |-> n.suffix] /\ n.suffix \in Suffix
    /\ \A n \in Name : n.suffix # "none" => {SourceOf(n), TargetOf(n)} \subseteq Name
    /\ Root \in Dir
    /\ Dir \cap File = {} /\ Dir \cap Special = {} /\ File \cap Special = {}
    /\ Nothing \notin Dir \cup File \cup Special

VARIABLES
    entries,        \* what each name in each directory is
    handles,        \* the open files
    writable,       \* the files whose mode has a bit of 0333
    written,        \* history: the files that were changed through the mount
    checked,        \* the names that an operation in progress has checked and will make
    overtaken       \* history: the names that got a source after they were checked

vars == <<entries, handles, writable, written, checked, overtaken>>

Node == Dir \cup File \cup Special

Translated(d, n) == [kind |-> "translated", dir |-> d, name |-> n]
Plain(d, n, f, a) ==
    [kind |-> "plain", dir |-> d, name |-> n, node |-> f, access |-> a]

Access == {"read", "write"}

FileHandle ==
    {Translated(d, n) : d \in Dir, n \in Name}
      \cup {Plain(d, n, f, a) : d \in Dir, n \in Name, f \in File, a \in Access}

OpenHandles == {h \in Handle : handles[h] # Nothing}

(* libfuse's is_open(): it hides such a name instead of removing it. *)
IsOpen(d, n) == \E h \in OpenHandles : handles[h].dir = d /\ handles[h].name = n

Linked == {entries[d][n] : d \in Dir, n \in Name} \ {Nothing}

(* A node that is not in use: what is made anew. *)
Fresh(x) ==
    /\ x \notin Linked
    /\ \A h \in OpenHandles : handles[h].kind = "plain" => handles[h].node # x

Entries == {p \in Dir \X Name : entries[p[1]][p[2]] # Nothing}

Put(d, n, x) == [entries EXCEPT ![d][n] = x]

Init ==
    /\ entries = [d \in Dir |-> [n \in Name |-> Nothing]]
    /\ handles = [h \in Handle |-> Nothing]
    /\ writable = {}
    /\ written = {}
    /\ checked = {}
    /\ overtaken = {}

-----------------------------------------------------------------------------
(* What a name stands for.                                                   *)

(* translate_file() finds something: CHECK_SOURCE_PATH_CREATE and             *)
(* CHECK_SOURCE_PATH_MODIFY let pass what does not have a source.            *)
HasSource(d, n) == n.suffix = "target" /\ entries[d][SourceOf(n)] \in File

(* CHECK_SOURCE_PATH lets the name pass. *)
Visible(n) == n.suffix # "source"

Actual(d, n) == IF HasSource(d, n) THEN SourceOf(n) ELSE n

(* getattr(): what the name is.  modifyStatInfo() takes the bits of 0333 from  *)
(* what it says of a translation's mode.                                     *)
Shown(d, n) == IF Visible(n) THEN entries[d][Actual(d, n)] ELSE Nothing

ShownWritable(d, n) == ~HasSource(d, n) /\ Shown(d, n) \in writable

Found(d, n) == Shown(d, n) # Nothing

(* readdir(): every name with the source suffix is shown with the target's. *)
Listing(d) ==
    {IF Visible(n) THEN n ELSE TargetOf(n) : n \in {m \in Name : entries[d][m] # Nothing}}

(* A directory that the kernel finds by its path. *)
Reachable(d) ==
    d = Root \/ \E n \in Name : entries[Root][n] = d /\ Found(Root, n) /\ Actual(Root, n) = n

(* The kernel does not send operations on a name that getattr() never shows.  *)
(* Whether the name is still there is for the operation to see.              *)
Known(d, n) == Reachable(d) /\ Visible(n)

-----------------------------------------------------------------------------
(* Operations that change nothing here: the node that they act on, or what    *)
(* they allow.  utime() and open() check an uninitialized path for the source *)
(* suffix, and so may refuse anything; this is what they do otherwise.        *)

(* Mutant: access() asks for the permissions of the source. *)
MayAccessSource(d, n, a) ==
    IF a = "write" THEN entries[d][Actual(d, n)] \in writable
    ELSE entries[d][Actual(d, n)] # Nothing

(* access(), which does not check the suffix *)
MayAccess(d, n, a) ==
    IF HasSource(d, n) THEN a = "read"
    ELSE /\ entries[d][n] # Nothing
         /\ a = "write" => entries[d][n] \in writable

(* open() of a regular file.  Sources are readable, as all files are. *)
Opens(d, n, a) ==
    \/ HasSource(d, n) /\ a = "read"
    \/ /\ ~HasSource(d, n)
       /\ entries[d][n] \in File
       /\ a = "write" => entries[d][n] \in writable

Chowned(d, n) == IF Visible(n) THEN entries[d][Actual(d, n)] ELSE Nothing

Utimed(d, n) == entries[d][Actual(d, n)]

Statfsed(d, n) == IF Visible(n) THEN entries[d][Actual(d, n)] ELSE Nothing

(* readlink() and opendir() do not translate, opendir() does not check. *)
LinkRead(d, n) == IF Visible(n) THEN entries[d][n] ELSE Nothing

OpenedDir(d, n) == entries[d][n]

-----------------------------------------------------------------------------
(* Operations that make names.  The kernel sends them if it has not found the *)
(* name, but a source for it may have been added since.                      *)

(* No operation in progress changes the directory. *)
Idle(d) == \A n \in Name : <<d, n>> \notin checked

(* The first half of each of them: CHECK_SOURCE_PATH, which mkdir() does not   *)
(* have, and CHECK_SOURCE_PATH_CREATE.  Directories are only made in Root.    *)
Check(d, n) ==
    /\ Idle(d)
    /\ Reachable(d)
    /\ Visible(n) \/ d = Root
    /\ ~HasSource(d, n)
    /\ checked' = checked \cup {<<d, n>>}
    /\ overtaken' = overtaken \ {<<d, n>>}
    /\ UNCHANGED <<entries, handles, writable, written>>

(* The system call that is the second half. *)
Made(d, n) == <<d, n>> \in checked /\ checked' = checked \ {<<d, n>>}

(* It fails, for whatever reason. *)
CallFails(d, n) ==
    /\ Made(d, n)
    /\ UNCHANGED <<entries, handles, writable, written, overtaken>>

New(d, n, x) ==
    /\ entries[d][n] = Nothing
    /\ Fresh(x)
    /\ Cardinality(Entries) < MaxEntries
    /\ entries' = Put(d, n, x)
    /\ written' = written \ {x}

NewMode(x) ==
    \E w \in SUBSET ({x} \cap File) : writable' = (writable \ {x}) \cup w

(* Mutant: the name is not checked for having a source. *)
MknodUnchecked(d, n, x) ==
    /\ Idle(d) /\ Reachable(d)
    /\ Visible(n)
    /\ New(d, n, x)
    /\ NewMode(x)
    /\ UNCHANGED <<handles, checked, overtaken>>

Mknod(d, n, x) ==
    /\ Made(d, n)
    /\ Visible(n)
    /\ New(d, n, x)
    /\ NewMode(x)
    /\ UNCHANGED <<handles, overtaken>>

(* Only a directory can get a name with the source suffix. *)
Mkdir(n, x) ==
    /\ Made(Root, n)
    /\ New(Root, n, x)
    /\ UNCHANGED <<handles, writable, overtaken>>

Symlink(d, n, x) ==
    /\ Made(d, n)
    /\ Visible(n)
    /\ New(d, n, x)
    /\ UNCHANGED <<handles, writable, overtaken>>

(* creat() opens for writing, whatever the mode is. *)
Create(h, d, n, x) ==
    /\ handles[h] = Nothing
    /\ Made(d, n)
    /\ Visible(n)
    /\ New(d, n, x)
    /\ NewMode(x)
    /\ handles' = [handles EXCEPT ![h] = Plain(d, n, x, "write")]
    /\ UNCHANGED overtaken

(* Mutant: the link is to what the name stands for. *)
LinkTranslated(d, n, d2, n2) ==
    /\ Made(d2, n2)
    /\ Known(d, n)
    /\ Visible(n2)
    /\ entries[d][Actual(d, n)] \in File \cup Special
    /\ entries[d2][n2] = Nothing
    /\ Cardinality(Entries) < MaxEntries
    /\ entries' = Put(d2, n2, entries[d][Actual(d, n)])
    /\ UNCHANGED <<handles, writable, written, overtaken>>

(* CHECK_SOURCE_PATH_MODIFY is applied to an uninitialized path, and so may   *)
(* refuse anything or nothing.                                              *)
Link(d, n, d2, n2) ==
    /\ Made(d2, n2)
    /\ entries[d][n] \in File \cup Special
    /\ Known(d, n)
    /\ Visible(n2)
    /\ entries[d2][n2] = Nothing
    /\ Cardinality(Entries) < MaxEntries
    /\ entries' = Put(d2, n2, entries[d][n])
    /\ UNCHANGED <<handles, writable, written, overtaken>>

-----------------------------------------------------------------------------
(* Operations on a name that is there.                                       *)

Unlink(d, n) ==
    /\ Idle(d)
    /\ Known(d, n)
    /\ ~IsOpen(d, n)
    /\ entries[d][Actual(d, n)] \in File \cup Special
    /\ entries' = Put(d, Actual(d, n), Nothing)
    /\ UNCHANGED <<handles, writable, written, checked, overtaken>>

Empty(d) == \A n \in Name : entries[d][n] = Nothing

Rmdir(n) ==
    /\ Idle(Root)
    /\ Known(Root, n)
    /\ entries[Root][n] \in Dir
    /\ Empty(entries[Root][n]) /\ Idle(entries[Root][n])
    /\ entries' = Put(Root, n, Nothing)
    /\ UNCHANGED <<handles, writable, written, checked, overtaken>>

(* rename(2) replaces a file with a file and an empty directory with a        *)
(* directory.  Replacing a name that is open is not modelled.               *)
Replaces(x, old) ==
    \/ old = Nothing
    \/ x \notin Dir /\ old \notin Dir /\ old # x
    \/ x \in Dir /\ old \in Dir /\ old # x /\ Empty(old) /\ Idle(old)

Elsewhere(file, d, n) ==
    IF file.kind = "plain" THEN Plain(d, n, file.node, file.access) ELSE Translated(d, n)

(* libfuse keeps track of the names of what is open. *)
Moved(d, n, d2, n2) ==
    [h \in Handle |->
        IF h \in OpenHandles /\ handles[h].dir = d /\ handles[h].name = n
        THEN Elsewhere(handles[h], d2, n2)
        ELSE handles[h]]

(* CHECK_SOURCE_PATH_MODIFY is applied to an uninitialized path here, too. *)
Rename(d, n, d2, n2) ==
    /\ Made(d2, n2)
    /\ d # d2 => Idle(d)
    /\ entries[d][n] # Nothing
    /\ Known(d, n)
    /\ Visible(n2)
    /\ entries[d][n] \in Dir => d2 = Root /\ Idle(entries[d][n])
    /\ Replaces(entries[d][n], entries[d2][n2])
    /\ ~IsOpen(d2, n2)
    /\ entries' = [Put(d, n, Nothing) EXCEPT ![d2][n2] = entries[d][n]]
    /\ handles' = Moved(d, n, d2, n2)
    /\ UNCHANGED <<writable, written, overtaken>>

(* chmod(): w is whether the mode has a bit of 0333. *)
Chmod(d, n, w) ==
    /\ Known(d, n)
    /\ HasSource(d, n) => ~w
    /\ entries[d][Actual(d, n)] \in File
    /\ writable' = (writable \ {entries[d][Actual(d, n)]})
                     \cup IF w THEN {entries[d][Actual(d, n)]} ELSE {}
    /\ UNCHANGED <<entries, handles, written, checked, overtaken>>

Truncate(d, n) ==
    /\ Known(d, n)
    /\ ~HasSource(d, n)
    /\ entries[d][n] \in writable
    /\ written' = written \cup {entries[d][n]}
    /\ UNCHANGED <<entries, handles, writable, checked, overtaken>>

-----------------------------------------------------------------------------
(* Open files.  open() checks an uninitialized path for the source suffix,    *)
(* and so may refuse anything.                                              *)

OpenPlain(h, d, n, a) ==
    /\ handles[h] = Nothing
    /\ Known(d, n)
    /\ ~HasSource(d, n)
    /\ Opens(d, n, a)
    /\ handles' = [handles EXCEPT ![h] = Plain(d, n, entries[d][n], a)]
    /\ UNCHANGED <<entries, writable, written, checked, overtaken>>

OpenTranslated(h, d, n) ==
    /\ handles[h] = Nothing
    /\ Known(d, n)
    /\ HasSource(d, n)
    /\ Opens(d, n, "read")
    /\ handles' = [handles EXCEPT ![h] = Translated(d, n)]
    /\ UNCHANGED <<entries, writable, written, checked, overtaken>>

(* write() *)
Write(h) ==
    /\ h \in OpenHandles
    /\ handles[h].kind = "plain" /\ handles[h].access = "write"
    /\ written' = written \cup {handles[h].node}
    /\ UNCHANGED <<entries, handles, writable, checked, overtaken>>

(* ftruncate() has the same condition and the same effect on what is written. *)
Ftruncate(h) ==
    /\ h \in OpenHandles
    /\ handles[h].kind = "plain" /\ handles[h].access = "write"
    /\ written' = written \cup {handles[h].node}
    /\ UNCHANGED <<entries, handles, writable, checked, overtaken>>

(* What becomes of the use of a translation is in Caches. *)
Release(h) ==
    /\ h \in OpenHandles
    /\ handles' = [handles EXCEPT ![h] = Nothing]
    /\ UNCHANGED <<entries, writable, written, checked, overtaken>>

-----------------------------------------------------------------------------
(* A source file is added to the directory, not through the mount.  Nobody    *)
(* adds one beside a file that has the target's name.                       *)
SourceArrives(d, n, x) ==
    /\ n.suffix = "source"
    /\ d \in Linked \cup {Root}
    /\ entries[d][n] = Nothing
    /\ entries[d][TargetOf(n)] = Nothing
    /\ Fresh(x)
    /\ Cardinality(Entries) < MaxEntries
    /\ entries' = Put(d, n, x)
    /\ written' = written \ {x}
    /\ NewMode(x)
    /\ overtaken' = overtaken \cup ({<<d, TargetOf(n)>>} \cap checked)
    /\ UNCHANGED <<handles, checked>>

MakeName ==
    \E d \in Dir, n \in Name :
        \/ Check(d, n)
        \/ CallFails(d, n)
        \/ \E x \in File \cup Special : Mknod(d, n, x)
        \/ \E x \in Special : Symlink(d, n, x)
        \/ \E x \in File, h \in Handle : Create(h, d, n, x)
        \/ \E x \in File : SourceArrives(d, n, x)
        \/ \E d2 \in Dir, n2 \in Name : Link(d, n, d2, n2)

UseName ==
    \E d \in Dir, n \in Name :
        \/ Unlink(d, n)
        \/ Truncate(d, n)
        \/ \E d2 \in Dir, n2 \in Name : Rename(d, n, d2, n2)
        \/ \E w \in BOOLEAN : Chmod(d, n, w)
        \/ \E h \in Handle, a \in Access : OpenPlain(h, d, n, a)
        \/ \E h \in Handle : OpenTranslated(h, d, n)

UseDirectory ==
    \E n \in Name : Rmdir(n) \/ \E x \in Dir \ {Root} : Mkdir(n, x)

UseHandle ==
    \E h \in Handle :
        Write(h) \/ Ftruncate(h) \/ Release(h)

Next == MakeName \/ UseName \/ UseDirectory \/ UseHandle

Spec == Init /\ [][Next]_vars

-----------------------------------------------------------------------------
(* Properties.                                                               *)

(* Every variable has its type. *)
TypeOK ==
    /\ entries \in [Dir -> [Name -> Node \cup {Nothing}]]
    /\ handles \in [Handle -> FileHandle \cup {Nothing}]
    /\ writable \subseteq File
    /\ written \subseteq File
    /\ checked \subseteq Dir \X Name
    /\ overtaken \subseteq Dir \X Name

Sources == {entries[d][n] : d \in Dir, n \in {m \in Name : ~Visible(m)}} \cap File

(* Whatever is renamed, linked, opened and written in whatever order, a file  *)
(* that is a source has never been written through the mount.                *)
SourceUntouched == Sources \cap written = {}

(* A name that stands for a translation hides no file of that name, which      *)
(* could not be got at any more: however late the kernel's idea of the name   *)
(* is, the operations check it again.  Only a source that comes after this    *)
(* check, before the system call, is missed.                                *)
NoShadow ==
    \A d \in Dir, n \in Name :
        HasSource(d, n) => entries[d][n] = Nothing \/ <<d, n>> \in overtaken

(* What readdir() lists is what getattr() finds, except for a directory that   *)
(* has the source suffix: it is listed under a name that does not exist.      *)
ListedIsFound ==
    \A d \in Dir, n \in Name :
        n \in Listing(d) <=>
            \/ Found(d, n)
            \/ n.suffix = "target" /\ entries[d][SourceOf(n)] \in Dir

(* Each operation translates and checks a name by itself.  Of a name that the  *)
(* kernel can ask for, all have the same idea, whatever has been renamed or   *)
(* linked to it or has come beside it: they act on the node that getattr()    *)
(* shows, and a file can be opened as access() allows and as its mode says.   *)
NamesAgree ==
    /\ ListedIsFound
    /\ \A d \in Dir : \A n \in {m \in Name : Known(d, m)} :
           /\ {Chowned(d, n), Utimed(d, n), Statfsed(d, n)} = {Shown(d, n)}
           /\ Shown(d, n) \in Special => LinkRead(d, n) = Shown(d, n)
           /\ Shown(d, n) \in Dir => OpenedDir(d, n) = Shown(d, n)
           /\ Shown(d, n) \in File => \A a \in Access :
                  /\ Opens(d, n, a) <=> MayAccess(d, n, a)
                  /\ Opens(d, n, a) <=> (a = "write" => ShownWritable(d, n))
=============================================================================
