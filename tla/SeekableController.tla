------------------------- MODULE SeekableController -------------------------
(***************************************************************************)
(* The controller in --seekable mode (src/src/controller/Controller.cpp)    *)
(* on top of the read loop.  Every open() makes a FileData of its own with a *)
(* cache of its own, so a member of Cache stands for an open file as well.   *)
(*                                                                         *)
(* open() and release() run on FUSE threads.  createCommand() runs on the    *)
(* IO thread, and the pointer to the FileData it stores the descriptor       *)
(* through does not keep the FileData alive: the FileData may be gone and    *)
(* its memory given to another file by then.  So descriptors are kept by the *)
(* block of memory they are in.                                            *)
(***************************************************************************)
EXTENDS ReadLoop

CONSTANT Block      \* the blocks of memory a FileData can be in

VARIABLES
    handle,     \* of each file: not opened, open, in release(), released
    fileData,   \* the block of its FileData
    fileFd,     \* the member fd of the FileData in a block; 0 is NoFd as well,
                \* a number no stream has
    inputs,     \* the files whose source descriptor, dup()ed in open(), is open
    ownFd,      \* history: the descriptor a file's command got
    early       \* history: the files released before their command had started

handleVars == <<handle, fileData, fileFd>>
seekVars == <<vars, handleVars, inputs, ownFd, early>>

InMemory == {c \in Cache : handle[c] \in {"open", "releasing"}}

(* A file that is not open has no FileData: its block means nothing. *)
SeekInit ==
    /\ Init
    /\ handle = [c \in Cache |-> "none"]
    /\ \E b \in Block : fileData = [c \in Cache |-> b]
    /\ fileFd = [b \in Block |-> NoFd]
    /\ inputs = {}
    /\ ownFd = [c \in Cache |-> NoFd]
    /\ early = {}

-----------------------------------------------------------------------------

OpenSeekable(c) ==
    /\ Add(c)
    /\ \E b \in Block \ {fileData[d] : d \in InMemory} :
          /\ fileData' = [fileData EXCEPT ![c] = b]
          /\ fileFd' = [fileFd EXCEPT ![b] = NoFd]
    /\ handle' = [handle EXCEPT ![c] = "open"]
    /\ inputs' = inputs \cup {c}
    /\ UNCHANGED <<ownFd, early>>

(* release() removes the descriptor it finds in the FileData ...             *)
ReleaseSeekable(c) ==
    /\ handle[c] = "open"
    /\ Remove(fileFd[fileData[c]])
    /\ handle' = [handle EXCEPT ![c] = "releasing"]
    /\ early' = IF ownFd[c] = NoFd THEN early \cup {c} ELSE early
    /\ UNCHANGED <<fileData, fileFd, inputs, ownFd>>

(* ... and the unique_ptr destroys the FileData, its cache included, on return. *)
FreeFileData(c) ==
    /\ handle[c] = "releasing"
    /\ Drop(c)
    /\ handle' = [handle EXCEPT ![c] = "released"]
    /\ UNCHANGED <<fileData, fileFd, inputs, ownFd, early>>

(* The destructor, when no FUSE request is being executed any more. *)
Unmount ==
    /\ \A c \in Cache : handle[c] # "releasing"
    /\ Cancel
    /\ UNCHANGED <<handleVars, inputs, ownFd, early>>

(* Mutants: all FileData share one fd; the descriptor is not stored; the      *)
(* input is not closed.                                                      *)
StartSharedFd ==
    /\ StartCommand
    /\ fileFd' = [b \in Block |-> stream'[starting]]
    /\ ownFd' = [ownFd EXCEPT ![starting] = stream'[starting]]
    /\ inputs' = inputs \ {starting}
    /\ UNCHANGED <<handle, fileData, early>>

StartKeepsInput ==
    /\ StartCommand
    /\ fileFd' = [fileFd EXCEPT ![fileData[starting]] = stream'[starting]]
    /\ ownFd' = [ownFd EXCEPT ![starting] = stream'[starting]]
    /\ UNCHANGED <<handle, fileData, inputs, early>>

StartUnstored ==
    /\ StartCommand
    /\ ownFd' = [ownFd EXCEPT ![starting] = stream'[starting]]
    /\ inputs' = inputs \ {starting}
    /\ UNCHANGED <<handleVars, early>>

(* createCommand(): the command gets the input, and the parent closes it.    *)
StartSeekable ==
    /\ StartCommand
    /\ fileFd' = [fileFd EXCEPT ![fileData[starting]] = stream'[starting]]
    /\ ownFd' = [ownFd EXCEPT ![starting] = stream'[starting]]
    /\ inputs' = inputs \ {starting}
    /\ UNCHANGED <<handle, fileData, early>>

SpawnSeekableFails ==
    /\ SpawnFails
    /\ inputs' = inputs \ {starting}
    /\ UNCHANGED <<handleVars, ownFd, early>>

(* The steps of the loop the controller has no part in. *)
LoopOnly == RunAdd \/ RunRemove \/ RunRead \/ RunCancel \/ DrainOne \/ DrainEnd

LoopStep ==
    \/ LoopOnly /\ UNCHANGED <<handleVars, inputs, ownFd, early>>
    \/ StartSeekable
    \/ SpawnSeekableFails

FileRequest(c) == OpenSeekable(c) \/ ReleaseSeekable(c) \/ FreeFileData(c)

SeekNext ==
    \/ io # "dead" /\ (Unmount \/ \E c \in Cache : FileRequest(c))
    \/ /\ io # "dead"
       /\ \E c \in Cache : Command(c) \/ ReadError(c)
       /\ UNCHANGED <<handleVars, inputs, ownFd, early>>
    \/ LoopStep
    \/ Terminated /\ UNCHANGED seekVars

SeekSpec == SeekInit /\ [][SeekNext]_seekVars

-----------------------------------------------------------------------------
(* Properties.                                                               *)

SeekTypeOK ==
    /\ TypeOK
    /\ handle \in [Cache -> {"none", "open", "releasing", "released"}]
    /\ fileData \in [Cache -> Block]
    /\ fileFd \in [Block -> Fd \cup {NoFd}]
    /\ inputs \subseteq Cache
    /\ ownFd \in [Cache -> Fd \cup {NoFd}]
    /\ early \subseteq Cache

Complete(c) == c \in finished \ failed /\ ~cancelled => size[c] = Output[c]

(* A reader gets all of the translation, whoever opens and releases other    *)
(* files at the same time: the removal a release posts never hits another    *)
(* file's command, as long as the kernel does not give a descriptor again.   *)
CompleteUnlessReused ==
    \A c \in Cache :
        handle[c] = "open" /\ (\A d \in Cache \ {c} : ownFd[d] # ownFd[c]) => Complete(c)

(* "[ expected_file_contents == read_file_contents ]" in translations that   *)
(* run in parallel: a reader gets all of the translation.                    *)
CompleteForReader == \A c \in Cache : handle[c] = "open" => Complete(c)

(* A released file's command does not go on for nobody: its stream is closed, *)
(* or the removal of it is posted, unless the release came too early to know *)
(* the descriptor.                                                           *)
ReleaseReaches ==
    \A c \in Cache \ early :
        handle[c] \in {"releasing", "released"} /\ stream[c] # NoFd =>
            Pending(RemoveTask(stream[c]))

(* The dup()ed source descriptor of an open file is the command's or closed   *)
(* once the read loop has nothing to do for the file any more.  (If the file  *)
(* is released while its task is queued, it stays open for ever.)            *)
InputsClosed ==
    \A c \in inputs :
        \/ handle[c] = "released"
        \/ Pending(AddTask(c)) \/ starting = c \/ \E i \in 1 .. Len(queue) : queue[i] = c

(* createCommand() stores the descriptor through a pointer that may dangle,    *)
(* into memory that another file has by then: this never takes the descriptor *)
(* of its command from an open file, whose release would remove another's.   *)
DescriptorKept ==
    \A c \in InMemory : ownFd[c] # NoFd => fileFd[fileData[c]] = ownFd[c]
=============================================================================
