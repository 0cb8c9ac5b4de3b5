------------------------------- MODULE Options -------------------------------
(***************************************************************************)
(* The start of the program: main() (src/bin/main.c), the command line      *)
(* (src/src/command_line.c) and the flags it sets (src/src/data.h), until    *)
(* FUSE calls init().                                                       *)
(*                                                                         *)
(* Words are taken from the command line one at a time, in any order and     *)
(* each at most once.  A word is a record: its option, and what the option's *)
(* argument means.  A flag is a set of bits.                                *)
(***************************************************************************)
EXTENDS Naturals, FiniteSets

CONSTANT Word       \* the words a command line is made of

Mandatory == {"command", "root-dir", "source-suffix", "target-suffix"}

Unit == {"b", "B", "k", "K", "m", "M", "g", "G"}

(* Options whose argument, if there is one, is of no interest.               *)
Plain == Mandatory \cup {"pidfile", "log-file", "cache", "seekable", "wait-on-stat",
                         "help", "invalid", "malformed-size", "-C"}

ASSUME OptionsAssumption ==
    \A w \in Word :
        \/ w.option \in Plain
        \/ w.option = "preload" /\ w.values \subseteq {"stat", "readdir", "unknown"}
        \/ w.option = "process-limit" /\ w.number \in Nat
        \/ w.option = "cache-limit" /\ w.number \in Nat /\ w.unit \in Unit

VARIABLES
    phase,      \* how far the program is
    data,       \* struct pipefs_data: the flags, the limits, what has been stored
    given,      \* history: the words taken so far; forgotten when FUSE takes over
    cause       \* why the program crashed

optionVars == <<phase, data, given, cause>>

-----------------------------------------------------------------------------
(* Flags: which bits they are, and how they are set and asked for.           *)

SEEKABLE == {"seekable"}
CACHE == {"seekable", "cache"}
PRELOAD_STAT == {"preloadStat"}
PRELOAD_READDIR == {"preloadReaddir"}

(* Mutant: --wait-on-stat does not imply --preload=stat. *)
WaitAlone == {"wait"}

WAIT_ON_STAT == {"preloadStat", "wait"}

(* Mutant: a flag is assigned instead of added. *)
AssignFlag(flags, flag) == flag

AddFlag(flags, flag) == flags \cup flag

IsFlagSet(flag) == flag \subseteq data.flags

(* parse_preload(): an unknown value is only warned about. *)
PreloadFlag(values) ==
    (IF "stat" \in values THEN PRELOAD_STAT ELSE {})
      \cup (IF "readdir" \in values THEN PRELOAD_READDIR ELSE {})

(* parse_size() of a number that fits into an unsigned. *)
Factor(unit) ==
    CASE unit \in {"b", "B"} -> 1
      [] unit = "k" -> 1024
      [] unit = "m" -> 1024 * 1024
      [] unit = "g" -> 1024 * 1024 * 1024
      [] unit = "K" -> 1000
      [] unit = "M" -> 1000 * 1000
      [] unit = "G" -> 1000 * 1000 * 1000

-----------------------------------------------------------------------------

NoData == [flags |-> {}, cacheLimit |-> 0, processLimit |-> 0, stored |-> {}]

OptionsInit ==
    /\ phase = "start"
    /\ data = NoData
    /\ given = {}
    /\ cause = "none"

Go(next) == phase' = next /\ UNCHANGED <<data, given, cause>>

Crash(why) == phase' = "crashed" /\ cause' = why

(* pipefs does not run as root. *)
CheckUser == phase = "start" /\ \E next \in {"parsing", "refused"} : Go(next)

Words(option) == {w \in Word \ given : w.option = option}

Take(words, newData) ==
    /\ phase = "parsing"
    /\ given' = given \cup words
    /\ data' = newData
    /\ UNCHANGED <<phase, cause>>

Flagged(flag) == [data EXCEPT !.flags = AddFlag(@, flag)]

ParseFlag(option, flag) == \E w \in Words(option) : Take({w}, Flagged(flag))

ParsePreload == \E w \in Words("preload") : Take({w}, Flagged(PreloadFlag(w.values)))

(* The short form of --cache takes an argument, by the list of the short      *)
(* options: whatever the next word is, it has no effect.                     *)
ParseShortCache ==
    \E w \in Words("-C"), eaten \in Word \ given :
        eaten # w /\ Take({w, eaten}, Flagged(CACHE))

ParseLimits ==
    \/ \E w \in Words("process-limit") : Take({w}, [data EXCEPT !.processLimit = w.number])
    \/ \E w \in Words("cache-limit") :
          Take({w}, [data EXCEPT !.cacheLimit = w.number * Factor(w.unit)])

ParseStored ==
    \E option \in Mandatory \cup {"pidfile", "log-file"} : \E w \in Words(option) :
        Take({w}, [data EXCEPT !.stored = @ \cup {option}])

(* Usage, a wrong word, a size that is none, and -C as the last word.        *)
Refuse ==
    /\ phase = "parsing"
    /\ \E option \in {"help", "invalid", "malformed-size", "-C"} : Words(option) # {}
    /\ Go("refused")

(* log_open() cannot open the file, and exits. *)
LogFails ==
    /\ phase = "parsing"
    /\ Words("log-file") # {}
    /\ Go("refused")

(* The end of the words: main() refuses to go on without what is mandatory.   *)
(* realpath() of a root directory that is not there gives a null pointer,    *)
(* which nobody checks.                                                      *)
EndOfWords ==
    /\ phase = "parsing"
    /\ IF Mandatory \subseteq data.stored
       THEN /\ \E missing \in SUBSET {"root-dir"} :
                  data' = [data EXCEPT !.stored = @ \ missing]
            /\ phase' = "fuse"
            /\ UNCHANGED <<given, cause>>
       ELSE Go("refused")

(* Creating the pid file fails, and main() closes the null pointer.          *)
NoPidfile ==
    /\ phase = "parsing"
    /\ Mandatory \cup {"pidfile"} \subseteq data.stored
    /\ Crash("pidfile")
    /\ UNCHANGED <<data, given>>

(* So does opening it for the process id, in pipefs_init().                   *)
NoPidfileAnyMore ==
    /\ phase = "fuse"
    /\ "pidfile" \in data.stored
    /\ Crash("pidfile")
    /\ UNCHANGED <<data, given>>

(* pipefs_init() makes the controller.  The process limit is the read loop's  *)
(* from then on; it is forgotten here, and so is what no request depends on.  *)
FuseInit ==
    /\ phase = "fuse"
    /\ phase' = "mounted"
    /\ given' = {}
    /\ data' = [flags |-> data.flags, cacheLimit |-> data.cacheLimit, processLimit |-> 0,
                stored |-> data.stored \cap {"root-dir"}]
    /\ UNCHANGED cause

(* fuse_main() returns without having called init().                         *)
FuseFails == phase = "fuse" /\ Go("exited")

(* fuse_main() returns after pipefs_destroy().                               *)
Destroyed == phase = "mounted" /\ Go("exited")

Start ==
    \/ CheckUser
    \/ ParseFlag("cache", CACHE) \/ ParseFlag("seekable", SEEKABLE)
    \/ ParseFlag("wait-on-stat", WAIT_ON_STAT)
    \/ ParsePreload \/ ParseShortCache \/ ParseLimits \/ ParseStored
    \/ Refuse \/ LogFails \/ EndOfWords \/ NoPidfile
    \/ NoPidfileAnyMore \/ FuseInit \/ FuseFails

-----------------------------------------------------------------------------
(* Properties.                                                               *)

OptionsTypeOK ==
    /\ phase \in {"start", "parsing", "refused", "fuse", "mounted", "exited", "crashed"}
    /\ data.flags \subseteq CACHE \cup PRELOAD_READDIR \cup WAIT_ON_STAT
    /\ data.cacheLimit \in Nat
    /\ data.processLimit \in Nat
    /\ data.stored \subseteq Mandatory \cup {"pidfile", "log-file"}
    /\ given \subseteq Word
    /\ cause \in {"none", "pidfile", "rootdir", "assert", "null", "exception", "release"}

Given(option) == \E w \in given : w.option = option

GivenPreload(value) == \E w \in given : w.option = "preload" /\ value \in w.values

(* What the usage says of the options is what the flags come to, in whatever  *)
(* order they are given: --cache is to imply --seekable, --wait-on-stat       *)
(* --preload=stat, and nothing else is set.  (Words after -C may be lost.)    *)
FlagsMean ==
    phase = "fuse" /\ ~Given("-C") =>
        /\ IsFlagSet(SEEKABLE) <=> Given("seekable") \/ Given("cache")
        /\ IsFlagSet(CACHE) <=> Given("cache")
        /\ IsFlagSet(PRELOAD_STAT) <=> GivenPreload("stat") \/ Given("wait-on-stat")
        /\ IsFlagSet(PRELOAD_READDIR) <=> GivenPreload("readdir")
        /\ IsFlagSet(WAIT_ON_STAT) <=> Given("wait-on-stat")
=============================================================================
