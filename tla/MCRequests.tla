----------------------------- MODULE MCRequests -----------------------------
(***************************************************************************)
(* Instances of Requests for TLC: command lines with any of these words.     *)
(***************************************************************************)
EXTENDS Requests, TLC

Only(option) == [option |-> option]

(* The words with which stat waits for the caches.                            *)
MCWaitWord ==
    {Only(option) : option \in Mandatory \cup {"cache", "wait-on-stat"}}
      \cup {[option |-> "cache-limit", number |-> 1, unit |-> "b"]}

MCWord ==
    {Only(option) : option \in Mandatory \cup {"cache", "seekable", "wait-on-stat", "pidfile",
                                        "log-file", "help", "-C"}}
      \cup {[option |-> "preload", values |-> {"stat", "readdir", "unknown"}],
            [option |-> "process-limit", number |-> 3],
            [option |-> "cache-limit", number |-> 1, unit |-> "b"]}

MCSymmetry == Permutations(Key) \cup Permutations(Object) \cup Permutations(Thread)
=============================================================================
