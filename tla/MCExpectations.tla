--------------------------- MODULE MCExpectations ---------------------------
(* A test in the manner of ReadLoopTest.cpp: a stream that is read in         *)
(* sequence with the writes to a cache, which is finished at least once.      *)
EXTENDS Expectations

Of(f, times, with, in, returns) ==
    [function |-> f, times |-> times, with |-> with, in |-> in,
     returns |-> returns]

MCMockOf == [f \in {"doAsyncRead", "write", "finish"} |->
                 IF f = "doAsyncRead" THEN "stream" ELSE "cache"]

MCStatements == {
    Of("doAsyncRead", Once, Any, {"seq"}, "value"),
    Of("doAsyncRead", Never, Any, {}, "nothing"),
    Of("doAsyncRead", Exactly(2), Any, {"seq", "closeSeq"}, "nothing"),
    Of("write", Once, Equal("half"), {"seq"}, "nothing"),
    Of("write", Unlimited, Or(And(Any, Not(Equal("half"))), Equal("all")), {"closeSeq"},
       "nothing"),
    Of("finish", AtLeast(1), Any, {"seq", "closeSeq"}, "nothing")}
=============================================================================
