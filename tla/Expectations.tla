---------------------------- MODULE Expectations ----------------------------
(* The mock objects the unit tests put in the place of streams and caches     *)
(* (turtle): a test states what it expects of the functions of its mocks, the *)
(* code under test calls them, and the mocks are checked when they are        *)
(* destroyed.  The tests of the read loop rely on three things: that calls    *)
(* out of the order of a sequence fail, that an expectation that is not met   *)
(* makes the test fail, and that root reaches every mock that is alive.       *)
(* The mutexes of the library do nothing here (MOCK_THREAD_SAFE is not        *)
(* defined); no test uses throws(), calls() or the constraints with side      *)
(* effects.                                                                   *)
EXTENDS Naturals, Sequences, FiniteSets

CONSTANTS
    Mocks,       \* the mock objects of a test
    Objects,     \* those declared with MOCK_CLASS, which are mock::objects
    Functions,   \* their functions
    MockOf,      \* [Functions -> Mocks]
    Void,        \* the functions that return nothing
    Sequenced,   \* the mock::sequence objects
    Values,      \* what a call can pass
    SizeMax,     \* std::numeric_limits<std::size_t>::max()
    Statements,  \* the MOCK_EXPECT statements a test can make
    MaxExpects, MaxCalls   \* bounds

Between(min, max) == [min |-> min, max |-> max]
Exactly(n) == Between(n, n)
Never == Exactly(0)
Once == Exactly(1)
AtLeast(n) == Between(n, SizeMax)
Unlimited == AtLeast(0)

(* A constraint is the set of values it accepts; so is a value. *)
Any == Values
Equal(expected) == {expected}
Not(c) == Values \ c
Or(c, d) == c \union d
And(c, d) == c \intersect d

(* What once() and the like, with(), in() and returns() make of an expectation *)
(* that was unlimited and accepted anything.                                 *)
Statement == [function: Functions, times: [min: 0..SizeMax, max: 0..SizeMax],
              with: SUBSET Values, in: SUBSET Sequenced,
              returns: {"value", "nothing"}]

ASSUME ExpectationsAssumption ==
    /\ MockOf \in [Functions -> Mocks] /\ Objects \subseteq Mocks
    /\ Functions \intersect Mocks = {}
    /\ Void \subseteq Functions
    /\ SizeMax \in Nat /\ MaxExpects \in Nat /\ MaxCalls \in Nat
    /\ MaxCalls < SizeMax
    /\ \A st \in Statements :
           st \in Statement /\ st.times.min <= st.times.max

VARIABLES
    expectations,  \* [Functions -> Seq of expectations], in the order stated
    elements,      \* [Sequenced -> sets of ids]: sequence_impl::elements_, a
                   \* vector; only add() makes it longer, so that it is sorted
                   \* by the order of the statements, as the ids are
    valid,         \* the functions whose valid_ is true
    alive,         \* the mocks that are not destroyed
    group,         \* [Objects -> SUBSET Functions]: object_impl::group_
    root,          \* the objects and functions in root's group_
    unwinding,     \* is a mock::exception thrown and not yet caught?
    failed,        \* has a failure been reported to the test?
    stated,        \* every statement made so far; its index is its id
    called,        \* the ids the successful calls were counted for
    forgotten      \* the ids discarded by a reset

vars == <<expectations, elements, valid, alive, group, root, unwinding,
          failed, stated, called, forgotten>>
records == <<stated, called, forgotten>>

Init ==
    /\ expectations = [f \in Functions |-> <<>>]
    /\ elements = [s \in Sequenced |-> {}]
    /\ valid = Functions
    /\ alive = Mocks
    /\ group = [o \in Objects |-> {}]
    /\ root = {}
    /\ unwinding = FALSE /\ failed = FALSE
    /\ stated = <<>> /\ called = <<>> /\ forgotten = {}

(* The functions that root reaches, directly or through an object. *)
Reached ==
    (root \intersect Functions)
        \union UNION {group[o] : o \in root \intersect Objects}

Usable(f) == MockOf[f] \in alive /\ ~unwinding

-----------------------------------------------------------------------------

RootAdds(x) == root' = root \union {x}

(* An object adds itself to root with its first function. *)
ObjectAdds(o, f) ==
    /\ group' = [group EXCEPT ![o] = @ \union {f}]
    /\ IF group[o] = {} THEN RootAdds(o) ELSE UNCHANGED root

(* Both MOCK_EXPECT and a call configure the function: it is added to its     *)
(* object, or to root if its class is no mock::object.                        *)
Configure(f) ==
    IF MockOf[f] \in Objects THEN ObjectAdds(MockOf[f], f)
    ELSE RootAdds(f) /\ UNCHANGED group

(* MOCK_EXPECT(f).once().in(s, t).with(c).returns(v) *)
Expect(st) ==
    LET f == st.function
        id == Len(stated) + 1
    IN
    /\ Len(stated) < MaxExpects
    /\ Usable(f)
    /\ Configure(f)
    /\ expectations' =
           [expectations EXCEPT ![f] = Append(@, [id |-> id, count |-> 0])]
    /\ elements' = [s \in Sequenced |->
           IF s \in st.in THEN elements[s] \union {id} ELSE elements[s]]
    /\ valid' = valid \union {f}
    /\ stated' = Append(stated, st)
    /\ UNCHANGED <<alive, unwinding, failed, called, forgotten>>

StatementOf(e) == stated[e.id]

Matches(st, v) == v \in st.with

(* expectation::is_valid: neither exhausted nor refusing the arguments *)
Accepts(e, v) ==
    /\ e.count < StatementOf(e).times.max
    /\ Matches(StatementOf(e), v)

(* The first expectation of f that accepts v is the only one that is tried.   *)
Chosen(f, v) ==
    {i \in DOMAIN expectations[f] :
        /\ Accepts(expectations[f][i], v)
        /\ \A j \in 1..(i - 1) : ~Accepts(expectations[f][j], v)}

(* No later element of any of its sequences has been called. *)
InSequence(e) ==
    \A s \in StatementOf(e).in : e.id \in elements[s]

(* sequence_impl::invalidate: what comes before the element is erased. *)
From(ids, id) == {x \in ids : id <= x}

(* What a bug in expectation::invoke() would do: no sequence is told. *)
InvokeOnly(f, i) ==
    /\ expectations' = [expectations EXCEPT ![f][i].count = @ + 1]
    /\ UNCHANGED elements

Invoke(f, i) ==
    LET e == expectations[f][i] IN
    /\ expectations' = [expectations EXCEPT ![f][i].count = @ + 1]
    /\ elements' = [s \in Sequenced |->
           IF s \in StatementOf(e).in THEN From(elements[s], e.id)
           ELSE elements[s]]

DoesNothing(st) == st.function \in Void

Returns(st) == st.returns = "value"

Acts(e) == DoesNothing(StatementOf(e)) \/ Returns(StatementOf(e))

Called(f) ==
    /\ Len(called) < MaxCalls
    /\ Usable(f)
    /\ Configure(f)
    /\ UNCHANGED <<alive, stated, forgotten>>

(* The test framework counts a failed assertion. *)
Fail == failed' = TRUE

(* abort() throws out of the call; valid_ stays false. *)
Abort(f) ==
    /\ Fail
    /\ unwinding' = TRUE
    /\ valid' = valid \ {f}
    /\ UNCHANGED called

CallUnexpected(f, v) ==
    /\ Called(f)
    /\ Chosen(f, v) = {}
    /\ Abort(f)
    /\ UNCHANGED <<expectations, elements>>

CallOutOfSequence(f, v) ==
    /\ Called(f)
    /\ \E i \in Chosen(f, v) : ~InSequence(expectations[f][i])
    /\ Abort(f)
    /\ UNCHANGED <<expectations, elements>>

CallWithoutAction(f, v) ==
    /\ Called(f)
    /\ \E i \in Chosen(f, v) :
           /\ InSequence(expectations[f][i]) /\ ~Acts(expectations[f][i])
           /\ Invoke(f, i)
    /\ Abort(f)

CallFulfilled(f, v) ==
    /\ Called(f)
    /\ \E i \in Chosen(f, v) :
           /\ InSequence(expectations[f][i]) /\ Acts(expectations[f][i])
           /\ Invoke(f, i)
           /\ called' = Append(called, expectations[f][i].id)
    /\ valid' = valid \union {f}
    /\ UNCHANGED <<unwinding, failed>>

(* The code under test, or the framework around the test, catches it. *)
Catch ==
    /\ unwinding
    /\ unwinding' = FALSE
    /\ UNCHANGED <<expectations, elements, valid, alive, group, root, failed,
                   records>>

-----------------------------------------------------------------------------

(* between::verify; the maximum cannot be exceeded *)
Met(e) == StatementOf(e).times.min <= e.count
(* What a bug in ~function_impl() would do: only the last expectation counts. *)
LastMet(f) ==
    expectations[f] # <<>> => Met(expectations[f][Len(expectations[f])])

AllMet(f) == \A i \in DOMAIN expectations[f] : Met(expectations[f][i])

(* mock::verify(), of everything, of one object or of one function *)
Verifiable ==
    {Reached} \union {group[o] : o \in Objects} \union {{f} : f \in Functions}

Unmet(fs) == {f \in fs : ~AllMet(f)}

Verify(fs) ==
    /\ ~unwinding
    /\ \A f \in fs : MockOf[f] \in alive
    /\ IF Unmet(fs) # {} THEN Fail ELSE UNCHANGED failed
    /\ valid' = valid \ Unmet(fs)
    /\ UNCHANGED <<expectations, elements, alive, group, root, unwinding,
                   records>>

IdsOf(fs) ==
    UNION {{expectations[f][i].id : i \in DOMAIN expectations[f]} : f \in fs}

(* sequence_impl::remove *)
Without(ids, gone) == ids \ gone

(* The destructors of the expectations of fs take them out of the sequences.  *)
Clear(fs) ==
    /\ expectations' =
           [f \in Functions |-> IF f \in fs THEN <<>> ELSE expectations[f]]
    /\ elements' = [s \in Sequenced |-> Without(elements[s], IdsOf(fs))]

(* mock::reset() *)
Reset(fs) ==
    /\ ~unwinding
    /\ \A f \in fs : MockOf[f] \in alive
    /\ Clear(fs)
    /\ valid' = valid \union fs
    /\ forgotten' = forgotten \union IdsOf(fs)
    /\ UNCHANGED <<alive, group, root, unwinding, failed, stated, called>>

(* A function only reports what it misses if nothing else went wrong: no call *)
(* of it failed last, and no exception is on its way.                         *)
Reports(f) == f \in valid /\ ~unwinding /\ ~AllMet(f)

RootRemoves(xs) == root' = root \ xs

(* What a bug in object_impl::remove() would do: the object stays in root. *)
DestroyForgetful(m) ==
    LET fs == {f \in Functions : MockOf[f] = m} IN
    /\ m \in alive
    /\ alive' = alive \ {m}
    /\ failed' = (failed \/ \E f \in fs : Reports(f))
    /\ Clear(fs)
    /\ RootRemoves(fs)
    /\ group' = [o \in Objects |-> IF o = m THEN {} ELSE group[o]]
    /\ UNCHANGED <<valid, unwinding, records>>

(* The last owner of a mock lets go of it: each of its functions checks its   *)
(* expectations and removes itself from its context.                          *)
Destroy(m) ==
    LET fs == {f \in Functions : MockOf[f] = m} IN
    /\ m \in alive
    /\ alive' = alive \ {m}
    /\ failed' = (failed \/ \E f \in fs : Reports(f))
    /\ Clear(fs)
    /\ RootRemoves(fs \union {m})
    /\ group' = [o \in Objects |-> IF o = m THEN {} ELSE group[o]]
    /\ UNCHANGED <<valid, unwinding, records>>

(* The end of the test: nothing is left to do. *)
Done ==
    /\ alive = {} /\ ~unwinding
    /\ UNCHANGED vars

Next ==
    \/ \E st \in Statements : Expect(st)
    \/ \E f \in Functions, v \in Values :
           \/ CallUnexpected(f, v)
           \/ CallOutOfSequence(f, v)
           \/ CallWithoutAction(f, v)
           \/ CallFulfilled(f, v)
    \/ Catch
    \/ \E fs \in Verifiable : Verify(fs) \/ Reset(fs)
    \/ \E m \in Mocks : Destroy(m)
    \/ Done

Spec == Init /\ [][Next]_vars

-----------------------------------------------------------------------------

(* A sequence orders the calls of all its expectations, whatever functions    *)
(* and other sequences they belong to: no successful call comes after one of  *)
(* an expectation that was stated later in the same sequence.                 *)
SequencesOrdered ==
    \A i, j \in DOMAIN called :
        (i < j /\ stated[called[i]].in \intersect stated[called[j]].in # {})
            => called[i] <= called[j]

TimesCalled(id) == Cardinality({i \in DOMAIN called : called[i] = id})

(* A test that reported no failure is one whose destroyed mocks were called   *)
(* as often as each statement about them asks, although a function stops      *)
(* reporting what it misses as soon as a call of it has failed.               *)
PassedMeansMet ==
    failed \/ \A id \in DOMAIN stated \ forgotten :
        LET st == stated[id] IN
        /\ TimesCalled(id) <= st.times.max
        /\ MockOf[st.function] \notin alive => st.times.min <= TimesCalled(id)

(* root reaches the functions of the mocks that are alive that were           *)
(* configured, each of them, and nothing that was destroyed.                  *)
RootReachesAlive ==
    /\ \A f \in Reached : MockOf[f] \in alive
    /\ \A o \in root \intersect Objects : o \in alive /\ group[o] # {}
    /\ \A f \in Functions :
           expectations[f] # <<>> => f \in Reached
=============================================================================
