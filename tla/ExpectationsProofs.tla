-------------------------- MODULE ExpectationsProofs --------------------------
(* What the tests rely on, for every test: any mocks, functions, statements   *)
(* and numbers of calls.  The order of a sequence, what root reaches, and     *)
(* what it means that nothing has failed.                                     *)
EXTENDS Expectations, FiniteSetTheorems, TLAPS

Expectation == [id: 1..Len(stated), count: Nat]

Types ==
    /\ stated \in Seq(Statement)
    /\ called \in Seq(1..Len(stated))
    /\ elements \in [Sequenced -> SUBSET (1..Len(stated))]
    /\ expectations \in [Functions -> Seq(Expectation)]

(* What remains of a sequence was not stated before anything that was called. *)
NothingEarlierLeft ==
    \A i \in DOMAIN called : \A s \in stated[called[i]].in :
        \A x \in elements[s] : called[i] <= x

IInv == Types /\ NothingEarlierLeft /\ SequencesOrdered

LEMMA OfSequenced ==
    ASSUME Types, NEW j \in 1..Len(stated)
    PROVE  stated[j].in \subseteq Sequenced
<1>1. stated[j] \in Statement
    BY DEF Types
<1>2. \A st \in Statement : st.in \in SUBSET Sequenced
    BY DEF Statement
<1> QED
    BY <1>1, <1>2

LEMMA CalledOfSequenced ==
    ASSUME Types, NEW i \in DOMAIN called
    PROVE  /\ called[i] \in 1..Len(stated)
           /\ stated[called[i]].in \subseteq Sequenced
<1>1. called[i] \in 1..Len(stated)
    BY DEF Types
<1> QED
    BY <1>1, OfSequenced

LEMMA Identified ==
    ASSUME Types, NEW f \in Functions, NEW i \in DOMAIN expectations[f]
    PROVE  /\ expectations[f] \in Seq(Expectation)
           /\ expectations[f][i] \in Expectation
           /\ expectations[f][i].id \in 1..Len(stated)
           /\ expectations[f][i].count \in Nat
<1>1. expectations[f] \in Seq(Expectation)
    BY DEF Types
<1>2. expectations[f][i] \in Expectation
    BY <1>1
<1> QED
    BY <1>1, <1>2 DEF Expectation

(* Only CallFulfilled and Expect make the logs longer; the other actions      *)
(* erase elements at most.                                                    *)
LEMMA ErasingKeeps ==
    ASSUME IInv, UNCHANGED <<stated, called>>,
           elements' \in [Sequenced -> SUBSET (1..Len(stated))],
           \A s \in Sequenced : elements'[s] \subseteq elements[s],
           expectations' \in [Functions -> Seq(Expectation)]
    PROVE  IInv'
<1>1. Types'
    BY DEF IInv, Types, Expectation
<1>2. NothingEarlierLeft'
    <2> SUFFICES ASSUME NEW i \in DOMAIN called, NEW s \in stated[called[i]].in,
                        NEW x \in elements'[s]
                 PROVE  called[i] <= x
        BY DEF NothingEarlierLeft
    <2>1. s \in Sequenced
        BY CalledOfSequenced DEF IInv
    <2> QED
        BY <2>1 DEF IInv, NothingEarlierLeft
<1>3. SequencesOrdered'
    BY DEF IInv, SequencesOrdered
<1> QED
    BY <1>1, <1>2, <1>3 DEF IInv

LEMMA InvokeErases ==
    ASSUME IInv, NEW f \in Functions, NEW i \in DOMAIN expectations[f],
           Invoke(f, i)
    PROVE  /\ elements' \in [Sequenced -> SUBSET (1..Len(stated))]
           /\ \A s \in Sequenced : elements'[s] \subseteq elements[s]
           /\ expectations' \in [Functions -> Seq(Expectation)]
<1>1. \A s \in Sequenced : elements'[s] \subseteq elements[s]
    BY DEF IInv, Types, Invoke, From
<1>2. elements' \in [Sequenced -> SUBSET (1..Len(stated))]
    BY DEF IInv, Types, Invoke, From
<1>3. /\ expectations[f] \in Seq(Expectation)
      /\ expectations[f][i] \in Expectation
      /\ expectations[f][i].count \in Nat
    BY Identified DEF IInv
<1> DEFINE e == [expectations[f][i] EXCEPT !.count = @ + 1]
<1>4. e \in Expectation
    <2>1. expectations[f][i].count + 1 \in Nat
        BY <1>3
    <2> QED
        BY <1>3, <2>1 DEF Expectation
<1>5. [expectations[f] EXCEPT ![i] = e] \in Seq(Expectation)
    BY <1>3, <1>4
<1>6. expectations' = [expectations EXCEPT ![f] = [expectations[f] EXCEPT ![i] = e]]
    BY DEF Invoke
<1>7. expectations' \in [Functions -> Seq(Expectation)]
    BY <1>5, <1>6 DEF IInv, Types
<1> QED
    BY <1>1, <1>2, <1>7

LEMMA FulfilledKeeps ==
    ASSUME ExpectationsAssumption, IInv, NEW f \in Functions,
           NEW v \in Values, CallFulfilled(f, v)
    PROVE  IInv'
<1>1. PICK i \in Chosen(f, v) :
          /\ InSequence(expectations[f][i])
          /\ Invoke(f, i)
          /\ called' = Append(called, expectations[f][i].id)
    BY DEF CallFulfilled
<1>2. i \in DOMAIN expectations[f]
    BY DEF Chosen
<1> DEFINE id == expectations[f][i].id
<1>3. id \in 1..Len(stated) /\ stated' = stated
    BY <1>2, Identified DEF IInv, CallFulfilled, Called
<1>4. /\ elements' \in [Sequenced -> SUBSET (1..Len(stated))]
      /\ \A s \in Sequenced : elements'[s] \subseteq elements[s]
      /\ expectations' \in [Functions -> Seq(Expectation)]
    BY <1>1, <1>2, InvokeErases
<1>5. /\ called' \in Seq(1..Len(stated))
      /\ DOMAIN called' = 1..(Len(called) + 1)
      /\ DOMAIN called = 1..Len(called)
      /\ called'[Len(called) + 1] = id
      /\ \A j \in 1..Len(called) : called'[j] = called[j]
      /\ Len(called) \in Nat
    BY <1>1, <1>3 DEF IInv, Types
<1>6. Types'
    BY <1>3, <1>4, <1>5 DEF IInv, Types, Expectation
<1>7. stated[id].in \subseteq Sequenced
    BY <1>3, OfSequenced DEF IInv
<1>8. \A s \in stated[id].in :
          /\ id \in elements[s]
          /\ elements'[s] = From(elements[s], id)
    BY <1>1, <1>7 DEF InSequence, StatementOf, Invoke
<1>9. \A j \in 1..Len(called) : stated[called[j]].in \subseteq Sequenced
    BY <1>5, CalledOfSequenced DEF IInv
<1>10. NothingEarlierLeft'
    <2> SUFFICES ASSUME NEW j \in 1..(Len(called) + 1),
                        NEW s \in stated[called'[j]].in, NEW x \in elements'[s]
                 PROVE  called'[j] <= x
        BY <1>3, <1>5 DEF NothingEarlierLeft
    <2>1. CASE j = Len(called) + 1
        BY <2>1, <1>5, <1>8 DEF From
    <2>2. CASE j \in 1..Len(called)
        <3>1. s \in stated[called[j]].in /\ s \in Sequenced
            BY <2>2, <1>5, <1>9
        <3>2. x \in elements[s]
            BY <3>1, <1>4
        <3> QED
            BY <3>1, <3>2, <2>2, <1>5 DEF IInv, NothingEarlierLeft
    <2> QED
        BY <2>1, <2>2, <1>5
<1>11. SequencesOrdered'
    <2> SUFFICES ASSUME NEW j \in 1..(Len(called) + 1),
                        NEW k \in 1..(Len(called) + 1), j < k,
                        NEW s \in stated[called'[j]].in,
                        s \in stated[called'[k]].in
                 PROVE  called'[j] <= called'[k]
        BY <1>3, <1>5 DEF SequencesOrdered
    <2>0. j \in 1..Len(called) /\ called'[j] = called[j]
        BY <1>5
    <2>1. CASE k = Len(called) + 1
        BY <2>0, <2>1, <1>5, <1>8 DEF IInv, NothingEarlierLeft
    <2>2. CASE k \in 1..Len(called)
        BY <2>0, <2>2, <1>5 DEF IInv, SequencesOrdered
    <2> QED
        BY <2>1, <2>2, <1>5
<1> QED
    BY <1>6, <1>10, <1>11 DEF IInv

LEMMA ExpectKeeps ==
    ASSUME ExpectationsAssumption, IInv, NEW st \in Statements, Expect(st)
    PROVE  IInv'
<1> DEFINE id == Len(stated) + 1
<1>1. st \in Statement /\ stated' = Append(stated, st) /\ called' = called
    BY DEF ExpectationsAssumption, Expect
<1>2. /\ stated' \in Seq(Statement) /\ Len(stated) \in Nat
      /\ Len(stated') = id
      /\ \A j \in 1..Len(stated) : stated'[j] = stated[j]
      /\ called \in Seq(1..Len(stated))
    BY <1>1 DEF IInv, Types
<1>3. 1..Len(stated) \subseteq 1..id /\ id \in 1..id
    BY <1>2
<1>4. called' \in Seq(1..Len(stated'))
    BY <1>1, <1>2, <1>3
<1>5. elements' \in [Sequenced -> SUBSET (1..Len(stated'))]
    <2>1. \A s \in Sequenced : elements[s] \union {id} \subseteq 1..id
        BY <1>3 DEF IInv, Types
    <2> QED
        BY <2>1, <1>2 DEF Expect
<1>6. expectations' \in [Functions -> Seq(Expectation')]
    <2> DEFINE E == [id: 1..id, count: Nat]
    <2>1. Expectation \subseteq E /\ Expectation' = E
        BY <1>2, <1>3 DEF Expectation
    <2>2. \A g \in Functions : expectations[g] \in Seq(E)
        <3> SUFFICES ASSUME NEW g \in Functions
                     PROVE  expectations[g] \in Seq(E)
            OBVIOUS
        <3>1. expectations[g] \in Seq(Expectation)
            BY DEF IInv, Types
        <3> HIDE DEF E
        <3> QED
            BY <2>1, <3>1
    <2>3. [id |-> id, count |-> 0] \in E
        BY <1>3
    <2>4. expectations' = [expectations EXCEPT ![st.function] =
              Append(expectations[st.function], [id |-> id, count |-> 0])]
        BY DEF Expect
    <2>5. st.function \in Functions
        BY <1>1 DEF Statement
    <2> HIDE DEF E
    <2>6. Append(expectations[st.function], [id |-> id, count |-> 0]) \in Seq(E)
        BY <2>2, <2>3, <2>5
    <2> QED
        BY <2>1, <2>2, <2>4, <2>6 DEF IInv, Types
<1>7. \A i \in DOMAIN called : /\ called[i] \in 1..Len(stated)
                               /\ stated'[called[i]] = stated[called[i]]
    BY <1>2
<1>8. NothingEarlierLeft'
    <2> SUFFICES ASSUME NEW i \in DOMAIN called,
                        NEW s \in stated[called[i]].in, NEW x \in elements'[s]
                 PROVE  called[i] <= x
        BY <1>1, <1>7 DEF NothingEarlierLeft
    <2>1. s \in Sequenced
        BY CalledOfSequenced DEF IInv
    <2>2. x \in elements[s] \/ x = id
        BY <2>1 DEF Expect
    <2>3. CASE x \in elements[s]
        BY <2>3 DEF IInv, NothingEarlierLeft
    <2>4. CASE x = id
        BY <2>4, <1>2, <1>7
    <2> QED
        BY <2>2, <2>3, <2>4
<1>9. SequencesOrdered'
    BY <1>1, <1>7 DEF IInv, SequencesOrdered
<1> QED
    BY <1>1, <1>2, <1>4, <1>5, <1>6, <1>8, <1>9 DEF IInv, Types

LEMMA ClearErases ==
    ASSUME IInv, NEW fs, Clear(fs)
    PROVE  /\ elements' \in [Sequenced -> SUBSET (1..Len(stated))]
           /\ \A s \in Sequenced : elements'[s] \subseteq elements[s]
           /\ expectations' \in [Functions -> Seq(Expectation)]
<1>1. <<>> \in Seq(Expectation)
    OBVIOUS
<1>2. expectations' \in [Functions -> Seq(Expectation)]
    BY <1>1 DEF IInv, Types, Clear
<1>3. \A s \in Sequenced : elements'[s] \subseteq elements[s]
    BY DEF IInv, Types, Clear, Without
<1>4. elements' \in [Sequenced -> SUBSET (1..Len(stated))]
    BY DEF IInv, Types, Clear, Without
<1> QED
    BY <1>2, <1>3, <1>4

LEMMA ElsewhereKept ==
    ASSUME IInv, UNCHANGED <<stated, called, elements, expectations>>
    PROVE  IInv'
BY ErasingKeeps DEF IInv, Types

LEMMA NextKeeps ==
    ASSUME ExpectationsAssumption, IInv, [Next]_vars
    PROVE  IInv'
<1>1. CASE \E st \in Statements : Expect(st)
    BY <1>1, ExpectKeeps
<1>2. CASE \E f \in Functions, v \in Values : CallFulfilled(f, v)
    BY <1>2, FulfilledKeeps
<1>3. CASE \E f \in Functions, v \in Values :
              CallUnexpected(f, v) \/ CallOutOfSequence(f, v)
    BY <1>3, ElsewhereKept
       DEF CallUnexpected, CallOutOfSequence, Called, Abort
<1>4. CASE \E f \in Functions, v \in Values : CallWithoutAction(f, v)
    <2>1. PICK f \in Functions, v \in Values : CallWithoutAction(f, v)
        BY <1>4
    <2>2. PICK i \in Chosen(f, v) : Invoke(f, i)
        BY <2>1 DEF CallWithoutAction
    <2>3. i \in DOMAIN expectations[f] /\ UNCHANGED <<stated, called>>
        BY <2>1, <2>2 DEF Chosen, CallWithoutAction, Called, Abort
    <2> QED
        BY <2>2, <2>3, InvokeErases, ErasingKeeps
<1>5. CASE Catch \/ Done \/ UNCHANGED vars
    BY <1>5, ElsewhereKept DEF Catch, Done, vars, records
<1>6. CASE \E fs \in Verifiable : Verify(fs)
    BY <1>6, ElsewhereKept DEF Verify, records
<1>7. CASE \E fs \in Verifiable : Reset(fs)
    BY <1>7, ClearErases, ErasingKeeps DEF Reset
<1>8. CASE \E m \in Mocks : Destroy(m)
    <2>1. PICK m \in Mocks : Destroy(m)
        BY <1>8
    <2> DEFINE fs == {f \in Functions : MockOf[f] = m}
    <2>2. Clear(fs) /\ UNCHANGED <<stated, called>>
        BY <2>1 DEF Destroy, records
    <2> QED
        BY <2>2, ClearErases, ErasingKeeps
<1> QED
    BY <1>1, <1>2, <1>3, <1>4, <1>5, <1>6, <1>7, <1>8 DEF Next

LEMMA InitHolds == ASSUME Init PROVE IInv
<1>1. Types
    BY DEF Init, Types, Expectation
<1>2. NothingEarlierLeft /\ SequencesOrdered
    BY DEF Init, NothingEarlierLeft, SequencesOrdered
<1> QED
    BY <1>1, <1>2 DEF IInv

(* Whatever a test states and whatever the code under test calls, no call     *)
(* that succeeds is out of the order of any sequence.                         *)
THEOREM OrderKept == ExpectationsAssumption => (Spec => []SequencesOrdered)
<1> SUFFICES ASSUME ExpectationsAssumption PROVE Spec => []SequencesOrdered
    OBVIOUS
<1>1. Init => IInv
    BY InitHolds
<1>2. IInv /\ [Next]_vars => IInv'
    BY NextKeeps
<1>3. IInv => SequencesOrdered
    BY DEF IInv
<1> QED
    BY <1>1, <1>2, <1>3, PTL DEF Spec

-----------------------------------------------------------------------------
(* What root reaches.                                                         *)

(* An object knows functions of its own, and root knows it exactly while it   *)
(* knows some; root knows the other functions itself.                         *)
RootInv ==
    /\ group \in [Objects -> SUBSET Functions]
    /\ root \subseteq Objects \union Functions
    /\ \A o \in Objects : \A f \in group[o] : MockOf[f] = o
    /\ \A o \in Objects : group[o] # {} => o \in root
    /\ \A o \in root \intersect Objects : group[o] # {} /\ o \in alive
    /\ \A f \in root \intersect Functions :
           MockOf[f] \in alive /\ MockOf[f] \notin Objects

(* A function that has expectations has been configured.                      *)
Configured(f) == IF MockOf[f] \in Objects THEN f \in group[MockOf[f]] ELSE f \in root

ConfiguredFirst == \A f \in Functions : expectations[f] # <<>> => Configured(f)

LEMMA ConfigureRoots ==
    ASSUME ExpectationsAssumption, RootInv, NEW f \in Functions, Usable(f), Configure(f),
           alive' = alive
    PROVE  /\ RootInv' /\ Configured(f)'
           /\ \A g \in Functions : Configured(g) => Configured(g)'
<1>1. /\ MockOf[f] \in Mocks /\ MockOf[f] \in alive /\ f \notin Objects
      /\ Objects \intersect Functions = {}
    BY DEF ExpectationsAssumption, Usable
<1>2. CASE MockOf[f] \in Objects
  <2>1. /\ group' = [group EXCEPT ![MockOf[f]] = @ \union {f}]
        /\ root' = IF group[MockOf[f]] = {} THEN root \union {MockOf[f]} ELSE root
      BY <1>2 DEF Configure, ObjectAdds, RootAdds
  <2>2. \A o \in Objects : group'[o] = IF o = MockOf[f] THEN group[o] \union {f} ELSE group[o]
      BY <1>2, <2>1 DEF RootInv
  <2>3. root \subseteq root' /\ root' \subseteq root \union {MockOf[f]} /\ MockOf[f] \in root'
      BY <1>2, <2>1 DEF RootInv
  <2>4. group' \in [Objects -> SUBSET Functions]
      BY <1>2, <2>1 DEF RootInv
  <2>5. RootInv'
      BY <1>1, <1>2, <2>2, <2>3, <2>4 DEF RootInv
  <2> QED
      BY <1>2, <2>2, <2>3, <2>5 DEF Configured
<1>3. CASE MockOf[f] \notin Objects
  <2>1. group' = group /\ root' = root \union {f}
      BY <1>3 DEF Configure, RootAdds
  <2> QED
      BY <1>1, <1>3, <2>1 DEF RootInv, Configured
<1> QED
    BY <1>2, <1>3

LEMMA DestroyRoots ==
    ASSUME ExpectationsAssumption, RootInv, ConfiguredFirst, NEW m \in Mocks, Destroy(m)
    PROVE  RootInv' /\ ConfiguredFirst'
<1> DEFINE fs == {f \in Functions : MockOf[f] = m}
<1>1. /\ alive' = alive \ {m} /\ root' = root \ (fs \union {m})
      /\ group' = [o \in Objects |-> IF o = m THEN {} ELSE group[o]]
      /\ expectations' = [f \in Functions |-> IF f \in fs THEN <<>> ELSE expectations[f]]
    BY DEF Destroy, RootRemoves, Clear
<1>2. m \notin Functions /\ Objects \intersect Functions = {}
    BY DEF ExpectationsAssumption
<1>3. RootInv'
    BY <1>1, <1>2 DEF RootInv
<1>4. ConfiguredFirst'
    BY <1>1, <1>2 DEF ConfiguredFirst, Configured, RootInv
<1> QED
    BY <1>3, <1>4

LEMMA SameRoots ==
    ASSUME RootInv, ConfiguredFirst, UNCHANGED <<alive, group, root>>,
           \A f \in Functions : expectations'[f] # <<>> => expectations[f] # <<>>
    PROVE  RootInv' /\ ConfiguredFirst'
BY DEF RootInv, ConfiguredFirst, Configured

LEMMA CallRoots ==
    ASSUME ExpectationsAssumption, RootInv, ConfiguredFirst, NEW f \in Functions, Called(f),
           \A g \in Functions : expectations'[g] # <<>> => expectations[g] # <<>> \/ g = f
    PROVE  RootInv' /\ ConfiguredFirst'
<1>1. /\ RootInv' /\ Configured(f)'
      /\ \A g \in Functions : Configured(g) => Configured(g)'
    BY ConfigureRoots DEF Called
<1> QED
    BY <1>1 DEF ConfiguredFirst

LEMMA NextRoots ==
    ASSUME ExpectationsAssumption, IInv, RootInv, ConfiguredFirst, [Next]_vars
    PROVE  RootInv' /\ ConfiguredFirst'
<1>1. ASSUME NEW st \in Statements, Expect(st)
      PROVE  RootInv' /\ ConfiguredFirst'
  <2> DEFINE f == st.function
  <2>1. f \in Functions /\ Usable(f) /\ Configure(f) /\ alive' = alive
      BY <1>1 DEF Expect, ExpectationsAssumption, Statement
  <2>2. /\ RootInv' /\ Configured(f)'
        /\ \A g \in Functions : Configured(g) => Configured(g)'
      BY <2>1, ConfigureRoots
  <2>3. \A g \in Functions : g # f => expectations'[g] = expectations[g]
      BY <1>1 DEF Expect, IInv, Types
  <2> QED
      BY <2>2, <2>3 DEF ConfiguredFirst
<1>2. ASSUME NEW f \in Functions, NEW v \in Values,
             CallUnexpected(f, v) \/ CallOutOfSequence(f, v)
      PROVE  RootInv' /\ ConfiguredFirst'
    BY <1>2, CallRoots DEF CallUnexpected, CallOutOfSequence
<1>3. ASSUME NEW f \in Functions, NEW v \in Values,
             CallWithoutAction(f, v) \/ CallFulfilled(f, v)
      PROVE  RootInv' /\ ConfiguredFirst'
  <2>1. Called(f) /\ \E i \in Chosen(f, v) : Invoke(f, i)
      BY <1>3 DEF CallWithoutAction, CallFulfilled
  <2>2. \A g \in Functions : g # f => expectations'[g] = expectations[g]
      BY <2>1 DEF Invoke, IInv, Types
  <2> QED
      BY <2>1, <2>2, CallRoots
<1>4. CASE Catch \/ Done \/ UNCHANGED vars
    BY <1>4, SameRoots DEF Catch, Done, vars
<1>5. ASSUME NEW fs, Verify(fs)
      PROVE  RootInv' /\ ConfiguredFirst'
    BY <1>5, SameRoots DEF Verify
<1>6. ASSUME NEW fs, Reset(fs)
      PROVE  RootInv' /\ ConfiguredFirst'
    BY <1>6, SameRoots DEF Reset, Clear
<1> QED
    BY <1>1, <1>2, <1>3, <1>4, <1>5, <1>6, DestroyRoots DEF Next

LEMMA RootMeans ==
    ASSUME ExpectationsAssumption, RootInv, ConfiguredFirst
    PROVE  RootReachesAlive
<1>1. \A f \in Reached : MockOf[f] \in alive
    BY DEF Reached, RootInv
<1>2. \A f \in Functions : Configured(f) => f \in Reached
    BY DEF Configured, Reached, RootInv
<1> QED
    BY <1>1, <1>2 DEF RootReachesAlive, RootInv, ConfiguredFirst

(* Whatever is stated, called, reset and destroyed in whatever order: what    *)
(* mock::verify() and mock::reset() without arguments reach is every function *)
(* with expectations, and never one of a mock that was destroyed.             *)
THEOREM RootIsRight == ExpectationsAssumption => (Spec => []RootReachesAlive)
<1> SUFFICES ASSUME ExpectationsAssumption PROVE Spec => []RootReachesAlive
    OBVIOUS
<1> DEFINE J == IInv /\ RootInv /\ ConfiguredFirst
<1>1. Init => J
  <2>1. ASSUME Init PROVE RootInv /\ ConfiguredFirst
      BY <2>1 DEF Init, RootInv, ConfiguredFirst
  <2> QED
      BY <2>1, InitHolds
<1>2. J /\ [Next]_vars => J'
    BY NextKeeps, NextRoots
<1>3. J => RootReachesAlive
    BY RootMeans
<1> HIDE DEF J
<1> QED
    BY <1>1, <1>2, <1>3, PTL DEF Spec

-----------------------------------------------------------------------------
(* What is counted.                                                           *)

(* An expectation stands for a statement about its function that was not      *)
(* reset, and counts the calls of it.                                         *)
Stands(f, i) ==
    LET e == expectations[f][i] IN
    /\ stated[e.id].function = f /\ e.id \notin forgotten
    /\ e.count = TimesCalled(e.id)
    /\ e.count <= stated[e.id].times.max

(* An expectation of each statement while its mock is alive, and what it asks *)
(* for after that.                                                            *)
Kept(id) ==
    LET f == stated[id].function IN
    IF MockOf[f] \in alive THEN \E i \in DOMAIN expectations[f] : expectations[f][i].id = id
    ELSE stated[id].times.min <= TimesCalled(id) /\ TimesCalled(id) <= stated[id].times.max

Accounted ==
    /\ Functions \subseteq valid /\ ~unwinding /\ forgotten \subseteq DOMAIN stated
    /\ \A f \in Functions : \A i \in DOMAIN expectations[f] : Stands(f, i)
    /\ \A f \in Functions : \A i, j \in DOMAIN expectations[f] :
           expectations[f][i].id = expectations[f][j].id => i = j
    /\ \A id \in DOMAIN stated \ forgotten : Kept(id)

CountInv == failed \/ Accounted

CallsOf(id) == {i \in DOMAIN called : called[i] = id}

LEMMA CallsFinite ==
    ASSUME Types, NEW id
    PROVE  IsFiniteSet(CallsOf(id)) /\ TimesCalled(id) = Cardinality(CallsOf(id))
           /\ TimesCalled(id) \in Nat
<1>1. IsFiniteSet(1..Len(called)) /\ DOMAIN called = 1..Len(called)
    BY FS_Interval DEF Types
<1>2. CallsOf(id) \subseteq 1..Len(called)
    BY <1>1 DEF CallsOf
<1>3. IsFiniteSet(CallsOf(id))
    BY <1>1, <1>2, FS_Subset
<1> QED
    BY <1>3, FS_CardinalityType DEF CallsOf, TimesCalled

LEMMA OneMoreCall ==
    ASSUME Types, Types', NEW id, called' = Append(called, id)
    PROVE  /\ TimesCalled(id)' = TimesCalled(id) + 1
           /\ \A other : other # id => TimesCalled(other)' = TimesCalled(other)
<1> DEFINE n == Len(called) + 1
<1>1. /\ DOMAIN called' = DOMAIN called \union {n} /\ n \notin DOMAIN called
      /\ called'[n] = id /\ \A i \in DOMAIN called : called'[i] = called[i]
    BY DEF Types
<1> HIDE DEF n
<1>2. CallsOf(id)' = CallsOf(id) \union {n} /\ n \notin CallsOf(id)
    BY <1>1 DEF CallsOf
<1>3. \A other : other # id => CallsOf(other)' = CallsOf(other)
    BY <1>1 DEF CallsOf
<1>4. Cardinality(CallsOf(id)') = Cardinality(CallsOf(id)) + 1
    BY <1>2, CallsFinite, FS_AddElement
<1> QED
    BY <1>3, <1>4 DEF CallsOf, TimesCalled

LEMMA NeverCalled ==
    ASSUME Types, NEW id, id \notin 1..Len(stated)
    PROVE  TimesCalled(id) = 0
<1>1. CallsOf(id) = {}
    BY DEF Types, CallsOf
<1> QED
    BY <1>1, CallsFinite, FS_EmptySet

(* What has no effect on the accounts. *)
LEMMA SameAccounts ==
    ASSUME Accounted, UNCHANGED <<expectations, alive, unwinding, stated, called, forgotten>>,
           Functions \subseteq valid'
    PROVE  Accounted'
<1>1. \A f, i : Stands(f, i)' <=> Stands(f, i)
    BY DEF Stands, TimesCalled
<1>2. \A id : Kept(id)' <=> Kept(id)
    BY DEF Kept, TimesCalled
<1>3. DOMAIN stated' \ forgotten' = DOMAIN stated \ forgotten
      /\ forgotten' \subseteq DOMAIN stated'
    BY DEF Accounted
<1>4. ~unwinding'
    BY Zenon DEF Accounted
<1> QED
    BY <1>1, <1>2, <1>3, <1>4 DEF Accounted

LEMMA StatementFields ==
    ASSUME Types, NEW j \in DOMAIN stated
    PROVE  /\ stated[j].function \in Functions
           /\ stated[j].times.min \in Nat /\ stated[j].times.max \in Nat
<1>1. stated[j] \in Statement
    BY DEF Types
<1>2. \A st \in Statement : /\ st.function \in Functions
                            /\ st.times.min \in Nat /\ st.times.max \in Nat
    BY DEF Statement
<1> QED
    BY <1>1, <1>2

LEMMA Appending ==
    ASSUME NEW S, NEW s \in Seq(S), NEW x
    PROVE  /\ Len(s) \in Nat /\ DOMAIN s = 1..Len(s)
           /\ DOMAIN Append(s, x) = DOMAIN s \union {Len(s) + 1}
           /\ Len(s) + 1 \notin DOMAIN s
           /\ Append(s, x)[Len(s) + 1] = x
           /\ \A j \in DOMAIN s : Append(s, x)[j] = s[j]
OBVIOUS

LEMMA ExpectCounts ==
    ASSUME ExpectationsAssumption, IInv, IInv', Accounted, NEW st \in Statements, Expect(st)
    PROVE  Accounted'
<1> DEFINE f == st.function
           id == Len(stated) + 1
           new == [id |-> id, count |-> 0]
           n == Len(expectations[f]) + 1
<1>1. /\ f \in Functions /\ MockOf[f] \in alive /\ st.times.max \in Nat
      /\ alive' = alive /\ valid' = valid \union {f} /\ called' = called
      /\ forgotten' = forgotten /\ unwinding' = unwinding
    BY DEF Expect, ExpectationsAssumption, Statement, Usable
<1>2. /\ stated \in Seq(Statement) /\ Len(stated) \in Nat
      /\ DOMAIN stated' = DOMAIN stated \union {id}
      /\ stated'[id] = st /\ \A j \in DOMAIN stated : stated'[j] = stated[j]
      /\ DOMAIN stated = 1..Len(stated) /\ id \notin DOMAIN stated
  <2>1. stated \in Seq(Statement) /\ stated' = Append(stated, st)
      BY DEF IInv, Types, Expect
  <2> QED
      BY <2>1, Appending
<1>3. /\ \A g \in Functions : g # f => expectations'[g] = expectations[g]
      /\ DOMAIN expectations'[f] = DOMAIN expectations[f] \union {n}
      /\ n \notin DOMAIN expectations[f]
      /\ expectations'[f][n] = new
      /\ \A i \in DOMAIN expectations[f] : expectations'[f][i] = expectations[f][i]
  <2>1. /\ expectations' = [expectations EXCEPT ![f] = Append(expectations[f], new)]
        /\ expectations \in [Functions -> Seq(Expectation)]
      BY DEF IInv, Types, Expect
  <2> HIDE DEF f, new
  <2>2. /\ expectations'[f] = Append(expectations[f], new)
        /\ expectations[f] \in Seq(Expectation)
        /\ \A g \in Functions : g # f => expectations'[g] = expectations[g]
      BY <1>1, <2>1
  <2> QED
      BY <2>2, Appending
<1>4. \A g \in Functions : \A i \in DOMAIN expectations[g] :
          expectations[g][i].id \in DOMAIN stated
    BY <1>2, Identified DEF IInv
<1>5. /\ TimesCalled(id) = 0
      /\ \A j : TimesCalled(j)' = TimesCalled(j)
    BY <1>1, <1>2, NeverCalled DEF IInv, TimesCalled
<1>6. new.id = id /\ new.count = 0
    OBVIOUS
<1>7. id \notin forgotten
  <2>1. forgotten \subseteq DOMAIN stated
      BY DEF Accounted
  <2> QED
      BY <1>2, <2>1
<1> HIDE DEF id, new, n
<1>8. \A g \in Functions : \A i \in DOMAIN expectations'[g] : Stands(g, i)'
  <2> SUFFICES ASSUME NEW g \in Functions, NEW i \in DOMAIN expectations'[g]
               PROVE  Stands(g, i)'
      OBVIOUS
  <2>1. CASE i \in DOMAIN expectations[g]
    <3>1. expectations'[g][i] = expectations[g][i] /\ Stands(g, i)
        BY <1>3, <2>1 DEF Accounted
    <3> QED
        BY <1>1, <1>2, <1>4, <1>5, <2>1, <3>1 DEF Stands
  <2>2. CASE i \notin DOMAIN expectations[g]
    <3>1. g = f /\ i = n
        BY <1>3, <2>2
    <3> QED
        BY <1>1, <1>2, <1>3, <1>5, <1>6, <1>7, <3>1 DEF Stands
  <2> QED
      BY <2>1, <2>2
<1>9. \A g \in Functions : \A i, j \in DOMAIN expectations'[g] :
          expectations'[g][i].id = expectations'[g][j].id => i = j
    BY <1>2, <1>3, <1>4, <1>6 DEF Accounted
<1>10. ASSUME NEW j \in DOMAIN stated' \ forgotten'
       PROVE  Kept(j)'
  <2>1. CASE j = id
    <3>1. n \in DOMAIN expectations'[f] /\ expectations'[f][n].id = j
        BY <1>3, <1>6, <2>1
    <3>2. stated'[j].function = f
        BY <1>2, <2>1
    <3> HIDE DEF f
    <3> QED
        BY <1>1, <3>1, <3>2 DEF Kept
  <2>2. CASE j # id
    <3>1. j \in DOMAIN stated \ forgotten /\ stated'[j] = stated[j] /\ Kept(j)
        BY <1>1, <1>2, <2>2 DEF Accounted
    <3>2. stated[j].function \in Functions
        BY <1>2, <3>1, StatementFields DEF IInv
    <3>3. \A g \in Functions : \A i \in DOMAIN expectations[g] :
              i \in DOMAIN expectations'[g] /\ expectations'[g][i] = expectations[g][i]
        BY <1>3
    <3> QED
        BY <1>1, <1>5, <3>1, <3>2, <3>3 DEF Kept
  <2> QED
      BY <2>1, <2>2
<1>11. ~unwinding'
    BY <1>1, Zenon DEF Accounted
<1>12. Functions \subseteq valid' /\ forgotten' \subseteq DOMAIN stated'
    BY <1>1, <1>2 DEF Accounted
<1> QED
    BY <1>8, <1>9, <1>10, <1>11, <1>12 DEF Accounted

LEMMA FulfilledCounts ==
    ASSUME ExpectationsAssumption, IInv, IInv', Accounted,
           NEW f \in Functions, NEW v \in Values, CallFulfilled(f, v)
    PROVE  Accounted'
<1>1. PICK k \in Chosen(f, v) :
          Invoke(f, k) /\ called' = Append(called, expectations[f][k].id)
    BY DEF CallFulfilled
<1> DEFINE e == expectations[f][k]
<1> PICK id : id = e.id
    OBVIOUS
<1>2. /\ k \in DOMAIN expectations[f] /\ e.count < stated[id].times.max
      /\ MockOf[f] \in alive
      /\ UNCHANGED <<alive, unwinding, stated, forgotten>> /\ valid' = valid \union {f}
    BY DEF Chosen, Accepts, StatementOf, CallFulfilled, Called, Usable
<1>3. /\ id \in DOMAIN stated /\ e.count \in Nat /\ stated[id].times.max \in Nat
      /\ DOMAIN stated = 1..Len(stated)
  <2>1. stated \in Seq(Statement)
      BY DEF IInv, Types
  <2>2. DOMAIN stated = 1..Len(stated)
      BY <2>1
  <2> QED
      BY <1>2, <2>2, Identified, StatementFields DEF IInv
<1>4. /\ \A g \in Functions : DOMAIN expectations'[g] = DOMAIN expectations[g]
      /\ \A g \in Functions : \A i \in DOMAIN expectations[g] :
            ~(g = f /\ i = k) => expectations'[g][i] = expectations[g][i]
      /\ expectations'[f][k].id = id /\ expectations'[f][k].count = e.count + 1
  <2>1. expectations' = [expectations EXCEPT ![f] = [expectations[f] EXCEPT ![k] =
            [e EXCEPT !.count = @ + 1]]]
      BY <1>1 DEF Invoke
  <2>2. \A g \in Functions : \A i \in DOMAIN expectations[g] :
            expectations[g][i] \in Expectation /\ expectations[g][i].count \in Nat
      BY Identified DEF IInv
  <2>3. [e EXCEPT !.count = @ + 1].id = e.id /\ [e EXCEPT !.count = @ + 1].count = e.count + 1
      BY <1>2, <2>2 DEF Expectation
  <2> HIDE DEF e
  <2>4. \A g \in Functions : g # f => expectations'[g] = expectations[g]
      BY <2>1 DEF IInv, Types
  <2>5. expectations'[f] = [expectations[f] EXCEPT ![k] = [e EXCEPT !.count = @ + 1]]
      BY <2>1 DEF IInv, Types
  <2>6. \A i \in DOMAIN expectations[f] : i # k => expectations'[f][i] = expectations[f][i]
      BY <2>5
  <2>7. expectations'[f][k] = [e EXCEPT !.count = @ + 1]
      BY <1>2, <2>5
  <2> QED
      BY <1>2, <2>3, <2>4, <2>5, <2>6, <2>7
<1>5. /\ TimesCalled(id)' = TimesCalled(id) + 1
      /\ \A other : other # id => TimesCalled(other)' = TimesCalled(other)
  <2>1. Types /\ Types' /\ called' = Append(called, id)
      BY <1>1 DEF IInv
  <2> QED
      BY <2>1, OneMoreCall
<1>6. stated[id].function = f /\ e.count = TimesCalled(id)
    BY <1>2 DEF Accounted, Stands
<1>7. ASSUME NEW g \in Functions, NEW i \in DOMAIN expectations[g]
      PROVE  /\ stated[expectations[g][i].id].function = g
             /\ expectations[g][i].id = id <=> g = f /\ i = k
  <2>1. stated[expectations[g][i].id].function = g
      BY DEF Accounted, Stands
  <2> QED
      BY <1>2, <1>6, <2>1 DEF Accounted
<1> HIDE DEF e
<1>8. ASSUME NEW g \in Functions, NEW i \in DOMAIN expectations'[g]
      PROVE  Stands(g, i)'
  <2>1. i \in DOMAIN expectations[g] /\ Stands(g, i)
      BY <1>4 DEF Accounted
  <2>2. CASE g = f /\ i = k
    <3>1. expectations'[g][i].id = id /\ expectations'[g][i].count = e.count + 1
        BY <1>4, <2>2
    <3>2. id \notin forgotten
        BY <2>1, <2>2 DEF Stands, e
    <3> QED
        BY <1>2, <1>3, <1>5, <1>6, <2>2, <3>1, <3>2 DEF Stands
  <2>3. CASE ~(g = f /\ i = k)
    <3>1. expectations[g][i].id # id /\ expectations[g][i].count \in Nat
        BY <1>7, <2>1, <2>3, Identified DEF IInv
    <3>2. expectations'[g][i].id = expectations[g][i].id
          /\ expectations'[g][i].count = expectations[g][i].count
        BY <1>4, <2>1, <2>3
    <3> QED
        BY <1>2, <1>5, <2>1, <3>1, <3>2 DEF Stands
  <2> QED
      BY <2>2, <2>3
<1>9. \A g \in Functions : \A i \in DOMAIN expectations[g] :
           expectations'[g][i].id = expectations[g][i].id
    BY <1>4 DEF e
<1>10. \A g \in Functions : \A i, j \in DOMAIN expectations'[g] :
          expectations'[g][i].id = expectations'[g][j].id => i = j
    BY <1>4, <1>9 DEF Accounted
<1>11. ASSUME NEW j \in DOMAIN stated' \ forgotten'
       PROVE  Kept(j)'
  <2>1. /\ j \in DOMAIN stated \ forgotten /\ stated'[j] = stated[j] /\ Kept(j)
        /\ stated[j].function \in Functions
      BY <1>2, StatementFields DEF Accounted, IInv
  <2>2. CASE MockOf[stated[j].function] \in alive
      BY <1>2, <1>4, <1>9, <2>1, <2>2 DEF Kept
  <2>3. CASE MockOf[stated[j].function] \notin alive
    <3>1. j # id
        BY <1>2, <1>6, <2>3
    <3> QED
        BY <1>2, <1>5, <2>1, <2>3, <3>1 DEF Kept
  <2> QED
      BY <2>2, <2>3
<1>12. ~unwinding'
    BY <1>2, Zenon DEF Accounted
<1>13. Functions \subseteq valid' /\ forgotten' \subseteq DOMAIN stated'
    BY <1>2 DEF Accounted
<1> QED
    BY <1>8, <1>10, <1>11, <1>12, <1>13 DEF Accounted

(* The ids of functions, and only of these. *)
LEMMA IdsOfFunctions ==
    ASSUME IInv, Accounted, NEW fs \in SUBSET Functions
    PROVE  /\ IdsOf(fs) \subseteq DOMAIN stated
           /\ \A g \in Functions \ fs : \A i \in DOMAIN expectations[g] :
                  expectations[g][i].id \notin IdsOf(fs)
           /\ \A g \in fs : \A i \in DOMAIN expectations[g] :
                  expectations[g][i].id \in IdsOf(fs)
<1>1. \A g \in Functions : \A i \in DOMAIN expectations[g] :
          /\ stated[expectations[g][i].id].function = g
          /\ expectations[g][i].id \in DOMAIN stated
  <2>1. stated \in Seq(Statement)
      BY DEF IInv, Types
  <2>2. DOMAIN stated = 1..Len(stated)
      BY <2>1
  <2> QED
      BY <2>2, Identified DEF IInv, Accounted, Stands
<1> QED
    BY <1>1 DEF IdsOf

LEMMA ResetCounts ==
    ASSUME IInv, Accounted, NEW fs \in SUBSET Functions, Reset(fs)
    PROVE  Accounted'
<1>1. /\ expectations' = [f \in Functions |-> IF f \in fs THEN <<>> ELSE expectations[f]]
      /\ valid' = valid \union fs /\ forgotten' = forgotten \union IdsOf(fs)
      /\ UNCHANGED <<alive, unwinding, stated, called>>
    BY DEF Reset, Clear
<1>2. \A id : TimesCalled(id)' = TimesCalled(id)
    BY <1>1 DEF TimesCalled
<1>3. \A g \in Functions : \A i \in DOMAIN expectations'[g] :
          g \notin fs /\ expectations'[g] = expectations[g]
  <2>1. \A g \in fs : expectations'[g] = <<>> /\ DOMAIN expectations'[g] = {}
      BY <1>1
  <2> QED
      BY <1>1, <2>1
<1>4. \A g \in Functions : \A i \in DOMAIN expectations'[g] : Stands(g, i)'
    BY <1>1, <1>2, <1>3, IdsOfFunctions DEF Accounted, Stands
<1>5. \A g \in Functions : \A i, j \in DOMAIN expectations'[g] :
          expectations'[g][i].id = expectations'[g][j].id => i = j
    BY <1>3 DEF Accounted
<1>6. ASSUME NEW j \in DOMAIN stated' \ forgotten'
      PROVE  Kept(j)'
  <2>1. /\ j \in DOMAIN stated \ forgotten /\ j \notin IdsOf(fs) /\ Kept(j)
        /\ stated[j].function \in Functions
      BY <1>1, StatementFields DEF Accounted, IInv
  <2>2. CASE MockOf[stated[j].function] \in alive
    <3>1. PICK i \in DOMAIN expectations[stated[j].function] :
              expectations[stated[j].function][i].id = j
        BY <2>1, <2>2 DEF Kept
    <3>2. stated[j].function \notin fs
        BY <2>1, <3>1, IdsOfFunctions
    <3>3. expectations'[stated[j].function] = expectations[stated[j].function]
        BY <1>1, <2>1, <3>2
    <3> QED
        BY <1>1, <2>2, <3>1, <3>3 DEF Kept
  <2>3. CASE MockOf[stated[j].function] \notin alive
      BY <1>1, <1>2, <2>1, <2>3 DEF Kept
  <2> QED
      BY <2>2, <2>3
<1>7. ~unwinding'
    BY <1>1, Zenon DEF Accounted
<1>8. Functions \subseteq valid' /\ forgotten' \subseteq DOMAIN stated'
    BY <1>1, IdsOfFunctions DEF Accounted
<1> QED
    BY <1>4, <1>5, <1>6, <1>7, <1>8 DEF Accounted

LEMMA DestroyCounts ==
    ASSUME ExpectationsAssumption, IInv, Accounted, NEW m \in Mocks, Destroy(m), ~failed'
    PROVE  Accounted'
<1> DEFINE fs == {f \in Functions : MockOf[f] = m}
<1>1. /\ expectations' = [f \in Functions |-> IF f \in fs THEN <<>> ELSE expectations[f]]
      /\ alive' = alive \ {m}
      /\ UNCHANGED <<valid, unwinding, stated, called, forgotten>>
      /\ \A f \in fs : ~Reports(f)
    BY DEF Destroy, Clear, records
<1>2. \A id : TimesCalled(id)' = TimesCalled(id)
    BY <1>1 DEF TimesCalled
<1>3. \A g \in Functions : \A i \in DOMAIN expectations'[g] :
          g \notin fs /\ expectations'[g] = expectations[g]
  <2>1. \A g \in fs : expectations'[g] = <<>> /\ DOMAIN expectations'[g] = {}
      BY <1>1
  <2> QED
      BY <1>1, <2>1
<1>4. \A g \in Functions : \A i \in DOMAIN expectations'[g] : Stands(g, i)'
    BY <1>1, <1>2, <1>3 DEF Accounted, Stands
<1>5. \A g \in Functions : \A i, j \in DOMAIN expectations'[g] :
          expectations'[g][i].id = expectations'[g][j].id => i = j
    BY <1>3 DEF Accounted
<1>6. \A f \in fs : AllMet(f)
  <2>1. ~unwinding
      BY Zenon DEF Accounted
  <2>2. fs \subseteq valid
      BY DEF Accounted
  <2> QED
      BY <1>1, <2>1, <2>2 DEF Reports
<1>7. ASSUME NEW j \in DOMAIN stated' \ forgotten'
      PROVE  Kept(j)'
  <2> DEFINE g == stated[j].function
  <2>1. j \in DOMAIN stated \ forgotten /\ Kept(j) /\ g \in Functions
      BY <1>1, StatementFields DEF Accounted, IInv
  <2>2. CASE MockOf[g] \notin alive
      BY <1>1, <1>2, <2>1, <2>2 DEF Kept
  <2>3. CASE MockOf[g] \in alive
    <3>1. PICK i \in DOMAIN expectations[g] : expectations[g][i].id = j
        BY <2>1, <2>3 DEF Kept
    <3>2. CASE MockOf[g] = m
      <4>1. /\ stated[j].times.min <= expectations[g][i].count
            /\ expectations[g][i].count = TimesCalled(j)
            /\ expectations[g][i].count <= stated[j].times.max
          BY <1>6, <2>1, <3>1, <3>2 DEF AllMet, Met, StatementOf, Accounted, Stands
      <4> QED
          BY <1>1, <1>2, <3>2, <4>1 DEF Kept
    <3>3. CASE MockOf[g] # m
      <4>1. expectations'[g] = expectations[g]
          BY <1>1, <2>1, <3>3
      <4> QED
          BY <1>1, <2>3, <3>1, <3>3, <4>1 DEF Kept
    <3> QED
        BY <3>2, <3>3
  <2> QED
      BY <2>2, <2>3
<1>8. ~unwinding'
    BY <1>1, Zenon DEF Accounted
<1>9. Functions \subseteq valid' /\ forgotten' \subseteq DOMAIN stated'
    BY <1>1 DEF Accounted
<1> QED
    BY <1>4, <1>5, <1>7, <1>8, <1>9 DEF Accounted

LEMMA NextCounts ==
    ASSUME ExpectationsAssumption, IInv, IInv', RootInv, CountInv, [Next]_vars
    PROVE  CountInv'
<1> SUFFICES ASSUME ~failed' PROVE Accounted'
    BY DEF CountInv
<1>1. \A fs \in Verifiable : fs \in SUBSET Functions
    BY DEF Verifiable, Reached, RootInv
<1>2. ASSUME NEW st \in Statements, Expect(st)
      PROVE  Accounted'
    BY <1>2, ExpectCounts DEF Expect, CountInv
<1>3. ASSUME NEW f \in Functions, NEW v \in Values,
             CallUnexpected(f, v) \/ CallOutOfSequence(f, v) \/ CallWithoutAction(f, v)
      PROVE  FALSE
    BY <1>3 DEF CallUnexpected, CallOutOfSequence, CallWithoutAction, Abort, Fail
<1>4. ASSUME NEW f \in Functions, NEW v \in Values, CallFulfilled(f, v)
      PROVE  Accounted'
    BY <1>4, FulfilledCounts DEF CallFulfilled, CountInv
<1>5. CASE Catch
  <2>1. unwinding /\ ~failed
      BY <1>5 DEF Catch
  <2> QED
      BY <2>1, Zenon DEF CountInv, Accounted
<1>6. CASE UNCHANGED vars
    BY <1>6, SameAccounts DEF vars, CountInv, Accounted
<1>7. CASE Done
    BY <1>6, <1>7 DEF Done
<1>8. ASSUME NEW fs \in Verifiable, Verify(fs)
      PROVE  Accounted'
  <2>1. Unmet(fs) = {} /\ failed' = failed
      BY <1>8 DEF Verify, Fail
  <2>2. valid' = valid /\ Accounted
      BY <1>8, <2>1 DEF Verify, CountInv
  <2> QED
      BY <1>8, <2>2, SameAccounts DEF Verify, records, Accounted
<1>9. ASSUME NEW fs \in Verifiable, Reset(fs)
      PROVE  Accounted'
    BY <1>1, <1>9, ResetCounts DEF Reset, CountInv
<1>10. ASSUME NEW m \in Mocks, Destroy(m)
       PROVE  Accounted'
  <2>1. ~failed
      BY <1>10 DEF Destroy
  <2> QED
      BY <1>10, <2>1, DestroyCounts DEF CountInv
<1> QED
    BY <1>2, <1>3, <1>4, <1>5, <1>6, <1>7, <1>8, <1>9, <1>10 DEF Next

LEMMA AccountsMean ==
    ASSUME IInv, CountInv
    PROVE  PassedMeansMet
<1> SUFFICES ASSUME Accounted, NEW id \in DOMAIN stated \ forgotten
             PROVE  /\ TimesCalled(id) <= stated[id].times.max
                    /\ MockOf[stated[id].function] \notin alive =>
                           stated[id].times.min <= TimesCalled(id)
    BY DEF CountInv, PassedMeansMet
<1>1. Kept(id) /\ stated[id].function \in Functions
    BY StatementFields DEF Accounted, IInv
<1>2. CASE MockOf[stated[id].function] \notin alive
    BY <1>1, <1>2 DEF Kept
<1>3. CASE MockOf[stated[id].function] \in alive
  <2>1. PICK i \in DOMAIN expectations[stated[id].function] :
            expectations[stated[id].function][i].id = id
      BY <1>1, <1>3 DEF Kept
  <2> QED
      BY <1>1, <1>3, <2>1 DEF Accounted, Stands
<1> QED
    BY <1>2, <1>3

(* For any test: if it reports no failure, every statement of it that was not *)
(* reset was met when its mock was destroyed, and none was called too often;  *)
(* a failed call that silences a function never hides that another is unmet.  *)
THEOREM PassedIsMet == ExpectationsAssumption => (Spec => []PassedMeansMet)
<1> SUFFICES ASSUME ExpectationsAssumption PROVE Spec => []PassedMeansMet
    OBVIOUS
<1> DEFINE J == IInv /\ RootInv /\ ConfiguredFirst /\ CountInv
<1>1. Init => J
  <2>1. ASSUME Init PROVE RootInv /\ ConfiguredFirst
      BY <2>1 DEF Init, RootInv, ConfiguredFirst
  <2>2. ASSUME Init PROVE Accounted
    <3>1. ~unwinding
        BY <2>2, Zenon DEF Init
    <3> QED
        BY <2>2, <3>1 DEF Init, Accounted, Stands, Kept
  <2> QED
      BY <2>1, <2>2, InitHolds DEF CountInv
<1>2. J /\ [Next]_vars => J'
    BY NextKeeps, NextRoots, NextCounts
<1>3. J => PassedMeansMet
    BY AccountsMean
<1> HIDE DEF J
<1> QED
    BY <1>1, <1>2, <1>3, PTL DEF Spec
=============================================================================
