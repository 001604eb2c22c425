--------------------- MODULE CollectorLifecycle_proofs ---------------------
(***************************************************************************)
(* Proofs about CollectorLifecycle, for every set of collectors, every     *)
(* assignment of metric names and any number of callers of shutdown().     *)
(***************************************************************************)
EXTENDS CollectorLifecycle, FiniteSetTheorems, TLAPS

-----------------------------------------------------------------------------
(* Types *)

\* What TypeOK rests on: a loop exists once its call has spawned it, only a loop
\* past its first poll is on a worker, and a loop parked inside collect() has the
\* await it waits for still ahead.
Polling ==
    \A c \in Collectors :
        /\ task[c] # "none" <=> call[c] \in {"pushing", "counting", "ok"}
        /\ c \in on => task[c] \in {"ticking", "collecting"}
        /\ task[c] = "collecting" /\ c \notin on => left[c] > 0

TypeInv == TypeOK /\ Polling

\* The names a collector registers are metric names.
LEMMA NamesAreMetrics ==
    ASSUME NEW c \in Collectors
    PROVE  /\ Len(MetricsOf[c]) \in Nat
           /\ \A i \in 1..Len(MetricsOf[c]) : MetricsOf[c][i] \in Metrics
BY ConstantsAssumption DEF ConstantsAssumption

\* TypeInv holds in a registry that build() has just made.
LEMMA InitTypeInv == Init => TypeInv
BY NamesAreMetrics, ConstantsAssumption
   DEF Init, TypeInv, TypeOK, Polling, ConstantsAssumption, Stoppers, Running, Ended

\* The steps of add_collector keep the types.
LEMMA AddKeepsTypeInv ==
    ASSUME TypeInv, NEW c \in Collectors, Begin(c) \/ AddStep(c)
    PROVE  TypeInv'
<1> USE DEF TypeInv, TypeOK, Polling, addVars, taskVars, Running, Ended
<1>1. CASE Begin(c)
  BY <1>1 DEF Begin
<1>2. CASE RegisterOne(c)
  BY <1>2, NamesAreMetrics DEF RegisterOne, MoreToRegister, NextName
<1>3. CASE RegisterFail(c)
  BY <1>3 DEF RegisterFail, MoreToRegister
<1>4. CASE Spawn(c)
  BY <1>4 DEF Spawn
<1>5. CASE Push(c)
  BY <1>5 DEF Push
<1>6. CASE Count(c)
  BY <1>6 DEF Count
<1> QED
  BY <1>1, <1>2, <1>3, <1>4, <1>5, <1>6 DEF AddStep

\* The steps of shutdown() and Drop keep the types.
LEMMA ShutKeepsTypeInv ==
    ASSUME TypeInv, NEW s \in Stoppers, ShutBegin(s) \/ ShutStep(s)
    PROVE  TypeInv'
<1> USE DEF TypeInv, TypeOK, Polling, addVars, taskVars
<1>1. CASE ShutBegin(s)
  BY <1>1 DEF ShutBegin
<1>2. ASSUME NEW c \in Collectors, ShutAbort(s, c) PROVE TypeInv'
  BY <1>2 DEF ShutAbort
<1>3. CASE ShutEnd(s)
  BY <1>3 DEF ShutEnd
<1> QED
  BY <1>1, <1>2, <1>3 DEF ShutStep

\* So do the steps of the loops on the tokio workers.
LEMMA TaskKeepsTypeInv ==
    ASSUME TypeInv, NEW c \in Collectors, TaskStep(c)
    PROVE  TypeInv'
<1> USE ConstantsAssumption
    DEF TypeInv, TypeOK, Polling, addVars, taskVars, Running, Ended, Parked, Live,
        StartCollect, Park
<1>1. CASE CancelParked(c)
  BY <1>1 DEF CancelParked
<1>2. CASE FirstPoll(c)
  <2>1. /\ task[c] = "fresh" /\ c \notin on
        /\ UNCHANGED <<addVars, handles, lock, stop, aborted, left>>
        /\ \/ task' = [task EXCEPT ![c] = "panicked"] /\ on' = on
           \/ task' = [task EXCEPT ![c] = "ticking"] /\ on' = on \cup {c}
    BY <1>2 DEF FirstPoll
  <2>2. CASE task' = [task EXCEPT ![c] = "panicked"] /\ on' = on
    BY <2>1, <2>2
  <2>3. CASE task' = [task EXCEPT ![c] = "ticking"] /\ on' = on \cup {c}
    BY <2>1, <2>3
  <2> QED
    BY <2>1, <2>2, <2>3
<1>3. CASE TickFires(c)
  BY <1>3 DEF TickFires, ConstantsAssumption
<1>4. CASE Answer(c)
  BY <1>4 DEF Answer
<1>5. CASE TickReady(c)
  BY <1>5 DEF TickReady, ConstantsAssumption
<1>6. CASE TickPending(c)
  BY <1>6 DEF TickPending
<1>7. CASE AwaitReady(c)
  BY <1>7 DEF AwaitReady
<1>8. CASE AwaitPending(c)
  BY <1>8 DEF AwaitPending
<1>9. ASSUME NEW r \in {"ok", "err"}, CollectReturn(c, r) PROVE TypeInv'
  BY <1>9 DEF CollectReturn
<1>10. CASE CollectPanic(c)
  BY <1>10 DEF CollectPanic
<1> QED
  BY <1>1, <1>2, <1>3, <1>4, <1>5, <1>6, <1>7, <1>8, <1>9, <1>10 DEF TaskStep, OnCpu

\* Every variable keeps its type, and what a loop has left to await is never
\* negative.
THEOREM TypeCorrect == Spec => []TypeInv
<1>1. TypeInv /\ [Next]_vars => TypeInv'
  <2> SUFFICES ASSUME TypeInv, [Next]_vars PROVE TypeInv'
    OBVIOUS
  <2>1. CASE UNCHANGED vars
    BY <2>1 DEF vars, TypeInv, TypeOK, Polling
  <2>2. CASE Next
    BY <2>2, AddKeepsTypeInv, ShutKeepsTypeInv, TaskKeepsTypeInv DEF Next
  <2> QED
    BY <2>1, <2>2
<1> QED
  BY <1>1, InitTypeInv, PTL DEF Spec

\* The statement the runs check.
THEOREM SpecTypeOK == Spec => []TypeOK
<1>1. TypeInv => TypeOK
  BY DEF TypeInv
<1> QED
  BY <1>1, TypeCorrect, PTL

-----------------------------------------------------------------------------
(* The inductive invariant *)

\* What a call has registered is exported from its own cells, and a name that is
\* exported was registered by its owner: nothing overwrites or removes an entry.
Owned ==
    /\ \A c \in Collectors : \A i \in 1..regd[c] : owner[MetricsOf[c][i]] = c
    /\ \A c \in Collectors, m \in Metrics :
          owner[m] = c => \E i \in 1..regd[c] : MetricsOf[c][i] = m
    /\ \A m \in Metrics : owner[m] = Host => m \in Builtin

\* A loop was spawned by a call that had registered everything.
SpawnedComplete ==
    \A c \in Collectors : task[c] # "none" => regd[c] = Len(MetricsOf[c])

\* Once pushed, a handle is listed until someone aborts it, and only loops that
\* exist have handles.
Listed ==
    /\ \A c \in Collectors : call[c] \in {"counting", "ok"} => c \in handles \cup aborted
    /\ \A c \in handles \cup aborted : task[c] # "none"

Counted == count = Cardinality({c \in Collectors : call[c] = "ok"})

\* Who drains the list holds its mutex; Drop begins when no call borrows the
\* object any more, and returns with the list empty.
Exclusive ==
    /\ \A s \in Stoppers : stop[s] = "draining" => lock = s
    /\ stop[Dropper] # "idle" => \A c \in Collectors : ~InCall(c)
    /\ stop[Dropper] = "returned" => handles = {}

IInv == TypeInv /\ Owned /\ SpawnedComplete /\ Listed /\ Counted /\ Exclusive

\* The invariant holds when build() returns.
LEMMA InitIInv == Init => IInv
<1> SUFFICES ASSUME Init PROVE IInv
  OBVIOUS
<1>1. TypeInv
  BY InitTypeInv
<1>2. Owned
  BY ConstantsAssumption DEF Init, Owned, ConstantsAssumption
<1>3. Counted
  <2>1. {c \in Collectors : call[c] = "ok"} = {}
    BY DEF Init
  <2> QED
    BY <2>1, FS_EmptySet DEF Init, Counted
<1>4. SpawnedComplete /\ Listed /\ Exclusive
  BY ConstantsAssumption DEF Init, SpawnedComplete, Listed, Exclusive, Stoppers,
     ConstantsAssumption
<1> QED
  BY <1>1, <1>2, <1>3, <1>4 DEF IInv

\* Registering one more name: it was free, so no entry of another call moves.
LEMMA RegisterKeepsOwned ==
    ASSUME IInv, NEW c \in Collectors, RegisterOne(c)
    PROVE  Owned'
<1> DEFINE n == regd[c] + 1
<1> USE DEF IInv, TypeInv, TypeOK
<1>1. /\ n \in 1..Len(MetricsOf[c]) /\ NextName(c) = MetricsOf[c][n]
      /\ NextName(c) \in Metrics
      /\ owner[NextName(c)] = Free
      /\ owner' = [owner EXCEPT ![NextName(c)] = c]
      /\ regd' = [regd EXCEPT ![c] = n]
  BY NamesAreMetrics DEF RegisterOne, MoreToRegister, NextName
<1>2. ASSUME NEW d \in Collectors, NEW i \in 1..regd'[d]
      PROVE  owner'[MetricsOf[d][i]] = d
  <2>1. MetricsOf[d][i] \in Metrics
    BY <1>1, NamesAreMetrics
  <2>2. CASE d = c /\ i = n
    BY <1>1, <2>1, <2>2
  <2>3. CASE ~(d = c /\ i = n)
    <3>1. i \in 1..regd[d]
      BY <1>1, <2>3
    <3>2. owner[MetricsOf[d][i]] = d
      BY <3>1 DEF Owned
    <3>3. MetricsOf[d][i] # NextName(c)
      BY <1>1, <3>2, ConstantsAssumption DEF ConstantsAssumption
    <3> QED
      BY <1>1, <2>1, <3>2, <3>3
  <2> QED
    BY <2>2, <2>3
<1>3. ASSUME NEW d \in Collectors, NEW m \in Metrics, owner'[m] = d
      PROVE  \E i \in 1..regd'[d] : MetricsOf[d][i] = m
  <2>1. CASE m = NextName(c)
    BY <1>1, <1>3, <2>1
  <2>2. CASE m # NextName(c)
    <3>1. PICK i \in 1..regd[d] : MetricsOf[d][i] = m
      BY <1>1, <1>3, <2>2 DEF Owned
    <3>2. i \in 1..regd'[d]
      BY <1>1
    <3> QED
      BY <3>1, <3>2
  <2> QED
    BY <2>1, <2>2
<1>4. ASSUME NEW m \in Metrics, owner'[m] = Host PROVE m \in Builtin
  BY <1>1, <1>4, ConstantsAssumption DEF Owned, ConstantsAssumption
<1> QED
  BY <1>2, <1>3, <1>4 DEF Owned

\* Counting a call: the set of accepted calls gains exactly that one.
LEMMA CountKeepsCounted ==
    ASSUME IInv, NEW c \in Collectors, Count(c)
    PROVE  Counted'
<1> DEFINE Accepted == {d \in Collectors : call[d] = "ok"}
<1> USE DEF IInv, TypeInv, TypeOK
<1>1. call[c] = "counting" /\ call' = [call EXCEPT ![c] = "ok"] /\ count' = count + 1
  BY DEF Count
<1>2. Accepted' = Accepted \cup {c} /\ c \notin Accepted
  BY <1>1
<1>3. IsFiniteSet(Accepted)
  BY FS_Subset, ConstantsAssumption DEF ConstantsAssumption
<1>4. Cardinality(Accepted \cup {c}) = Cardinality(Accepted) + 1
  BY <1>2, <1>3, FS_AddElement
<1> QED
  BY <1>1, <1>2, <1>4 DEF Counted

\* The steps of add_collector keep the invariant.
LEMMA AddKeepsIInv ==
    ASSUME IInv, NEW c \in Collectors, Begin(c) \/ AddStep(c)
    PROVE  IInv'
<1> USE DEF IInv, TypeInv, TypeOK, addVars, taskVars, InCall
<1>1. TypeInv'
  BY AddKeepsTypeInv
<1>2. CASE Begin(c)
  <2>1. Owned' /\ SpawnedComplete' /\ Listed' /\ Exclusive'
    BY <1>2 DEF Begin, Owned, SpawnedComplete, Listed, Exclusive
  <2>2. Counted'
    <3>1. {d \in Collectors : call'[d] = "ok"} = {d \in Collectors : call[d] = "ok"}
      BY <1>2 DEF Begin
    <3> QED
      BY <1>2, <3>1 DEF Begin, Counted
  <2> QED
    BY <1>1, <2>1, <2>2
<1>3. CASE RegisterOne(c)
  <2>1. SpawnedComplete' /\ Listed' /\ Counted' /\ Exclusive'
    BY <1>3 DEF RegisterOne, MoreToRegister, Polling, SpawnedComplete, Listed, Counted, Exclusive
  <2> QED
    BY <1>1, <1>3, <2>1, RegisterKeepsOwned
<1>4. CASE RegisterFail(c)
  <2>1. Owned' /\ SpawnedComplete' /\ Listed' /\ Exclusive'
    BY <1>4 DEF RegisterFail, MoreToRegister, Owned, SpawnedComplete, Listed, Exclusive
  <2>2. Counted'
    <3>1. {d \in Collectors : call'[d] = "ok"} = {d \in Collectors : call[d] = "ok"}
      BY <1>4 DEF RegisterFail, MoreToRegister
    <3> QED
      BY <1>4, <3>1 DEF RegisterFail, Counted
  <2> QED
    BY <1>1, <2>1, <2>2
<1>5. CASE Spawn(c)
  <2>1. Owned' /\ SpawnedComplete' /\ Listed' /\ Exclusive'
    BY <1>5 DEF Spawn, Owned, SpawnedComplete, Listed, Exclusive
  <2>2. Counted'
    <3>1. {d \in Collectors : call'[d] = "ok"} = {d \in Collectors : call[d] = "ok"}
      BY <1>5 DEF Spawn
    <3> QED
      BY <1>5, <3>1 DEF Spawn, Counted
  <2> QED
    BY <1>1, <2>1, <2>2
<1>6. CASE Push(c)
  <2>1. Owned' /\ SpawnedComplete' /\ Listed'
    BY <1>6 DEF Push, Polling, Owned, SpawnedComplete, Listed
  <2>2. Exclusive'
    BY <1>6 DEF Push, Exclusive, Stoppers
  <2>3. Counted'
    <3>1. {d \in Collectors : call'[d] = "ok"} = {d \in Collectors : call[d] = "ok"}
      BY <1>6 DEF Push
    <3> QED
      BY <1>6, <3>1 DEF Push, Counted
  <2> QED
    BY <1>1, <2>1, <2>2, <2>3
<1>7. CASE Count(c)
  <2>1. Owned' /\ SpawnedComplete' /\ Listed' /\ Exclusive'
    BY <1>7 DEF Count, Owned, SpawnedComplete, Listed, Exclusive
  <2> QED
    BY <1>1, <1>7, <2>1, CountKeepsCounted
<1> QED
  BY <1>2, <1>3, <1>4, <1>5, <1>6, <1>7 DEF AddStep

\* The steps of shutdown() and Drop keep the invariant.
LEMMA ShutKeepsIInv ==
    ASSUME IInv, NEW s \in Stoppers, ShutBegin(s) \/ ShutStep(s)
    PROVE  IInv'
<1> USE ConstantsAssumption
    DEF IInv, TypeInv, TypeOK, addVars, taskVars, InCall, Stoppers, ConstantsAssumption
<1>1. TypeInv'
  BY ShutKeepsTypeInv
<1>2. CASE ShutBegin(s)
  <2>1. Owned' /\ SpawnedComplete' /\ Listed' /\ Counted'
    BY <1>2 DEF ShutBegin, Owned, SpawnedComplete, Listed, Counted
  <2>2. Exclusive'
    BY <1>2 DEF ShutBegin, Exclusive
  <2> QED
    BY <1>1, <2>1, <2>2
<1>3. ASSUME NEW c \in Collectors, ShutAbort(s, c) PROVE IInv'
  <2>1. Owned' /\ SpawnedComplete' /\ Listed' /\ Counted'
    BY <1>3 DEF ShutAbort, Owned, SpawnedComplete, Listed, Counted
  <2>2. Exclusive'
    BY <1>3 DEF ShutAbort, Exclusive
  <2> QED
    BY <1>1, <2>1, <2>2
<1>4. CASE ShutEnd(s)
  <2>1. Owned' /\ SpawnedComplete' /\ Listed' /\ Counted'
    BY <1>4 DEF ShutEnd, Owned, SpawnedComplete, Listed, Counted
  <2>2. Exclusive'
    BY <1>4 DEF ShutEnd, Exclusive
  <2> QED
    BY <1>1, <2>1, <2>2
<1> QED
  BY <1>2, <1>3, <1>4 DEF ShutStep

\* What a loop does touches neither the registry nor the list of handles, and
\* keeps the invariant.
LEMMA TaskKeepsIInv ==
    ASSUME IInv, NEW c \in Collectors, TaskStep(c)
    PROVE  IInv'
<1>1. UNCHANGED <<addVars, handles, lock, stop, aborted>>
  BY DEF TaskStep, OnCpu, CancelParked, FirstPoll, TickReady, TickPending, TickFires,
         AwaitReady, AwaitPending, Answer, CollectReturn, CollectPanic
<1>2. TypeInv'
  BY TaskKeepsTypeInv DEF IInv
<1>3. Owned' /\ Counted' /\ Exclusive'
  BY <1>1 DEF IInv, Owned, Counted, Exclusive, InCall, addVars
<1>4. \A d \in Collectors : task'[d] # "none" <=> task[d] # "none"
  BY <1>1, <1>2 DEF IInv, TypeInv, Polling, addVars
<1>5. SpawnedComplete' /\ Listed'
  BY <1>1, <1>4 DEF IInv, TypeInv, TypeOK, SpawnedComplete, Listed, addVars
<1> QED
  BY <1>2, <1>3, <1>5 DEF IInv

\* So does a step of the environment.
LEMMA StutterKeepsIInv == IInv /\ UNCHANGED vars => IInv'
BY DEF vars, IInv, TypeInv, TypeOK, Polling, Owned, SpawnedComplete, Listed, Counted,
       Exclusive, InCall

\* The invariant holds in every reachable state: whatever the interleaving of
\* calls of add_collector, shutdown(), Drop and the loops.
THEOREM Invariance == Spec => []IInv
<1>1. IInv /\ [Next]_vars => IInv'
  BY AddKeepsIInv, ShutKeepsIInv, TaskKeepsIInv, StutterKeepsIInv DEF Next
<1> QED
  BY <1>1, InitIInv, PTL DEF Spec

-----------------------------------------------------------------------------
(* The safety properties *)

\* Every loop writes metrics that are exported, from its own cells (state.rs:56-58).
THEOREM SpecRunningIsExposed == Spec => []RunningIsExposed
<1>1. IInv => RunningIsExposed
  BY DEF IInv, Owned, SpawnedComplete, RunningIsExposed, Names
<1> QED
  BY <1>1, Invariance, PTL

\* No two loops ever write metrics of the same name, for any number of clones and
\* any interleaving of their registrations (state.rs:56).
THEOREM SpecOneLoopPerMetric == Spec => []OneLoopPerMetric
<1>1. IInv => OneLoopPerMetric
  <2> SUFFICES ASSUME IInv, NEW c \in Collectors, NEW d \in Collectors, c # d,
                      task[c] # "none", task[d] # "none", NEW m \in Names(c) \cap Names(d)
               PROVE  FALSE
    BY DEF OneLoopPerMetric
  <2>1. owner[m] = c /\ owner[m] = d
    BY DEF IInv, Owned, SpawnedComplete, Names
  <2> QED
    BY <2>1
<1> QED
  BY <1>1, Invariance, PTL

\* A handle is never lost between the list and abort() (state.rs:60-63, 78-80).
THEOREM SpecNoLostHandle == Spec => []NoLostHandle
<1>1. IInv => NoLostHandle
  BY DEF IInv, TypeInv, Polling, Listed, NoLostHandle
<1> QED
  BY <1>1, Invariance, PTL

\* /health never counts a collector that shutdown() cannot stop (state.rs:60-64).
THEOREM SpecCountedAreStoppable == Spec => []CountedAreStoppable
<1>1. IInv => CountedAreStoppable
  <2> SUFFICES ASSUME IInv PROVE CountedAreStoppable
    OBVIOUS
  <2> DEFINE Accepted == {c \in Collectors : call[c] = "ok"}
             Stoppable == handles \cup aborted
  <2>1. Accepted \subseteq Stoppable /\ Stoppable \subseteq Collectors
    BY DEF IInv, TypeInv, TypeOK, Listed
  <2>2. IsFiniteSet(Stoppable)
    BY <2>1, FS_Subset, ConstantsAssumption DEF ConstantsAssumption
  <2>3. Cardinality(Accepted) <= Cardinality(Stoppable)
    BY <2>1, <2>2, FS_Subset
  <2> QED
    BY <2>3 DEF IInv, Counted, CountedAreStoppable, ReportedCollectors
<1> QED
  BY <1>1, Invariance, PTL

\* Drop leaves no loop that was not told to stop (state.rs:85-89): Rust's borrows
\* keep every other call out, so no handle can be pushed behind it.
LEMMA DropLeavesNone == IInv => DropStopsAll
BY DEF IInv, TypeInv, Polling, Listed, Exclusive, InCall, DropStopsAll, Live, Running

THEOREM SpecDropStopsAll == Spec => []DropStopsAll
BY DropLeavesNone, Invariance, PTL

-----------------------------------------------------------------------------
(* Identical collectors *)

\* A call whose metrics only its twins share fails on the first name, which a twin
\* holds: it never loses a name half-way, and never to a call that failed itself.
FailedToATwin ==
    \A c \in Collectors :
        Uncontested(c) /\ call[c] = "err" => owner[MetricsOf[c][1]] \notin {Free, c}

\* Any name of an uncontested collector is owned by a twin that has registered
\* the first name as well, unless nobody owns it.
LEMMA TwinOwns ==
    ASSUME IInv, NEW c \in Collectors, Uncontested(c),
           NEW j \in 1..Len(MetricsOf[c]), owner[MetricsOf[c][j]] # Free
    PROVE  \E d \in Twins(c) :
              /\ owner[MetricsOf[c][j]] = d
              /\ owner[MetricsOf[c][1]] = d
              /\ \E i \in 1..regd[d] : MetricsOf[c][i] = MetricsOf[c][j]
<1> DEFINE m == MetricsOf[c][j]
<1>1. m \in Metrics /\ m \in Names(c)
  BY NamesAreMetrics DEF Names
<1>2. owner[m] # Host
  BY <1>1 DEF IInv, Owned, Uncontested
<1>3. PICK d \in Collectors : owner[m] = d
  BY <1>1, <1>2 DEF IInv, TypeInv, TypeOK
<1>4. PICK i \in 1..regd[d] : MetricsOf[d][i] = m
  BY <1>1, <1>3 DEF IInv, Owned
<1>5. regd[d] \in Nat /\ regd[d] <= Len(MetricsOf[d]) /\ Len(MetricsOf[d]) \in Nat
  BY NamesAreMetrics DEF IInv, TypeInv, TypeOK
<1>6. m \in Names(d)
  BY <1>4, <1>5 DEF Names
<1>7. d \in Twins(c) /\ MetricsOf[d] = MetricsOf[c]
  BY <1>1, <1>6 DEF Uncontested, Twins
<1>8. owner[MetricsOf[d][1]] = d
  BY <1>4, <1>5 DEF IInv, Owned
<1> QED
  BY <1>3, <1>4, <1>7, <1>8

\* No step makes an uncontested call fail unless a twin holds its first name.
LEMMA FailedToATwinStep == IInv /\ FailedToATwin /\ [Next]_vars => FailedToATwin'
<1> SUFFICES ASSUME IInv, FailedToATwin, [Next]_vars,
                    NEW c \in Collectors, Uncontested(c), call'[c] = "err"
             PROVE  owner'[MetricsOf[c][1]] \notin {Free, c}
  BY DEF FailedToATwin, Uncontested, Twins, Names
<1>0. Len(MetricsOf[c]) \in Nat \ {0} /\ MetricsOf[c][1] \in Metrics
  BY NamesAreMetrics, ConstantsAssumption DEF Uncontested, ConstantsAssumption
<1>1. ASSUME UNCHANGED <<owner, call>> PROVE owner'[MetricsOf[c][1]] \notin {Free, c}
  BY <1>1 DEF FailedToATwin
<1>2. ASSUME NEW d \in Collectors, RegisterOne(d)
      PROVE  owner'[MetricsOf[c][1]] \notin {Free, c}
  <2>1. call' = call /\ owner[NextName(d)] = Free /\ owner' = [owner EXCEPT ![NextName(d)] = d]
    BY <1>2 DEF RegisterOne
  <2>2. owner[MetricsOf[c][1]] \notin {Free, c}
    BY <2>1 DEF FailedToATwin
  <2> QED
    BY <1>0, <2>1, <2>2 DEF IInv, TypeInv, TypeOK
<1>3. ASSUME NEW d \in Collectors, RegisterFail(d)
      PROVE  owner'[MetricsOf[c][1]] \notin {Free, c}
  <2>1. owner' = owner /\ (call[c] = "err" \/ c = d)
    BY <1>3 DEF RegisterFail, MoreToRegister, IInv, TypeInv, TypeOK
  <2>2. CASE call[c] = "err"
    BY <2>1, <2>2 DEF FailedToATwin
  <2>3. CASE c = d
    <3> DEFINE j == regd[c] + 1
    <3>1. j \in 1..Len(MetricsOf[c]) /\ owner[MetricsOf[c][j]] # Free
      BY <1>0, <1>3, <2>3
         DEF RegisterFail, MoreToRegister, NextName, IInv, TypeInv, TypeOK
    <3>2. PICK e \in Twins(c) :
             /\ owner[MetricsOf[c][1]] = e
             /\ \E i \in 1..regd[e] : MetricsOf[c][i] = MetricsOf[c][j]
      BY <3>1, TwinOwns
    <3>3. e # c
      <4> SUFFICES ASSUME e = c PROVE FALSE
        OBVIOUS
      <4>1. PICK i \in 1..regd[c] : MetricsOf[c][i] = MetricsOf[c][j]
        BY <3>2
      <4>2. i \in 1..Len(MetricsOf[c]) /\ i # j
        BY <1>0, <3>1, <4>1 DEF IInv, TypeInv, TypeOK
      <4> QED
        BY <3>1, <4>1, <4>2 DEF Uncontested
    <3>4. e # Free
      BY ConstantsAssumption DEF ConstantsAssumption, Twins
    <3> QED
      BY <2>1, <3>2, <3>3, <3>4
  <2> QED
    BY <2>1, <2>2, <2>3
<1>4. ASSUME NEW d \in Collectors, Begin(d) \/ Spawn(d) \/ Push(d) \/ Count(d)
      PROVE  owner'[MetricsOf[c][1]] \notin {Free, c}
  <2>1. owner' = owner /\ call[c] = "err"
    BY <1>4 DEF Begin, Spawn, Push, Count, IInv, TypeInv, TypeOK
  <2> QED
    BY <2>1 DEF FailedToATwin
<1>5. ASSUME NEW d \in Collectors, TaskStep(d)
      PROVE  owner'[MetricsOf[c][1]] \notin {Free, c}
  BY <1>1, <1>5 DEF TaskStep, OnCpu, CancelParked, FirstPoll, TickReady, TickPending,
     TickFires, AwaitReady, AwaitPending, Answer, CollectReturn, CollectPanic, addVars
<1>6. ASSUME NEW s \in Stoppers, ShutBegin(s) \/ ShutStep(s)
      PROVE  owner'[MetricsOf[c][1]] \notin {Free, c}
  BY <1>1, <1>6 DEF ShutStep, ShutBegin, ShutAbort, ShutEnd, addVars
<1>7. CASE UNCHANGED vars
  BY <1>1, <1>7 DEF vars
<1> QED
  BY <1>2, <1>3, <1>4, <1>5, <1>6, <1>7 DEF Next, AddStep

\* Of identical collectors added concurrently exactly one is accepted: the twins
\* cannot knock each other out, however many there are.
THEOREM SpecExactlyOneTwin == Spec => []ExactlyOneTwin
<1>1. IInv /\ FailedToATwin => ExactlyOneTwin
  <2> SUFFICES ASSUME IInv, FailedToATwin, NEW c \in Collectors, Uncontested(c),
                      \A d \in Twins(c) : call[d] \in {"ok", "err"}
               PROVE  \E w \in Twins(c) : \A d \in Twins(c) : call[d] = "ok" <=> d = w
    BY DEF ExactlyOneTwin
  <2> DEFINE first == MetricsOf[c][1]
  <2>1. 1 \in 1..Len(MetricsOf[c]) /\ c \in Twins(c)
    BY NamesAreMetrics, ConstantsAssumption DEF Uncontested, Twins, ConstantsAssumption
  <2>2. ASSUME NEW d \in Twins(c), call[d] = "ok" PROVE owner[first] = d
    <3>1. d \in Collectors /\ MetricsOf[d] = MetricsOf[c]
      BY DEF Twins
    <3>2. regd[d] = Len(MetricsOf[c])
      BY <2>2, <3>1 DEF IInv, TypeInv, Polling, SpawnedComplete
    <3> QED
      BY <2>1, <3>1, <3>2 DEF IInv, Owned
  <2>3. PICK w \in Twins(c) : owner[first] = w
    <3>1. CASE call[c] = "ok"
      BY <2>1, <2>2, <3>1
    <3>2. CASE call[c] = "err"
      BY <2>1, <3>2, TwinOwns DEF FailedToATwin
    <3> QED
      BY <2>1, <3>1, <3>2
  <2>4. Uncontested(w) /\ MetricsOf[w] = MetricsOf[c] /\ w \in Collectors
    <3>1. MetricsOf[w] = MetricsOf[c] /\ w \in Collectors
      BY <2>3 DEF Twins
    <3>2. Twins(w) = Twins(c) /\ Names(w) = Names(c)
      BY <3>1 DEF Twins, Names
    <3> QED
      BY <3>1, <3>2 DEF Uncontested
  <2>5. call[w] = "ok"
    BY <2>3, <2>4 DEF FailedToATwin
  <2> QED
    BY <2>2, <2>3, <2>5
<1>2. Init => FailedToATwin
  BY DEF Init, FailedToATwin
<1> QED
  BY <1>1, <1>2, FailedToATwinStep, Invariance, PTL DEF Spec

-----------------------------------------------------------------------------
(* Refinement *)

\* A step of one loop, or abort() of one handle, is Start, Stop, End or a stutter.
LEMMA LoopStepImplements ==
    ASSUME TypeInv, TypeInv', NEW c \in Collectors, UNCHANGED stop,
           \A d \in Collectors \ {c} :
              task'[d] = task[d] /\ (d \in aborted' <=> d \in aborted),
           \/ task[c] = "none" /\ task'[c] = "none"
           \/ task[c] \in Running /\ task'[c] \in Ended
           \/ task[c] \in Ended /\ task'[c] \in Ended
           \/ task[c] \in Running /\ task'[c] \in Running /\ (c \in aborted => c \in aborted')
    PROVE  [Contract!ContractNext]_(Contract!cvars)
<1> USE DEF TypeInv, TypeOK, Running, Ended
<1> DEFINE st1 == AbstractState
           st2 == AbstractState'
<1>1. /\ st1 = [d \in Collectors |-> Abstraction(task[d], d \in aborted)]
      /\ st2 = [d \in Collectors |-> Abstraction(task'[d], d \in aborted')]
  BY DEF AbstractState, Abstraction
<1>2. ASSUME NEW d \in Collectors, d # c PROVE st2[d] = st1[d]
  <2>1. task'[d] = task[d] /\ (d \in aborted' <=> d \in aborted)
    BY <1>2
  <2>2. Abstraction(task'[d], d \in aborted') = Abstraction(task[d], d \in aborted)
    BY <2>1, Zenon DEF Abstraction
  <2> QED
    BY <1>1, <2>2
<1>3. \/ st2[c] = st1[c]
      \/ st1[c] = "running" /\ st2[c] = "stopping"
      \/ st1[c] \in {"running", "stopping"} /\ st2[c] = "ended"
  BY <1>1 DEF Abstraction
<1>4. st2 = [st1 EXCEPT ![c] = st2[c]]
  BY <1>1, <1>2
<1>5. UNCHANGED (stop[Dropper] = "returned")
  OBVIOUS
<1>6. CASE st2[c] = st1[c]
  <2>1. st2 = st1
    BY <1>1, <1>2, <1>6
  <2> QED
    BY <1>5, <2>1 DEF Contract!cvars
<1>7. CASE st1[c] = "running" /\ st2[c] = "stopping"
  <2>1. Contract!Stop(c)
    BY <1>4, <1>5, <1>7 DEF Contract!Stop
  <2> QED
    BY <2>1 DEF Contract!ContractNext
<1>8. CASE st1[c] \in {"running", "stopping"} /\ st2[c] = "ended"
  <2>1. Contract!End(c)
    BY <1>4, <1>5, <1>8 DEF Contract!End
  <2> QED
    BY <2>1 DEF Contract!ContractNext
<1> QED
  BY <1>3, <1>6, <1>7, <1>8

\* What one poll does to a loop: it stays alive or it ends.
LEMMA TaskMoves ==
    ASSUME TypeInv, NEW c \in Collectors, TaskStep(c)
    PROVE  /\ UNCHANGED <<stop, aborted>>
           /\ \A d \in Collectors \ {c} : task'[d] = task[d]
           /\ task[c] \in Running /\ task'[c] \in Running \cup Ended
<1> USE DEF TypeInv, TypeOK, Polling, Running, Ended, Parked, Live, StartCollect, Park
<1>1. CASE CancelParked(c)
  BY <1>1 DEF CancelParked
<1>2. CASE FirstPoll(c)
  BY <1>2 DEF FirstPoll
<1>3. CASE TickFires(c)
  BY <1>3 DEF TickFires
<1>4. CASE Answer(c)
  BY <1>4 DEF Answer
<1>5. CASE TickReady(c) \/ TickPending(c)
  BY <1>5 DEF TickReady, TickPending
<1>6. CASE AwaitReady(c) \/ AwaitPending(c)
  BY <1>6 DEF AwaitReady, AwaitPending
<1>7. ASSUME NEW r \in {"ok", "err"}, CollectReturn(c, r)
      PROVE  /\ UNCHANGED <<stop, aborted>>
             /\ \A d \in Collectors \ {c} : task'[d] = task[d]
             /\ task[c] \in Running /\ task'[c] \in Running \cup Ended
  BY <1>7 DEF CollectReturn
<1>8. CASE CollectPanic(c)
  BY <1>8 DEF CollectPanic
<1> QED
  BY <1>1, <1>2, <1>3, <1>4, <1>5, <1>6, <1>7, <1>8 DEF TaskStep, OnCpu

\* spawn is Start: no loop of a conflicting collector exists or existed, because
\* every metric of the new one is exported from its own cells.
LEMMA SpawnImplements ==
    ASSUME IInv, NEW c \in Collectors, Spawn(c)
    PROVE  Contract!Start(c)
<1> DEFINE st1 == AbstractState
           st2 == AbstractState'
<1> USE DEF IInv, TypeInv, TypeOK, Polling, Running, Ended
<1>1. /\ call[c] = "registering" /\ regd[c] = Len(MetricsOf[c]) /\ task[c] = "none"
      /\ task' = [task EXCEPT ![c] = "fresh"] /\ UNCHANGED <<stop, aborted>>
  BY DEF Spawn
<1>2. /\ st1 = [d \in Collectors |-> Abstraction(task[d], d \in aborted)]
      /\ st2 = [d \in Collectors |-> Abstraction(task'[d], d \in aborted')]
  BY DEF AbstractState, Abstraction
<1>3. ~(stop[Dropper] = "returned") /\ UNCHANGED (stop[Dropper] = "returned")
  BY <1>1 DEF Exclusive, InCall
<1>4. ASSUME NEW d \in Collectors, st1[d] # "absent" PROVE <<c, d>> \notin ConflictPairs
  <2>1. task[d] # "none" /\ c # d
    BY <1>1, <1>2, <1>4 DEF Abstraction
  <2>2. \A m \in Names(d) : owner[m] = d
    BY <2>1 DEF Owned, SpawnedComplete, Names
  <2>3. \A m \in Names(c) : owner[m] = c
    BY <1>1 DEF Owned, Names
  <2> QED
    <3>1. Names(c) \cap Names(d) = {}
      BY <2>1, <2>2, <2>3
    <3> QED
      BY <3>1 DEF ConflictPairs
<1>5. c \notin aborted
  BY <1>1 DEF Listed
<1>6. /\ st1[c] = "absent" /\ st2[c] = "running"
      /\ \A d \in Collectors \ {c} : st2[d] = st1[d]
  <2>1. task[c] = "none" /\ task'[c] = "fresh" /\ c \notin aborted'
    BY <1>1, <1>5
  <2>2. \A d \in Collectors \ {c} : task'[d] = task[d] /\ aborted' = aborted
    BY <1>1
  <2> HIDE DEF IInv, TypeInv, TypeOK, Polling
  <2>3. st1[c] = "absent" /\ st2[c] = "running"
    BY <1>2, <2>1 DEF Abstraction
  <2>4. ASSUME NEW d \in Collectors \ {c} PROVE st2[d] = st1[d]
    BY <1>2, <2>2
  <2> QED
    BY <2>3, <2>4
<1>7. st2 = [st1 EXCEPT ![c] = "running"]
  <2> HIDE DEF IInv, TypeInv, TypeOK, Polling
  <2> QED
    BY <1>2, <1>6
<1> QED
  BY <1>3, <1>4, <1>6, <1>7 DEF Contract!Start

\* The end of Drop is Close: every loop was told to stop.
LEMMA DropEndImplements ==
    ASSUME IInv, ShutEnd(Dropper)
    PROVE  Contract!Close
<1> USE DEF IInv, TypeInv, TypeOK, Polling, Running, Ended
<1>1. /\ stop[Dropper] = "draining" /\ handles = {} /\ UNCHANGED <<task, aborted>>
      /\ stop' = [stop EXCEPT ![Dropper] = "returned"]
  BY DEF ShutEnd, taskVars
<1>2. \A c \in Collectors : task[c] # "none" => c \in aborted
  BY <1>1 DEF Exclusive, Listed, InCall
<1>3. \A c \in Collectors : AbstractState[c] # "running"
  BY <1>2 DEF AbstractState, Abstraction
<1>4. UNCHANGED AbstractState
  BY <1>1 DEF AbstractState
<1>5. stop'[Dropper] = "returned"
  BY <1>1 DEF Stoppers
<1> QED
  BY <1>1, <1>3, <1>4, <1>5 DEF Contract!Close

\* Every step of the lifecycle is a step or a stutter of the contract.
LEMMA NextImplements ==
    ASSUME IInv, IInv', [Next]_vars
    PROVE  [Contract!ContractNext]_(Contract!cvars)
<1> USE DEF IInv, TypeInv, TypeOK
<1>1. ASSUME UNCHANGED <<task, aborted>>, UNCHANGED (stop[Dropper] = "returned")
      PROVE  UNCHANGED Contract!cvars
  BY <1>1 DEF Contract!cvars, AbstractState
<1>2. ASSUME NEW c \in Collectors,
             Begin(c) \/ RegisterOne(c) \/ RegisterFail(c) \/ Push(c) \/ Count(c)
      PROVE  UNCHANGED Contract!cvars
  BY <1>1, <1>2 DEF Begin, RegisterOne, RegisterFail, Push, Count, taskVars
<1>3. ASSUME NEW c \in Collectors, Spawn(c) PROVE Contract!ContractNext
  BY <1>3, SpawnImplements DEF Contract!ContractNext
<1>4. ASSUME NEW c \in Collectors, TaskStep(c)
      PROVE  [Contract!ContractNext]_(Contract!cvars)
  <2>1. /\ UNCHANGED stop
        /\ \A d \in Collectors \ {c} :
              task'[d] = task[d] /\ (d \in aborted' <=> d \in aborted)
        /\ \/ task[c] \in Running /\ task'[c] \in Ended
           \/ task[c] \in Running /\ task'[c] \in Running /\ (c \in aborted => c \in aborted')
    BY <1>4, TaskMoves
  <2> QED
    BY <2>1, LoopStepImplements
<1>5. ASSUME NEW s \in Stoppers, ShutBegin(s) PROVE UNCHANGED Contract!cvars
  <2>1. UNCHANGED <<task, aborted>> /\ UNCHANGED (stop[Dropper] = "returned")
    BY <1>5 DEF ShutBegin, taskVars, Stoppers
  <2> QED
    BY <1>1, <2>1
<1>6. ASSUME NEW s \in Stoppers, NEW c \in Collectors, ShutAbort(s, c)
      PROVE  [Contract!ContractNext]_(Contract!cvars)
  <2>1. UNCHANGED <<task, stop>> /\ aborted' = aborted \cup {c} /\ task[c] # "none"
    BY <1>6 DEF ShutAbort, taskVars, Listed
  <2>2. task[c] \in Running \/ task[c] \in Ended
    BY <2>1
  <2> QED
    BY <2>1, <2>2, LoopStepImplements
<1>7. ASSUME NEW s \in Stoppers, ShutEnd(s)
      PROVE  [Contract!ContractNext]_(Contract!cvars)
  <2>1. CASE s = Dropper
    BY <1>7, <2>1, DropEndImplements DEF Contract!ContractNext
  <2>2. CASE s # Dropper
    <3>1. UNCHANGED <<task, aborted>> /\ UNCHANGED (stop[Dropper] = "returned")
      BY <1>7, <2>2 DEF ShutEnd, taskVars, Stoppers
    <3> QED
      BY <1>1, <3>1
  <2> QED
    BY <2>1, <2>2
<1>8. CASE UNCHANGED vars
  BY <1>1, <1>8 DEF vars
<1> QED
  BY <1>2, <1>3, <1>4, <1>5, <1>6, <1>7, <1>8 DEF Next, AddStep, ShutStep

\* The lifecycle implements the contract: for every instance, loops start without
\* conflict, stop only when told to or by a panic, and none runs on after Drop.
THEOREM SpecImplementsContract == Spec => ImplementsContract
<1>1. Init => Contract!ContractInit
  <2> SUFFICES ASSUME Init PROVE Contract!ContractInit
    OBVIOUS
  <2>1. AbstractState = [c \in Collectors |-> "absent"]
    <3>1. ASSUME NEW c \in Collectors
          PROVE  Abstraction(task[c], c \in aborted) = "absent"
      <4>1. task[c] = "none" /\ c \notin aborted
        BY DEF Init
      <4> QED
        BY <4>1 DEF Abstraction, Ended
    <3> QED
      BY <3>1 DEF AbstractState
  <2>2. (stop[Dropper] = "returned") = FALSE
    BY DEF Init, Stoppers
  <2> QED
    BY <2>1, <2>2 DEF Contract!ContractInit
<1>2. IInv /\ IInv' /\ [Next]_vars => [Contract!ContractNext]_(Contract!cvars)
  BY NextImplements
<1> QED
  BY <1>1, <1>2, Invariance, PTL
     DEF Spec, ImplementsContract, Contract!ContractSpec
=============================================================================
