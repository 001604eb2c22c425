------------------------ MODULE CollectorLifecycle ------------------------
(***************************************************************************)
(* The life of the background collectors of one PrometheusMetrics          *)
(* (dr-metrix-axum/src/state.rs) and of the loop each of them runs         *)
(* (dr-metrix-core/src/collector.rs), from build() to Drop.                *)
(*                                                                         *)
(* Three kinds of actors interleave:                                       *)
(*  - one caller per collector, inside add_collector(&self, ..): register  *)
(*    its metrics one by one, spawn the loop, push the handle, count it;   *)
(*  - the tokio workers polling the spawned loops.  A task stops only at   *)
(*    an await that returns Pending, or when it is not being polled;       *)
(*  - callers of shutdown(&self), and Drop, which calls it too.            *)
(***************************************************************************)
EXTENDS Naturals, Sequences, FiniteSets

CONSTANTS
    Collectors,    \* collector values; add_collector consumes each at most once
    Metrics,       \* metric names (fully qualified, as the registry keys them)
    Builtin,       \* names build() registers: process and HTTP metrics
    MetricsOf,     \* MetricsOf[c]: what c.register registers, in that order
    Awaits,        \* Awaits[c]: number of awaits in one collect() of c
    ZeroInterval,  \* collectors added with Duration::ZERO
    Unresponsive,  \* collectors whose backend may never answer
    Panicky,       \* collectors whose collect() may panic
    Shutters,      \* callers of shutdown()
    Dropper,       \* the thread that drops the last Arc<PrometheusMetrics>
    Host,          \* registrant of the built-in metrics
    Free           \* no owner, no lock holder

ASSUME ConstantsAssumption ==
    /\ IsFiniteSet(Collectors)
    /\ Builtin \subseteq Metrics
    /\ MetricsOf \in [Collectors -> Seq(Metrics)]
    /\ Awaits \in [Collectors -> Nat]
    /\ ZeroInterval \subseteq Collectors
    /\ Unresponsive \subseteq Collectors
    /\ Panicky \subseteq Collectors
    /\ Dropper \notin Shutters
    /\ Host \notin Collectors
    /\ Free \notin Collectors \cup Shutters \cup {Dropper, Host}

VARIABLES
    owner,    \* registry: whose cell is exported under each name
    call,     \* where each add_collector call is
    regd,     \* how many of its metrics each call has registered
    handles,  \* PrometheusMetrics.handles: the JoinHandles, by collector
    lock,     \* holder of the mutex around handles
    count,    \* PrometheusMetrics.collector_count
    stop,     \* where each shutdown call is
    task,     \* the spawned loop of each collector
    on,       \* tasks a worker is polling now
    left,     \* awaits still ahead in the collect() under way
    aborted   \* tasks whose abort flag is set

addVars  == <<owner, call, regd, count>>
taskVars == <<task, on, left>>
vars == <<owner, call, regd, handles, lock, count, stop, task, on, left, aborted>>

Stoppers == Shutters \cup {Dropper}
Ended    == {"cancelled", "panicked"}
Running  == {"fresh", "ticking", "collecting"}
Live(c)  == task[c] \in Running
Names(c) == {MetricsOf[c][i] : i \in 1..Len(MetricsOf[c])}

\* /health and collector_count(): the number they report.
ReportedCollectors == count

TypeOK ==
    /\ owner \in [Metrics -> Collectors \cup {Host, Free}]
    /\ call \in [Collectors -> {"idle", "registering", "pushing", "counting", "ok", "err"}]
    /\ regd \in [Collectors -> Nat]
    /\ \A c \in Collectors : regd[c] <= Len(MetricsOf[c])
    /\ handles \subseteq Collectors
    /\ lock \in Stoppers \cup {Free}
    /\ count \in Nat
    /\ stop \in [Stoppers -> {"idle", "draining", "returned"}]
    /\ task \in [Collectors -> {"none"} \cup Running \cup Ended]
    /\ on \subseteq Collectors
    /\ left \in [Collectors -> Nat]
    /\ aborted \subseteq Collectors

\* PrometheusMetricsBuilder::build: a registry with the built-in metrics only.
Init ==
    /\ owner = [m \in Metrics |-> IF m \in Builtin THEN Host ELSE Free]
    /\ call = [c \in Collectors |-> "idle"]
    /\ regd = [c \in Collectors |-> 0]
    /\ handles = {}
    /\ lock = Free
    /\ count = 0
    /\ stop = [s \in Stoppers |-> "idle"]
    /\ task = [c \in Collectors |-> "none"]
    /\ on = {}
    /\ left = [c \in Collectors |-> 0]
    /\ aborted = {}

-----------------------------------------------------------------------------
(* add_collector *)

\* The call borrows the object, so it cannot begin once Drop has.
Begin(c) ==
    /\ call[c] = "idle"
    /\ stop[Dropper] = "idle"
    /\ call' = [call EXCEPT ![c] = "registering"]
    /\ UNCHANGED <<owner, regd, count, handles, lock, stop, aborted, taskVars>>

NextName(c) == MetricsOf[c][regd[c] + 1]

MoreToRegister(c) == call[c] = "registering" /\ regd[c] < Len(MetricsOf[c])

\* One Registry::register: refused when the name is taken, whoever took it.
\* Mutation: the name is overwritten instead.
RegisterOneOverwriting(c) ==
    /\ MoreToRegister(c)
    /\ owner' = [owner EXCEPT ![NextName(c)] = c]
    /\ regd' = [regd EXCEPT ![c] = @ + 1]
    /\ UNCHANGED <<call, count, handles, lock, stop, aborted, taskVars>>

RegisterOne(c) ==
    /\ MoreToRegister(c)
    /\ owner[NextName(c)] = Free
    /\ owner' = [owner EXCEPT ![NextName(c)] = c]
    /\ regd' = [regd EXCEPT ![c] = @ + 1]
    /\ UNCHANGED <<call, count, handles, lock, stop, aborted, taskVars>>

\* AlreadyReg: `?` returns at once; what was registered before it stays.
RegisterFail(c) ==
    /\ MoreToRegister(c)
    /\ owner[NextName(c)] # Free
    /\ call' = [call EXCEPT ![c] = "err"]
    /\ UNCHANGED <<owner, regd, count, handles, lock, stop, aborted, taskVars>>

\* Mutation: the loop is spawned before the metrics are registered.
SpawnEarly(c) ==
    /\ call[c] = "registering"
    /\ call' = [call EXCEPT ![c] = "pushing"]
    /\ task' = [task EXCEPT ![c] = "fresh"]
    /\ UNCHANGED <<owner, regd, count, handles, lock, stop, aborted, on, left>>

Spawn(c) ==
    /\ call[c] = "registering"
    /\ regd[c] = Len(MetricsOf[c])
    /\ call' = [call EXCEPT ![c] = "pushing"]
    /\ task' = [task EXCEPT ![c] = "fresh"]
    /\ UNCHANGED <<owner, regd, count, handles, lock, stop, aborted, on, left>>

\* Mutation: the JoinHandle is dropped, which detaches the task.
PushNothing(c) ==
    /\ call[c] = "pushing"
    /\ lock = Free
    /\ call' = [call EXCEPT ![c] = "counting"]
    /\ UNCHANGED <<owner, regd, count, handles, lock, stop, aborted, taskVars>>

Push(c) ==
    /\ call[c] = "pushing"
    /\ lock = Free
    /\ handles' = handles \cup {c}
    /\ call' = [call EXCEPT ![c] = "counting"]
    /\ UNCHANGED <<owner, regd, count, lock, stop, aborted, taskVars>>

Count(c) ==
    /\ call[c] = "counting"
    /\ count' = count + 1
    /\ call' = [call EXCEPT ![c] = "ok"]
    /\ UNCHANGED <<owner, regd, handles, lock, stop, aborted, taskVars>>

AddStep(c) == RegisterOne(c) \/ RegisterFail(c) \/ Spawn(c) \/ Push(c) \/ Count(c)

-----------------------------------------------------------------------------
(* shutdown and Drop *)

InCall(c) == call[c] \in {"registering", "pushing", "counting"}

\* Lock the list.  Drop has &mut self: no other call can be under way.
ShutBegin(s) ==
    /\ stop[s] = "idle"
    /\ lock = Free
    /\ IF s = Dropper
         THEN /\ \A c \in Collectors : ~InCall(c)
              /\ \A t \in Shutters : stop[t] # "draining"
         ELSE stop[Dropper] = "idle"
    /\ lock' = s
    /\ stop' = [stop EXCEPT ![s] = "draining"]
    /\ UNCHANGED <<addVars, handles, aborted, taskVars>>

\* drain(..) takes one handle and abort() sets the task's flag.
\* Mutation: the handle is taken and dropped without abort().
ShutAbortNothing(s, c) ==
    /\ stop[s] = "draining"
    /\ c \in handles
    /\ handles' = handles \ {c}
    /\ UNCHANGED <<addVars, lock, stop, aborted, taskVars>>

\* Mutation: the counter goes down with each handle, as "active" collectors suggests.
ShutAbortDiscounts(s, c) ==
    /\ stop[s] = "draining"
    /\ c \in handles
    /\ handles' = handles \ {c}
    /\ aborted' = aborted \cup {c}
    /\ count' = count - 1
    /\ UNCHANGED <<owner, call, regd, lock, stop, taskVars>>

ShutAbort(s, c) ==
    /\ stop[s] = "draining"
    /\ c \in handles
    /\ handles' = handles \ {c}
    /\ aborted' = aborted \cup {c}
    /\ UNCHANGED <<addVars, lock, stop, taskVars>>

\* Mutation: the guard is leaked, so the mutex stays locked.
ShutEndLocked(s) ==
    /\ stop[s] = "draining"
    /\ handles = {}
    /\ stop' = [stop EXCEPT ![s] = "returned"]
    /\ UNCHANGED <<addVars, lock, handles, aborted, taskVars>>

\* Mutation: only the first handle is drained.
ShutEndEarly(s) ==
    /\ stop[s] = "draining"
    /\ lock' = Free
    /\ stop' = [stop EXCEPT ![s] = "returned"]
    /\ UNCHANGED <<addVars, handles, aborted, taskVars>>

ShutEnd(s) ==
    /\ stop[s] = "draining"
    /\ handles = {}
    /\ lock' = Free
    /\ stop' = [stop EXCEPT ![s] = "returned"]
    /\ UNCHANGED <<addVars, handles, aborted, taskVars>>

ShutStep(s) == (\E c \in Collectors : ShutAbort(s, c)) \/ ShutEnd(s)

-----------------------------------------------------------------------------
(* The spawned task: spawn_collect_loop, as the tokio workers poll it *)

\* The poll returns Pending: a task whose flag is set is dropped there.
Park(c, phase) ==
    /\ on' = on \ {c}
    /\ task' = [task EXCEPT ![c] = IF c \in aborted THEN "cancelled" ELSE phase]

Parked(c) == Live(c) /\ c \notin on

\* A task that is not being polled is dropped without running again.
CancelParked(c) ==
    /\ Parked(c) /\ c \in aborted
    /\ task' = [task EXCEPT ![c] = "cancelled"]
    /\ UNCHANGED <<addVars, handles, lock, stop, aborted, on, left>>

\* tokio::time::interval panics on a zero period.
FirstPoll(c) ==
    /\ Parked(c) /\ c \notin aborted
    /\ task[c] = "fresh"
    /\ IF c \in ZeroInterval
         THEN task' = [task EXCEPT ![c] = "panicked"] /\ UNCHANGED on
         ELSE task' = [task EXCEPT ![c] = "ticking"] /\ on' = on \cup {c}
    /\ UNCHANGED <<addVars, handles, lock, stop, aborted, left>>

StartCollect(c) ==
    /\ task' = [task EXCEPT ![c] = "collecting"]
    /\ left' = [left EXCEPT ![c] = Awaits[c]]
    /\ on' = on \cup {c}

TickReady(c) ==
    /\ c \in on /\ task[c] = "ticking"
    /\ StartCollect(c)
    /\ UNCHANGED <<addVars, handles, lock, stop, aborted>>

TickPending(c) ==
    /\ c \in on /\ task[c] = "ticking"
    /\ Park(c, "ticking")
    /\ UNCHANGED <<addVars, handles, lock, stop, aborted, left>>

TickFires(c) ==
    /\ Parked(c) /\ c \notin aborted
    /\ task[c] = "ticking"
    /\ StartCollect(c)
    /\ UNCHANGED <<addVars, handles, lock, stop, aborted>>

\* An await inside collect(): ready at once, or pending until the backend answers.
AwaitReady(c) ==
    /\ c \in on /\ task[c] = "collecting" /\ left[c] > 0
    /\ left' = [left EXCEPT ![c] = @ - 1]
    /\ UNCHANGED <<addVars, handles, lock, stop, aborted, task, on>>

AwaitPending(c) ==
    /\ c \in on /\ task[c] = "collecting" /\ left[c] > 0
    /\ Park(c, "collecting")
    /\ UNCHANGED <<addVars, handles, lock, stop, aborted, left>>

Answer(c) ==
    /\ Parked(c) /\ c \notin aborted
    /\ task[c] = "collecting"
    /\ on' = on \cup {c}
    /\ left' = [left EXCEPT ![c] = @ - 1]
    /\ UNCHANGED <<addVars, handles, lock, stop, aborted, task>>

\* collect() returns; an error is logged and the loop goes on.
\* Mutation: an error breaks the loop, and its task ends as it does by a panic.
CollectReturnBreaks(c, r) ==
    /\ c \in on /\ task[c] = "collecting"
    /\ r = "ok" => left[c] = 0
    /\ task' = [task EXCEPT ![c] = IF r = "ok" THEN "ticking" ELSE "panicked"]
    /\ on' = IF r = "ok" THEN on ELSE on \ {c}
    /\ UNCHANGED <<addVars, handles, lock, stop, aborted, left>>

CollectReturn(c, r) ==
    /\ c \in on /\ task[c] = "collecting"
    /\ r = "ok" => left[c] = 0
    /\ task' = [task EXCEPT ![c] = "ticking"]
    /\ UNCHANGED <<addVars, handles, lock, stop, aborted, on, left>>

CollectPanic(c) ==
    /\ c \in Panicky
    /\ c \in on /\ task[c] = "collecting"
    /\ task' = [task EXCEPT ![c] = "panicked"]
    /\ on' = on \ {c}
    /\ UNCHANGED <<addVars, handles, lock, stop, aborted, left>>

OnCpu(c) ==
    \/ TickReady(c) \/ TickPending(c)
    \/ AwaitReady(c) \/ AwaitPending(c)
    \/ \E r \in {"ok", "err"} : CollectReturn(c, r)
    \/ CollectPanic(c)

TaskStep(c) == CancelParked(c) \/ FirstPoll(c) \/ TickFires(c) \/ Answer(c) \/ OnCpu(c)

-----------------------------------------------------------------------------
Next ==
    \/ \E c \in Collectors : Begin(c) \/ AddStep(c) \/ TaskStep(c)
    \/ \E s \in Stoppers : ShutBegin(s) \/ ShutStep(s)

Spec == Init /\ [][Next]_vars

(***************************************************************************)
(* Fairness.  Threads inside add_collector and shutdown keep running, the  *)
(* workers keep polling what is ready and the timer fires; none of that    *)
(* makes anyone call anything.  A responsive backend answers.  SF on       *)
(* TickPending: tokio's cooperative budget makes the timer return Pending  *)
(* to a task that has found it ready too many times in one poll.           *)
(***************************************************************************)
Fairness ==
    /\ \A s \in Stoppers : WF_vars(ShutStep(s))
    /\ \A c \in Collectors :
          /\ WF_vars(AddStep(c))
          /\ WF_vars(CancelParked(c)) /\ WF_vars(FirstPoll(c)) /\ WF_vars(TickFires(c))
          /\ WF_vars(OnCpu(c)) /\ SF_vars(TickPending(c))
    /\ \A c \in Collectors \ Unresponsive : WF_vars(Answer(c))

FairSpec == Spec /\ Fairness

-----------------------------------------------------------------------------
(* Safety *)

\* A loop exists only when every metric it writes is exported, from its own
\* cells: add_collector spawns after register() has succeeded (state.rs:56-58).
RunningIsExposed ==
    \A c \in Collectors : task[c] # "none" => \A m \in Names(c) : owner[m] = c

\* However calls interleave, no two loops ever write metrics of the same name,
\* not even one after the other: clones share cells, so two loops would race.
OneLoopPerMetric ==
    \A c, d \in Collectors :
        c # d /\ task[c] # "none" /\ task[d] # "none" => Names(c) \cap Names(d) = {}

\* The handle of a spawned loop is out of reach of shutdown() only between
\* spawn and push (state.rs:58-63); afterwards it is listed or was aborted.
NoLostHandle ==
    \A c \in Collectors :
        task[c] # "none" /\ call[c] # "pushing" => c \in handles \cup aborted

\* /health never counts more collectors than shutdown can stop or has stopped:
\* the handle is pushed before the counter is incremented (state.rs:60-64).
CountedAreStoppable == ReportedCollectors <= Cardinality(handles \cup aborted)

\* When Drop has returned, no loop is left that was not told to stop.
DropStopsAll ==
    stop[Dropper] = "returned" => \A c \in Collectors : Live(c) => c \in aborted

\* Of several identical collectors that conflict with nothing else, exactly one
\* is accepted once all calls have returned, whatever the interleaving of their
\* register() loops: they cannot knock each other out.
Twins(c) == {d \in Collectors : MetricsOf[d] = MetricsOf[c]}

Uncontested(c) ==
    /\ MetricsOf[c] # <<>>
    /\ \A i, j \in 1..Len(MetricsOf[c]) : MetricsOf[c][i] = MetricsOf[c][j] => i = j
    /\ Names(c) \cap Builtin = {}
    /\ \A d \in Collectors \ Twins(c) : Names(c) \cap Names(d) = {}

ExactlyOneTwin ==
    \A c \in Collectors :
        Uncontested(c) /\ (\A d \in Twins(c) : call[d] \in {"ok", "err"})
            => \E w \in Twins(c) : \A d \in Twins(c) : (call[d] = "ok") <=> (d = w)

\* The lifecycle implements the abstract contract.
ConflictPairs ==
    {p \in Collectors \X Collectors : p[1] # p[2] /\ Names(p[1]) \cap Names(p[2]) # {}}

Abstraction(phase, told) ==
    CASE phase = "none"  -> "absent"
      [] phase \in Ended -> "ended"
      [] OTHER           -> IF told THEN "stopping" ELSE "running"

AbstractState == [c \in Collectors |-> Abstraction(task[c], c \in aborted)]

Contract == INSTANCE CollectorContract
                WITH Conflicts <- ConflictPairs, st <- AbstractState,
                     closed <- (stop[Dropper] = "returned")

ImplementsContract == Contract!ContractSpec

-----------------------------------------------------------------------------
(* Liveness, under FairSpec *)

\* Every handle in the list when a shutdown() or Drop locks it belongs to a
\* loop that ends, even while its backend never answers: awaits are where a
\* task is cancelled.
DrainedStop ==
    \A c \in Collectors : (c \in handles /\ lock # Free) ~> ~Live(c)

\* A loop collects again and again until it is aborted: no error ends it, and neither a
\* dead loop nor a stuck backend of another collector delays it.  Only a collect() that
\* panics, an interval of zero or a backend that never answers does (collector.rs:44-56).
KeepsCollecting ==
    \A c \in Collectors \ (Unresponsive \cup Panicky \cup ZeroInterval) :
        /\ task[c] # "none" ~> task[c] = "collecting" \/ c \in aborted
        /\ task[c] # "none" ~> task[c] = "ticking" \/ c \in aborted

\* add_collector never hangs: the mutex it takes is always released.
AddReturns == \A c \in Collectors : InCall(c) ~> ~InCall(c)

-----------------------------------------------------------------------------
(* What the comments claim and the code does not do *)

\* state.rs:75 "Gracefully abort all background collector tasks": no loop that
\* exists when shutdown() returns is left without an abort.
ShutdownAbortsAll ==
    [][\A s \in Stoppers : stop[s] = "draining" /\ stop'[s] = "returned"
          => \A c \in Collectors : Live(c)' => c \in aborted']_vars
=============================================================================
