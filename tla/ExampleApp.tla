----------------------------- MODULE ExampleApp -----------------------------
(***************************************************************************)
(* The example application (examples/src/main.rs), the one composition of  *)
(* the crates in the repository: main starts a collector for each backend  *)
(* that is configured, serves requests, and on a signal stops collectors,  *)
(* then the server, then itself.  The collectors are those of              *)
(* CollectorLifecycle; this module says when main lets each of their steps *)
(* happen and adds what the process has besides them.                      *)
(***************************************************************************)
EXTENDS CollectorLifecycle

CONSTANTS
    Order,       \* the backends, in the order main starts them
    OnBlocking,  \* backends whose queries run on a blocking thread (deadpool, r2d2)
    Requests,
    Uses,        \* Uses[r]: the backend whose metrics the handler of r observes
    Awaiting,    \* requests whose handler awaits that backend (counter_op, not list_users)
    Signal       \* the caller of shutdown() in shutdown_signal

ASSUME AppAssumption ==
    /\ Order \in Seq(Collectors)
    /\ \A c \in Collectors : \E i \in 1..Len(Order) : Order[i] = c
    /\ OnBlocking \subseteq Collectors
    /\ Uses \in [Requests -> Collectors]
    /\ Awaiting \subseteq Requests
    /\ Shutters = {Signal}

VARIABLES
    configured,  \* backends whose URL is in the environment
    main,        \* where main is
    next,        \* index in Order of the backend it starts
    signal,      \* where shutdown_signal is
    closure,     \* backends with a query on a blocking thread
    req,         \* where each request is
    samples      \* backends whose application-level histograms have samples

appVars == <<configured, main, next, signal, closure, req, samples>>
allVars == <<vars, appVars>>

Handling == {r \in Requests : req[r] = "handling"}

AppTypeOK ==
    /\ configured \subseteq Collectors
    /\ main \in {"starting", "serving", "draining", "returned", "failed", "exiting", "exited"}
    /\ next \in 1..(Len(Order) + 1)
    /\ signal \in {"waiting", "received", "ended"}
    /\ closure \subseteq OnBlocking \cap configured
    /\ req \in [Requests -> {"none", "handling", "answered", "dropped"}]
    /\ samples \subseteq configured

AppInit ==
    /\ Init
    /\ configured \in SUBSET Collectors
    /\ main = "starting" /\ next = 1
    /\ signal = "waiting"
    /\ closure = {}
    /\ req = [r \in Requests |-> "none"]
    /\ samples = {}

-----------------------------------------------------------------------------
(* Start-up *)

AtBackend(c) == main = "starting" /\ next <= Len(Order) /\ c = Order[next]

\* The pool is built or connected, and add_collector called.
Connect(c) ==
    /\ AtBackend(c) /\ c \in configured
    /\ Begin(c)
    /\ UNCHANGED appVars

\* Go on to the next backend: this one is not configured, or was added.
Advance(c) ==
    /\ AtBackend(c)
    /\ c \in configured => call[c] = "ok"
    /\ next' = next + 1
    /\ UNCHANGED <<vars, configured, main, signal, closure, req, samples>>

Serve ==
    /\ main = "starting" /\ next > Len(Order)
    /\ main' = "serving"
    /\ UNCHANGED <<vars, configured, next, signal, closure, req, samples>>

\* Every `?` of main: no pool, no connection, add_collector, bind.
StartUpError ==
    \/ next > Len(Order)
    \/ \E c \in configured : AtBackend(c) /\ call[c] \in {"idle", "err"}

\* Mutation: an error is logged and the backend skipped.
FailLogged ==
    /\ main = "starting" /\ StartUpError /\ next <= Len(Order)
    /\ next' = next + 1
    /\ UNCHANGED <<vars, configured, main, signal, closure, req, samples>>

Fail ==
    /\ main = "starting" /\ StartUpError
    /\ main' = "failed"
    /\ UNCHANGED <<vars, configured, next, signal, closure, req, samples>>

-----------------------------------------------------------------------------
(* Requests *)

\* Also on a connection that has not yet seen that the server is stopping.
Accept(r) ==
    /\ main \in {"serving", "draining"} /\ req[r] = "none"
    /\ req' = [req EXCEPT ![r] = "handling"]
    /\ UNCHANGED <<vars, configured, main, next, signal, closure, samples>>

\* observe_query, observe_command, observe_op: by handlers that have the metrics.
Observe(c) == samples' = samples \cup ({c} \cap configured)

\* The handler resumes after its await and observes how long that took, whatever
\* came of it.
Answered(r) ==
    /\ req[r] = "handling"
    /\ req' = [req EXCEPT ![r] = "answered"]
    /\ Observe(Uses[r])
    /\ UNCHANGED <<vars, configured, main, next, signal, closure>>

\* The client goes away, or the handler panics.
Disconnect(r) ==
    /\ req[r] = "handling"
    /\ req' = [req EXCEPT ![r] = "dropped"]
    /\ UNCHANGED <<vars, configured, main, next, signal, closure, samples>>

-----------------------------------------------------------------------------
(* Shutdown *)

\* Ctrl-C or SIGTERM; axum polls shutdown_signal in a task from serve() on.
\* Mutation: the task is spawned at the start of main.
ReceiveAnyTime ==
    /\ signal = "waiting" /\ main \in {"starting", "serving"}
    /\ signal' = "received"
    /\ UNCHANGED <<vars, configured, main, next, closure, req, samples>>

Receive ==
    /\ signal = "waiting" /\ main = "serving"
    /\ signal' = "received"
    /\ UNCHANGED <<vars, configured, main, next, closure, req, samples>>

\* A handler of the signals cannot be installed: expect() ends the task.
ReceiveFails ==
    /\ signal = "waiting" /\ main = "serving"
    /\ signal' = "ended"
    /\ UNCHANGED <<vars, configured, main, next, closure, req, samples>>

SignalShutdown ==
    /\ signal = "received"
    /\ ShutBegin(Signal)
    /\ UNCHANGED appVars

SignalReturn ==
    /\ signal = "received" /\ stop[Signal] = "returned"
    /\ signal' = "ended"
    /\ UNCHANGED <<vars, configured, main, next, closure, req, samples>>

\* The accept loop sees that the task has ended, however it did.
\* Mutation: it waits for shutdown() to return.
StopAcceptingOnReturn ==
    /\ main = "serving" /\ signal = "ended" /\ stop[Signal] = "returned"
    /\ main' = "draining"
    /\ UNCHANGED <<vars, configured, next, signal, closure, req, samples>>

StopAccepting ==
    /\ main = "serving" /\ signal = "ended"
    /\ main' = "draining"
    /\ UNCHANGED <<vars, configured, next, signal, closure, req, samples>>

\* Mutation: serve() returns with its accept loop.
DrainNothing ==
    /\ main = "draining"
    /\ main' = "returned"
    /\ UNCHANGED <<vars, configured, next, signal, closure, req, samples>>

Drained ==
    /\ main = "draining" /\ Handling = {}
    /\ main' = "returned"
    /\ UNCHANGED <<vars, configured, next, signal, closure, req, samples>>

\* main's locals go, the last Arc<PrometheusMetrics> among them, on both ways out.
DropState ==
    /\ main \in {"returned", "failed"}
    /\ ShutBegin(Dropper)
    /\ UNCHANGED appVars

\* The runtime goes: it waits for the polls and the blocking threads under way.
DropRuntime ==
    /\ main \in {"returned", "failed"} /\ stop[Dropper] = "returned"
    /\ main' = "exiting"
    /\ UNCHANGED <<vars, configured, next, signal, closure, req, samples>>

Exit ==
    /\ main = "exiting" /\ closure = {}
    /\ \A c \in Collectors : ~Live(c)
    /\ main' = "exited"
    /\ UNCHANGED <<vars, configured, next, signal, closure, req, samples>>

-----------------------------------------------------------------------------
(* The loops, and the threads their queries run on *)

\* Steps of a loop that begin no query on a thread and end none.
OffThread(c) ==
    \/ CancelParked(c) \/ FirstPoll(c) \/ TickReady(c) \/ TickPending(c) \/ TickFires(c)
    \/ AwaitReady(c) \/ CollectPanic(c) \/ \E r \in {"ok", "err"} : CollectReturn(c, r)

\* Pending at an await: for a connection, or for the thread the query runs on.
\* Mutation: queries of every backend run on threads.
LoopStepAllOnThreads(c) ==
    /\ \/ AwaitPending(c) /\ closure' \in {closure, closure \cup {c}}
       \/ Answer(c) /\ closure' = closure \ {c}
       \/ OffThread(c) /\ UNCHANGED closure
    /\ UNCHANGED <<configured, main, next, signal, req, samples>>

LoopStep(c) ==
    /\ \/ AwaitPending(c) /\ closure' \in {closure, closure \cup ({c} \cap OnBlocking)}
       \/ Answer(c) /\ closure' = closure \ {c}
       \/ OffThread(c) /\ UNCHANGED closure
    /\ UNCHANGED <<configured, main, next, signal, req, samples>>

\* A loop that was cancelled leaves its query running.
OrphanEnds(c) ==
    /\ c \in closure /\ ~Live(c)
    /\ closure' = closure \ {c}
    /\ UNCHANGED <<vars, configured, main, next, signal, req, samples>>

-----------------------------------------------------------------------------
AppNext ==
    \/ Serve \/ Fail
    \/ Receive \/ ReceiveFails \/ SignalShutdown \/ SignalReturn
    \/ StopAccepting \/ Drained \/ DropState \/ DropRuntime \/ Exit
    \/ \E c \in Collectors :
          \/ Connect(c) \/ Advance(c) \/ LoopStep(c) \/ OrphanEnds(c)
          \/ AddStep(c) /\ UNCHANGED appVars
    \/ \E s \in Stoppers : ShutStep(s) /\ UNCHANGED appVars
    \/ \E r \in Requests : Accept(r) \/ Answered(r) \/ Disconnect(r)

\* A handler that waits for a backend that may never answer: no timeout ends the
\* await, only the client can.  Without Redis it answers at once.
WaitsOnSilent(r) == r \in Awaiting /\ Uses[r] \in configured \cap Unresponsive

(***************************************************************************)
(* Fairness: that of CollectorLifecycle; the signal's task and main go on  *)
(* once told to stop; handlers finish, and so do queries on the blocking   *)
(* threads, unless they wait for a backend that may never answer.          *)
(***************************************************************************)
AppFairness ==
    /\ Fairness
    /\ WF_allVars(SignalShutdown) /\ WF_allVars(SignalReturn)
    /\ WF_allVars(StopAccepting) /\ WF_allVars(Drained)
    /\ WF_allVars(DropState) /\ WF_allVars(DropRuntime) /\ WF_allVars(Exit)
    /\ \A r \in Requests : WF_allVars(~WaitsOnSilent(r) /\ Answered(r))
    /\ \A c \in OnBlocking \ Unresponsive : WF_allVars(OrphanEnds(c))

AppSpec == AppInit /\ [][AppNext]_allVars /\ AppFairness

-----------------------------------------------------------------------------
(* Properties.  ShutdownAbortsAll, which CollectorLifecycle alone violates, is *)
(* another: here shutdown() runs only when no add_collector can.              *)

\* While the application serves, every backend that is configured has its loop,
\* stopped or not: main gives up at the first error.  And no handler ever observes
\* into cells that /metrics does not export (main.rs:86-88).
ServedAreCollected ==
    /\ main \in {"serving", "draining"} =>
           \A c \in configured : call[c] = "ok" /\ task[c] # "none"
    /\ \A c \in samples : \A m \in Names(c) : owner[m] = c

\* No request is handled after Drop has begun: the server returns when the last one
\* has been answered or dropped (main.rs:158-160).
NoDropUnderRequest == stop[Dropper] # "idle" => Handling = {}

\* What can hold up the exit for ever: the server drains while a handler waits, and
\* the runtime waits for its blocking threads (main.rs:158-160 and 231-235, r2d2.rs:36).
HeldUp ==
    \/ main = "draining" /\ \E r \in Handling : WaitsOnSilent(r)
    \/ main = "exiting" /\ closure \cap Unresponsive # {}

\* Whether told by a signal, stopped by an error at start-up or left without a
\* handler of signals (main.rs:263), the process exits, unless a backend that never
\* answers holds up a request in flight or a blocking thread.  A loop that awaits
\* such a backend does not, and nothing else does (main.rs:158-162).
ExitsOnceTold ==
    (signal # "waiting" \/ main = "failed") ~> (main = "exited" \/ []HeldUp)
=============================================================================
