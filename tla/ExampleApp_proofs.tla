------------------------- MODULE ExampleApp_proofs -------------------------
(***************************************************************************)
(* Proofs about ExampleApp, for any backends in any order, any of them     *)
(* configured, and any number of requests.                                 *)
(***************************************************************************)
EXTENDS ExampleApp, CollectorLifecycle_proofs

\* What a step of the application does to the collectors, if anything.
LEMMA AppStepIsLifecycleStep ==
    ASSUME [AppNext]_allVars
    PROVE  [Next]_vars
<1> USE DEF Next, appVars
<1>1. CASE Serve \/ Fail \/ Receive \/ ReceiveFails \/ SignalReturn
           \/ StopAccepting \/ Drained \/ DropRuntime \/ Exit
  BY <1>1 DEF Serve, Fail, Receive, ReceiveFails, SignalReturn, StopAccepting, Drained,
              DropRuntime, Exit
<1>2. CASE SignalShutdown \/ DropState
  <2>1. Signal \in Stoppers /\ Dropper \in Stoppers
    BY AppAssumption DEF AppAssumption, Stoppers
  <2> QED
    BY <1>2, <2>1 DEF SignalShutdown, DropState
<1>3. ASSUME NEW c \in Collectors,
             Connect(c) \/ Advance(c) \/ LoopStep(c) \/ OrphanEnds(c) \/ AddStep(c)
      PROVE  [Next]_vars
  BY <1>3 DEF Connect, Advance, LoopStep, OrphanEnds, OffThread, TaskStep, OnCpu
<1>4. ASSUME NEW s \in Stoppers, ShutStep(s) PROVE [Next]_vars
  BY <1>4
<1>5. ASSUME NEW r \in Requests, Accept(r) \/ Answered(r) \/ Disconnect(r) PROVE [Next]_vars
  BY <1>5 DEF Accept, Answered, Disconnect
<1>6. CASE UNCHANGED allVars
  BY <1>6 DEF allVars
<1> QED
  BY <1>1, <1>2, <1>3, <1>4, <1>5, <1>6 DEF AppNext

-----------------------------------------------------------------------------
(* The inductive invariant, beside that of the lifecycle *)

\* main is inside one call of add_collector at most, the one of the backend it is
\* at; it has been through those before it, and through all when it serves.
StartUp ==
    /\ next \in Nat \ {0}
    /\ \A c \in Collectors : InCall(c) => AtBackend(c)
    /\ \A c \in Collectors : call[c] # "idle" => c \in configured
    /\ \A i \in 1..Len(Order) : i < next /\ Order[i] \in configured => call[Order[i]] = "ok"
    /\ main \in {"serving", "draining"} => next > Len(Order)

\* The signal is for a server, Drop for main's end.
WayOut ==
    /\ stop[Signal] # "idle" => signal # "waiting"
    /\ signal # "waiting" => main \notin {"starting", "failed"} /\ next > Len(Order)
    /\ stop[Dropper] # "idle" => main \notin {"starting", "serving", "draining"}

\* Requests are handled while there is a server, and use what it has.
Handled ==
    /\ req \in [Requests -> {"none", "handling", "answered", "dropped"}]
    /\ main \notin {"serving", "draining"} => Handling = {}
    /\ configured \subseteq Collectors
    /\ \A c \in samples : c \in Collectors /\ call[c] = "ok"

AppInv == StartUp /\ WayOut /\ Handled

\* The backends main goes through.
LEMMA Backends == Len(Order) \in Nat /\ \A i \in 1..Len(Order) : Order[i] \in Collectors
BY AppAssumption DEF AppAssumption

\* It holds at the start of main.
LEMMA InitAppInv == AppInit => AppInv
BY AppAssumption, ConstantsAssumption
   DEF AppInit, Init, AppInv, StartUp, WayOut, Handled, Handling, InCall, Stoppers,
       AppAssumption, ConstantsAssumption

\* Once main has been through all backends, the configured ones are added.
LEMMA AllAdded ==
    ASSUME AppInv, next > Len(Order), NEW c \in Collectors
    PROVE  ~InCall(c) /\ (c \in configured => call[c] = "ok")
<1>1. PICK i \in 1..Len(Order) : Order[i] = c
  BY AppAssumption DEF AppAssumption
<1>2. Len(Order) \in Nat
  BY AppAssumption DEF AppAssumption
<1> QED
  BY <1>1, <1>2 DEF AppInv, StartUp, AtBackend

\* Steps of main that call nothing.
LEMMA MainKeepsAppInv ==
    ASSUME IInv, AppInv,
           Serve \/ Fail \/ StopAccepting \/ Drained \/ DropRuntime \/ Exit
    PROVE  AppInv'
<1> USE DEF AppInv, StartUp, WayOut, Handled, Handling, InCall, AtBackend, vars
<1>0. Len(Order) \in Nat
  BY Backends
<1>1. CASE Serve
  BY <1>0, <1>1, AllAdded DEF Serve
<1>2. CASE Fail
  <2>1. \A c \in Collectors : ~InCall(c)
    <3> SUFFICES ASSUME NEW c \in Collectors, InCall(c) PROVE FALSE
      OBVIOUS
    <3>1. AtBackend(c)
      OBVIOUS
    <3>2. next <= Len(Order) /\ c = Order[next]
      BY <3>1
    <3>3. call[c] \in {"idle", "err"}
      BY <1>0, <1>2, <3>2 DEF Fail, StartUpError
    <3> QED
      BY <3>3
  <2> QED
    BY <1>2, <2>1 DEF Fail
<1>3. CASE StopAccepting
  BY <1>3 DEF StopAccepting
<1>4. CASE Drained
  BY <1>4 DEF Drained
<1>5. CASE DropRuntime
  BY <1>5 DEF DropRuntime
<1>6. CASE Exit
  BY <1>6 DEF Exit
<1> QED
  BY <1>1, <1>2, <1>3, <1>4, <1>5, <1>6

\* Start-up: add_collector for one backend after the other.
LEMMA StartUpKeepsAppInv ==
    ASSUME IInv, AppInv, NEW c \in Collectors,
           Connect(c) \/ Advance(c) \/ (AddStep(c) /\ UNCHANGED appVars)
    PROVE  AppInv'
<1> USE DEF AppInv, WayOut, Handled, Handling, InCall, AtBackend, vars, appVars,
            addVars, taskVars, IInv, TypeInv, TypeOK
<1>0. Len(Order) \in Nat /\ \A i \in 1..Len(Order) : Order[i] \in Collectors
  BY Backends
<1>1. CASE Connect(c)
  <2>1. /\ call[c] = "idle" /\ call' = [call EXCEPT ![c] = "registering"]
        /\ AtBackend(c) /\ c \in configured /\ UNCHANGED <<stop, appVars>>
    BY <1>1 DEF Connect, Begin
  <2> QED
    BY <1>0, <2>1 DEF StartUp
<1>2. CASE Advance(c)
  <2>1. /\ AtBackend(c) /\ (c \in configured => call[c] = "ok") /\ next' = next + 1
        /\ UNCHANGED <<call, stop, configured, main, signal, req, samples>>
    BY <1>2 DEF Advance
  <2>2. \A d \in Collectors : ~InCall(d)
    BY <2>1 DEF StartUp
  <2> QED
    BY <1>0, <2>1, <2>2 DEF StartUp
<1>3. CASE AddStep(c) /\ UNCHANGED appVars
  <2>1. InCall(c) /\ UNCHANGED <<stop, appVars>>
        /\ \E v \in {"registering", "pushing", "counting", "ok", "err"} :
               call' = [call EXCEPT ![c] = v]
    BY <1>3 DEF AddStep, RegisterOne, RegisterFail, Spawn, Push, Count, MoreToRegister
  <2> QED
    BY <1>0, <2>1 DEF StartUp
<1> QED
  BY <1>1, <1>2, <1>3

\* The signal, Drop and what they call.
LEMMA StopKeepsAppInv ==
    ASSUME IInv, AppInv,
           \/ Receive \/ ReceiveFails \/ SignalShutdown \/ SignalReturn \/ DropState
           \/ \E s \in Stoppers : ShutStep(s) /\ UNCHANGED appVars
    PROVE  AppInv'
<1> USE DEF AppInv, StartUp, WayOut, Handled, Handling, InCall, AtBackend, vars, appVars,
            addVars
<1>1. CASE Receive \/ ReceiveFails \/ SignalReturn
  BY <1>1 DEF Receive, ReceiveFails, SignalReturn
<1>2. Signal # Dropper /\ Signal \in Stoppers /\ Dropper \in Stoppers
  BY AppAssumption, ConstantsAssumption DEF AppAssumption, ConstantsAssumption, Stoppers
<1>3. CASE SignalShutdown
  BY <1>2, <1>3 DEF SignalShutdown, ShutBegin, IInv, TypeInv, TypeOK
<1>4. CASE DropState
  BY <1>2, <1>4 DEF DropState, ShutBegin, IInv, TypeInv, TypeOK
<1>5. ASSUME NEW s \in Stoppers, ShutStep(s) /\ UNCHANGED appVars PROVE AppInv'
  <2>1. UNCHANGED <<call, appVars>> /\ stop[s] = "draining"
        /\ \A t \in Stoppers : stop'[t] # "idle" => stop[t] # "idle"
    BY <1>5 DEF ShutStep, ShutAbort, ShutEnd, IInv, TypeInv, TypeOK
  <2> QED
    BY <1>2, <2>1
<1> QED
  BY <1>1, <1>3, <1>4, <1>5

\* Requests.
LEMMA RequestKeepsAppInv ==
    ASSUME IInv, AppInv, NEW r \in Requests, Accept(r) \/ Answered(r) \/ Disconnect(r)
    PROVE  AppInv'
<1> USE DEF AppInv, StartUp, WayOut, Handled, Handling, InCall, AtBackend, vars
<1>1. CASE Accept(r)
  BY <1>1 DEF Accept
<1>2. CASE Answered(r)
  <2>1. r \in Handling /\ main \in {"serving", "draining"}
    BY <1>2 DEF Answered
  <2>2. \A c \in configured : call[c] = "ok"
    BY <2>1, AllAdded
  <2> QED
    BY <1>2, <2>1, <2>2 DEF Answered, Observe
<1>3. CASE Disconnect(r)
  BY <1>3 DEF Disconnect
<1> QED
  BY <1>1, <1>2, <1>3

\* The loops touch none of it.
LEMMA LoopKeepsAppInv ==
    ASSUME IInv, AppInv, NEW c \in Collectors, LoopStep(c) \/ OrphanEnds(c)
    PROVE  AppInv'
<1>1. UNCHANGED <<call, stop, configured, main, next, signal, req, samples>>
  BY DEF LoopStep, OffThread, OrphanEnds, AwaitPending, Answer, CancelParked, FirstPoll,
         TickReady, TickPending, TickFires, AwaitReady, CollectPanic, CollectReturn,
         vars, addVars
<1> QED
  BY <1>1 DEF AppInv, StartUp, WayOut, Handled, Handling, InCall, AtBackend

\* The two invariants together, in every state of the application.
THEOREM AppInvariance == AppSpec => [](IInv /\ AppInv)
<1>1. AppInit => IInv /\ AppInv
  BY InitIInv, InitAppInv DEF AppInit
<1>2. IInv /\ AppInv /\ [AppNext]_allVars => (IInv /\ AppInv)'
  <2> SUFFICES ASSUME IInv, AppInv, [AppNext]_allVars PROVE IInv' /\ AppInv'
    OBVIOUS
  <2>1. IInv'
    BY AppStepIsLifecycleStep, AddKeepsIInv, ShutKeepsIInv, TaskKeepsIInv, StutterKeepsIInv
       DEF Next
  <2>2. ASSUME UNCHANGED allVars PROVE AppInv'
    <3>1. UNCHANGED <<call, stop, configured, main, next, signal, req, samples>>
      BY <2>2 DEF allVars, appVars, vars, addVars
    <3> QED
      BY <3>1 DEF AppInv, StartUp, WayOut, Handled, Handling, InCall, AtBackend
  <2>3. ASSUME AppNext PROVE AppInv'
    <3>1. CASE Serve \/ Fail \/ StopAccepting \/ Drained \/ DropRuntime \/ Exit
      BY <3>1, MainKeepsAppInv
    <3>2. CASE \/ Receive \/ ReceiveFails \/ SignalShutdown \/ SignalReturn \/ DropState
               \/ \E s \in Stoppers : ShutStep(s) /\ UNCHANGED appVars
      BY <3>2, StopKeepsAppInv
    <3>3. ASSUME NEW c \in Collectors,
                 \/ Connect(c) \/ Advance(c) \/ LoopStep(c) \/ OrphanEnds(c)
                 \/ AddStep(c) /\ UNCHANGED appVars
          PROVE  AppInv'
      BY <3>3, StartUpKeepsAppInv, LoopKeepsAppInv
    <3>4. ASSUME NEW r \in Requests, Accept(r) \/ Answered(r) \/ Disconnect(r) PROVE AppInv'
      BY <3>4, RequestKeepsAppInv
    <3> QED
      BY <2>3, <3>1, <3>2, <3>3, <3>4 DEF AppNext
  <2> QED
    BY <2>1, <2>2, <2>3
<1> QED
  BY <1>1, <1>2, PTL DEF AppSpec

-----------------------------------------------------------------------------
(* The safety properties *)

\* Nothing is served without its collectors, and no observation is lost to cells
\* that are not exported (main.rs:86-88).
THEOREM AppServedAreCollected == AppSpec => []ServedAreCollected
<1>1. IInv /\ AppInv => ServedAreCollected
  <2> SUFFICES ASSUME IInv, AppInv PROVE ServedAreCollected
    OBVIOUS
  <2>1. \A c \in Collectors : call[c] = "ok" => task[c] # "none"
    BY DEF IInv, TypeInv, Polling
  <2>2. main \in {"serving", "draining"} => \A c \in configured : call[c] = "ok"
    BY AllAdded DEF AppInv, StartUp, Handled
  <2>3. RunningIsExposed
    BY DEF IInv, Owned, SpawnedComplete, RunningIsExposed, Names
  <2> QED
    BY <2>1, <2>2, <2>3 DEF ServedAreCollected, RunningIsExposed, AppInv, Handled
<1> QED
  BY <1>1, AppInvariance, PTL

\* Drop waits for the last request, however many there are (main.rs:158-160).
THEOREM AppNoDropUnderRequest == AppSpec => []NoDropUnderRequest
<1>1. AppInv => NoDropUnderRequest
  BY DEF AppInv, WayOut, Handled, NoDropUnderRequest
<1> QED
  BY <1>1, AppInvariance, PTL

\* In the application shutdown() does what its comment says (state.rs:75): it runs
\* only when no add_collector can, so every loop's handle is in the list.
THEOREM AppShutdownAbortsAll == AppSpec => ShutdownAbortsAll
<1> DEFINE Step ==
      \A s \in Stoppers : stop[s] = "draining" /\ stop'[s] = "returned"
          => \A c \in Collectors : Live(c)' => c \in aborted'
<1>1. IInv /\ AppInv /\ IInv' /\ [AppNext]_allVars => Step
  <2> SUFFICES ASSUME IInv, AppInv, IInv', [AppNext]_allVars,
                      NEW s \in Stoppers, stop[s] = "draining", stop'[s] = "returned",
                      NEW c \in Collectors, Live(c)'
               PROVE  c \in aborted'
    OBVIOUS
  <2>1. ~InCall(c)
    <3>1. CASE s = Dropper
      BY <3>1 DEF IInv, Exclusive
    <3>2. CASE s = Signal
      BY <3>2, AllAdded DEF AppInv, WayOut, StartUp
    <3> QED
      BY <3>1, <3>2, AppAssumption DEF AppAssumption, Stoppers
  <2>2. /\ handles = {} /\ UNCHANGED <<call, task, handles, aborted>>
    <3>1. [Next]_vars
      BY AppStepIsLifecycleStep
    <3>2. PICK t \in Stoppers : ShutEnd(t) /\ t = s
      BY <3>1 DEF Next, AddStep, Begin, RegisterOne, RegisterFail, Spawn, Push, Count, ShutBegin,
                  ShutStep, ShutAbort, ShutEnd, TaskStep, CancelParked, FirstPoll, TickFires,
                  Answer, OnCpu, TickReady, TickPending, AwaitReady, AwaitPending,
                  CollectReturn, CollectPanic, vars, addVars, IInv, TypeInv, TypeOK
    <3> QED
      BY <3>2 DEF ShutEnd, addVars, taskVars
  <2>3. call[c] = "ok"
    BY <2>1, <2>2 DEF IInv, TypeInv, TypeOK, Polling, Live, Running, InCall
  <2> QED
    BY <2>2, <2>3 DEF IInv, Listed
<1>2. Step => [Step]_vars
  OBVIOUS
<1> QED
  BY <1>1, AppInvariance, PTL DEF AppSpec, ShutdownAbortsAll

\* ExampleApp.AppTypeOK: only a backend whose loop runs has a query on a blocking
\* thread, so it is configured; what loops do is CollectorLifecycle's to say.
THEOREM AppSpecAppTypeOK == AppSpec => []AppTypeOK
<1>0. Len(Order) \in Nat
  BY Backends
<1>1. AppInit => AppTypeOK
  BY <1>0 DEF AppInit, AppTypeOK
<1>2. IInv /\ AppInv /\ AppTypeOK /\ [AppNext]_allVars => AppTypeOK'
  <2> SUFFICES ASSUME IInv, AppInv, AppTypeOK, [AppNext]_allVars PROVE AppTypeOK'
    OBVIOUS
  <2> USE DEF AppTypeOK
  <2>1. CASE \/ Serve \/ Fail \/ Receive \/ ReceiveFails \/ SignalShutdown \/ SignalReturn
             \/ StopAccepting \/ Drained \/ DropState \/ DropRuntime \/ Exit
    BY <2>1 DEF Serve, Fail, Receive, ReceiveFails, SignalShutdown, SignalReturn,
                StopAccepting, Drained, DropState, DropRuntime, Exit, appVars
  <2>2. ASSUME NEW c \in Collectors, Connect(c) \/ (AddStep(c) /\ UNCHANGED appVars)
        PROVE  AppTypeOK'
    BY <2>2 DEF Connect, appVars
  <2>3. ASSUME NEW c \in Collectors, Advance(c) PROVE AppTypeOK'
    BY <1>0, <2>3 DEF Advance, AtBackend
  <2>4. ASSUME NEW c \in Collectors, LoopStep(c) PROVE AppTypeOK'
    <3>1. /\ closure' \subseteq closure \cup ({c} \cap OnBlocking)
          /\ UNCHANGED <<configured, main, next, signal, req, samples>>
      BY <2>4 DEF LoopStep
    <3>2. CASE closure' \subseteq closure
      BY <3>1, <3>2
    <3>3. CASE AwaitPending(c)
      <4>1. call[c] # "idle"
        BY <3>3 DEF AwaitPending, IInv, TypeInv, Polling
      <4>2. c \in configured
        BY <4>1 DEF AppInv, StartUp
      <4> QED
        BY <3>1, <4>2
    <3> QED
      BY <2>4, <3>2, <3>3 DEF LoopStep
  <2>5. ASSUME NEW c \in Collectors, OrphanEnds(c) PROVE AppTypeOK'
    BY <2>5 DEF OrphanEnds
  <2>6. ASSUME NEW r \in Requests, Accept(r) \/ Answered(r) \/ Disconnect(r) PROVE AppTypeOK'
    BY <2>6 DEF Accept, Answered, Disconnect, Observe
  <2>7. CASE \/ UNCHANGED allVars
             \/ \E s \in Stoppers : ShutStep(s) /\ UNCHANGED appVars
    BY <2>7 DEF allVars, appVars
  <2> QED
    BY <2>1, <2>2, <2>3, <2>4, <2>5, <2>6, <2>7 DEF AppNext
<1> QED
  BY <1>1, <1>2, AppInvariance, PTL DEF AppSpec
=============================================================================
