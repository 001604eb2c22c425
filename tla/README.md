# A TLA+ development of dr-metrix

dr-metrix is a set of Rust crates that publish Prometheus metrics from an axum
application: metrics of its HTTP requests, and metrics of PostgreSQL, Redis and
MongoDB collected by background loops. This directory holds TLA+ modules
translated from its source, the TLC configurations that check them, and proofs
checked by TLAPS. Paths below are relative to the repository (`src/` there).

## 1. The system

| Component | State it keeps | Operations | Made correct by |
|---|---|---|---|
| `PrometheusMetrics` (`dr-metrix-axum/src/state.rs`) | a `Registry`, `Mutex<Vec<JoinHandle>>`, an atomic `collector_count` | `build`, `add_collector`, `collector_count`, `shutdown`, `Drop` | a loop only when its metrics are exported; one loop per metric; no handle lost; nothing left running after `Drop` |
| Collection loop (`dr-metrix-core/src/collector.rs`) | a tokio task with an interval | first poll, tick, `collect()`, logged error, panic, cancellation | goes on after errors; can be stopped at every await; loops do not delay each other; missed ticks neither burst, nor wait, nor drift |
| HTTP layer (`dr-metrix-axum/src/layer.rs`, `http_metrics.rs`) | a gauge, a counter, two histograms, shared by all requests | `call` and the future it returns | every request accounted for, once, in the right series |
| PostgreSQL collector (`dr-metrix-postgres/src/metrics.rs`) | gauges, some labelled | `collect` (three queries), `observe_query` | what each gauge shows after failures, aborts and between two `set()` |
| Pool adapters (`dr-metrix-postgres/src/pool/`) | the pool of deadpool, r2d2 or sea-orm | `query_json`, `pool_status` | pool gauges that fit together |
| Redis collector (`dr-metrix-redis/src/metrics.rs`, `info_parser.rs`) | gauges | `collect` (one `INFO`), `parse_info`, `observe_command` | as for PostgreSQL, and the parser against a reference |
| MongoDB collector (`dr-metrix-mongo/src/metrics.rs`) | gauges | `collect` (one `serverStatus`), `observe_op` | as for PostgreSQL, and numbers published as reported |
| Exposition (`dr-metrix-axum/src/handler.rs`) | none | `metrics_handler`, `health_handler` | what the body of a scrape means although it reads cell by cell while requests go on |
| Builder, configuration (`state.rs`, `core/src/collector.rs`) | none after `build` | setters, `build` | the registry starts with the built-in metrics only |
| Example application (`examples/src/main.rs`) | the composition of all of these | start-up, handlers, graceful shutdown | serves with every collector or not at all; state outlives requests; `shutdown()` stops every loop; the process exits |
| Errors, re-exports | none | none | nothing to check |

How they interact. The application calls `add_collector`, which registers the
collector's metrics in the registry one after the other, spawns its loop, pushes
the `JoinHandle` under the mutex and increments the counter. The loop calls
`collect()`, which awaits a backend and writes *cells*: gauges shared by `Arc`
with the registry and with every clone of the collector. The HTTP layer writes
cells too, from as many tasks as there are requests. A scrape reads the cells
through the registry whenever it likes, one after the other; nothing locks a group
of cells.
`shutdown` aborts the tasks whose handles are in the list, and `Drop` calls it.

What is hard here: two calls of `add_collector` and one of `shutdown`
interleave, with four steps of the first unprotected by any lock; `abort()` only
asks, and takes effect at an await; futures are dropped at their awaits; several
cells are written one by one while scrapes read them; queries fail half-way
through a collect. The repository has no tests, so none of this is exercised.
`PROJECT.json` lists each hazard with its line and the properties about it.

## 2. The modules

### CollectorLifecycle and CollectorContract

One action per step that another thread can see; the actors interleave freely.

| Code | Variables and actions |
|---|---|
| `Registry` (names to cells) | `owner[m]`: whose cell is exported under `m` (`Host`: built-in, `Free`: none) |
| `add_collector` (state.rs:50-68) | `call[c]`, `regd[c]`; `Begin`, `RegisterOne` for each metric, `RegisterFail` at a name already taken (the names before it stay), `Spawn`, `Push`, `Count` |
| handles, mutex, counter | `handles`, `lock`, `count` |
| `shutdown`, `Drop` (state.rs:76-89) | `stop[s]`; `ShutBegin`, `ShutAbort` for each handle drained, `ShutEnd`. `Drop` is the caller `Dropper`: it has `&mut self`, so it starts only when no other call is under way, and none starts after it |
| the spawned task (collector.rs:43-58) | `task[c]`, `on` (tasks a worker polls now), `left[c]` (awaits ahead in this `collect()`), `aborted`; `FirstPoll`, `TickReady`/`TickPending`/`TickFires`, `AwaitReady`/`AwaitPending`/`Answer`, `CollectReturn` (Ok or Err), `CollectPanic`, `CancelParked` |

A tokio task whose abort flag is set is dropped when it next returns Pending
(`Park`), or at once if no worker polls it (`CancelParked`); it is never stopped
between two awaits. A zero interval panics in `FirstPoll`, inside the task, after
`add_collector` has returned Ok. Collectors whose `MetricsOf` are equal stand
for clones, which share cells and names: `(*arc).clone()` in the example makes
them easy to add twice.

`CollectorContract` says what this promises without threads: collectors are
absent, running, stopping or ended; two that share a metric never both start;
the object closes only when nothing is running. `ImplementsContract` maps
`task` and `aborted` to those four states and "`Drop` has returned" to `closed`.

### HttpLayer

`pc[r]` follows the future of each request through `call()`: `Call` raises the
gauge before the future exists, `Answer` or `Lose` ends the await on the inner
service, then `Release`, `Count`, `Time` and `Return` are the four updates that
follow without another await. `Lose` is a future dropped by hyper or unwound by a
panic, at that await or before its first poll. Series are named by the matched
template or, if none matched, by the raw path, and by the status; an error
counts as 500.

### Exposition

Extends HttpLayer with `metrics_handler`. `gather()` holds the registry's lock, so
a registration is wholly before or after a scrape, but no request waits for it:
`Read` takes the cells one at a time, in one of `GatherOrders`, while requests go
on. A scrape is represented by `read`, what the cells of each family in it add up
to, and `moved`, the requests that wrote a cell meanwhile. A request that does not
move counts once: in the gauge while it is under way (or lost), in one series
of totals when it is recorded. Durations are another family than totals and are
read before or after them, so that a body may well show more durations than
requests, or fewer: `ScrapeTimesWhatItCounts` bounds the difference by the
requests that moved and those that stood between the two updates. `DurationsTrackTotals` of
HttpLayer speaks of the cells at one moment, which no scrape sees.

### CollectLoop

The same loop as CollectorLifecycle's task, on a discrete clock and without
threads. `due` is the deadline of tokio's interval and `NextDue` its
`MissedTickBehavior::Delay`: late by more than `Slack` (tokio allows 5 ms), the next
deadline is a period from now, else a period from the last deadline. `Return`
comes whenever it likes; `Elapse` lets a worker be up to `MaxLag` late. `starts` and
`ends` are history.

### ExampleApp

Extends CollectorLifecycle with the process around it and decides when main lets
each of its steps happen. `Uses[r]` is the backend a request records an observation
about; the requests in `Awaiting` wait for it (`counter_op` for Redis,
main.rs:231-235), the others only pretend to have queried it (`list_users`).
`WaitsOnSilent(r)` holds of a request whose backend may never answer.

| Code (`examples/src/main.rs`) | Variables and actions |
|---|---|
| environment, start-up (52-135) | `configured`, `main`, `next`: `Connect` calls `add_collector` for the backend main is at, whose own steps are `AddStep`; `Advance`; `Fail` is every `?` |
| server (138-160) | `Serve`, `Accept`, `StopAccepting`, `Drained`. Connections that have not seen the end of the server still accept |
| handlers (167-255) | `req[r]`, `samples`; `Answered` observes after the await, whether the command succeeded or not; `Disconnect` drops the handler at it |
| `shutdown_signal` (259-284) | `signal`; `Receive`, `ReceiveFails` (an `expect()` panics in the task, which ends the server all the same), `SignalShutdown`, `SignalReturn` |
| end of main and of the runtime | `DropState`, `DropRuntime`, `Exit`. The runtime waits for blocking threads, so `closure` keeps the queries of deadpool and r2d2 that run on one: `LoopStep` starts them, `OrphanEnds` ends those whose loop was cancelled |

### PostgresCollect, RedisCollect, MongoCollect

`collect()` as awaits and single `set()` calls, so that an invariant says what each
gauge holds between any two of them. A scrape that reads gauges while `set()` calls go
on takes each at a moment of its own: it finds in each what the invariant says
of that moment, and may find in two of them what two moments say. A query may
succeed with any answer, fail (`?` returns; the loop comes back), or be where the
loop is aborted, which is never between two `set()` calls. Each module keeps the
answers received as a history variable, from which the invariants compute, by a
definition of their own, what each gauge should show. Collects of one set of gauges do not overlap:
`OneLoopPerMetric` of CollectorLifecycle is why that is a fair assumption.

- PostgresCollect: the status of the pool (each adapter's arithmetic), then
  three queries, each writing a row's gauges one after the other. Values are
  numbered by collect, as only their age matters.
- RedisCollect: `ParseInfo` applies `ParseLine` to the lines of an answer, one after
  the other, and `Publication` is the sequence of `set()` calls that follows. A line is
  a known key with a number or a malformed text, a database with the texts of its
  two fields, each a number, malformed or missing, or `Noise`, which the parser skips.
  A malformed or missing field of a database is 0 to the parser and the other field
  is kept, so that a database may expire more keys than it has.
- MongoCollect: fields in the order the code reads them, each in a section that
  an answer may lack; numbers carry their BSON type, because `get_i64` refuses
  an Int32 and `unwrap_or(0)` turns the refusal into 0.

## 3. The runs

| Run | Instance | Shows |
|---|---|---|
| `lifecycle_safety` | clones `p`, `q` (`q` with a zero interval), unrelated `r`, and `x`, whose second name is a built-in one; one `shutdown()` and `Drop`; 120,624 states | no loop writes unexported metrics (`RunningIsExposed`); no two loops ever share one (`OneLoopPerMetric`); handles are listed or aborted once pushed (`NoLostHandle`); `/health` counts nothing that cannot be stopped (`CountedAreStoppable`); `DropStopsAll`; one of the clones is accepted, never none or both (`ExactlyOneTwin`); `ImplementsContract` |
| `lifecycle_live` | `p`, and `u`, whose backend may never answer and whose `collect()` may panic; 7,556 states | a drained loop ends even while its backend is silent (`DrainedStop`); one whose backend answers collects again and again until it is aborted or its own `collect()` panics, through errors and whatever becomes of the other (`KeepsCollecting`); `add_collector` returns (`AddReturns`) |
| `http` | three requests: two of one template, one unmatched with the raw path of another; any number of scrapes, in two orders, with the durations before the totals and after them; 2,574,858 states | gauge, counter and histograms account for each request exactly, at every moment; a scrape has every request that does not move once, and of the others not more than twice (`ScrapeCountsEachOnce`); it shows as many durations as requests but for those that moved or stood between the two updates (`ScrapeTimesWhatItCounts`) |
| `collect_loop` | period 3, slack 1, lag up to 2, 14 units of time; 200,868 states | no burst after a slow collect (`NoBurst`), no delay beyond the slow collect itself (`NoExtraWait`), no drift from small delays (`NoDrift`) |
| `app` | PostgreSQL on blocking threads and Redis, either of which may never answer, each configured or not; a request that waits for Redis and one that only observes PostgreSQL; 46,768 states | served backends have loops, and observations are exported (`ServedAreCollected`); `NoDropUnderRequest`; `shutdown()` aborts every loop here (`ShutdownAbortsAll`, which `shutdown_race` refutes in general); the process exits, or is held up for ever by a request in flight or a blocking thread that waits for a silent backend (`ExitsOnceTold`) |
| `postgres` | two databases, a table, a lock mode, a pool of one, the three adapters, three collects; 875,343 states | each gauge carries the last snapshot that had its row, or the one before while it waits to be written; freshness follows the order of the queries; pool gauges fit together except between the three `set()` calls that write them |
| `redis` | two keys, two databases, a number, a malformed and a missing text, answers of at most two lines, two answers; 247,851 states | gauges against the reference of the parser (`GaugesCarryLastInfo`), and between two `set()` each from the last answer or what was reported before (`ScrapeMixesTwoInfos`) |
| `mongo` | two opcounters and a field of `mem`, two answers; 394,755 states | gauges against the reference, at any moment of the writing |
| `shutdown_race`, `http_gauge_leak`, `stale_locks`, `mongo_int32` | as above, smaller | the findings of section 5 |

Bounds, and why they are enough. Callers interact pairwise: through a shared
name (two clones, a foreign name taken half-way), the mutex and the list. One
await per `collect()` is every await, as all are alike to the scheduler. Three
collects of PostgreSQL let a gauge be two collects old while another is being
written; for one-query collectors two answers and any number of failed collects do
the same. One number tells a text that was parsed from the 0 of one that was not.
Three requests let two share a series while a third differs, and fourteen units
of time are four periods, so that a late collect has two on either side. One
backend on blocking threads and one that is silent are the two ways to hold up an exit. `MaxCollects`,
`MaxInfos`, `MaxLines`, `MaxAnswers` and `MaxTime` are the only bounds on behaviours, and
the collectors stop when they reach them, which is why deadlock is not checked
there. In the other modules it is not checked because they really stop: each
collector is added once and each request made once.

## 4. Fairness

`CollectorLifecycle!FairSpec` assumes what the scheduler gives, never that
anyone calls anything:

- a thread inside `add_collector` or `shutdown` keeps running (weak fairness);
- tokio's workers poll tasks that are ready, and the timer fires (weak fairness
  on `FirstPoll`, `TickFires`, `OnCpu`, `CancelParked`);
- `TickPending` is strongly fair. tokio gives a task a budget of operations per
  poll, after which even a ready timer returns Pending; without it a loop that
  always finds its tick and its answers ready would never yield and could never
  be cancelled;
- `Answer` is fair for responsive backends only. The code has no timeouts, so
  nothing is assumed of the others. No step that returns an error or panics is
  required.

`KeepsCollecting` is claimed of collectors that are neither `Unresponsive` nor
`Panicky`: an error of `collect()` must not end the loop (collector.rs:48-56), a panic
of it does, and an abort is what `shutdown()` is for.

`ExampleApp!AppFairness` adds that main and the task of the signal go on once told
to stop, that handlers finish unless they wait for a backend that may never answer,
and that queries on blocking threads end when their backend is responsive. The
code bounds neither: `counter_op` awaits the pool of Redis without a timeout and
`axum::serve` drains for as long as it does (main.rs:158-160, 231-235), and nothing
cancels a blocking thread. `ExitsOnceTold` is therefore weakened by `[]HeldUp`: the
process exits, or is held up for ever by one of these two. TLC finds a
counterexample if either disjunct of `HeldUp` is left out. A loop that awaits a
silent backend does not hold up the exit, as it is cancelled at its await. No signal
need come and no backend need be reached.

HttpLayer, Exposition, CollectLoop and the collectors assume no fairness and promise no
liveness: clients, handlers, scrapes and servers are not the code's to drive.

## 5. What the code does otherwise than it says

- `shutdown_race`: "Gracefully abort all background collector tasks"
  (state.rs:75). `add_collector` spawns a loop before it pushes its handle;
  a `shutdown()` in between returns with the loop running. `NoLostHandle` and
  `DropStopsAll` show the limits of this: the handle is pushed all the same, and
  a later `shutdown()` or `Drop` stops the loop.
- `http_gauge_leak`: "currently in-flight requests" (http_metrics.rs:13). A
  request whose client disconnects or whose handler panics is never subtracted.
  `InFlightAccountsForAll` shows that this is the only error the gauge can have.
- `stale_locks`: "Active locks by mode" (metrics.rs:168 of PostgreSQL). A mode
  nobody holds any more keeps its last count. The same holds for tables and
  databases that were dropped, and for Redis databases that became empty.
- `mongo_int32`: "Current MongoDB connections" (metrics.rs:82 of MongoDB). An
  Int32, which is how the server sends small counts, is published as 0.

Read off the code, without a run of its own: `/health` says it reports "the number
of healthy collectors" (handler.rs:41), but the counter is only ever incremented
(state.rs:64). Loops that panicked (a zero interval is enough) or were shut down
stay in it; the invariant `Counted` of the proofs says so exactly.

## 6. What is proved

Every invariant that a run checks, every action property and the refinement is a
theorem for all values of the constants. The assumptions, named in the module that
declares the constants:

- `ConstantsAssumption`, `HttpAssumption`: collectors and requests are finite sets, a
  collector registers a sequence of metric names, the distinguished values differ
  from the others;
- `LoopAssumption`: the period is positive; `AppAssumption`: main's order names every
  backend, and only the signal's task calls `shutdown()`;
- `ExpositionAssumption`: in whatever order, `gather()` reads each cell once, the gauge
  and the total and the duration of every series a request can be counted in;
- `PostgresAssumption`: a row has one gauge or more, and no row is the mark of a
  query that did not run;
- `MongoAssumption`: the fields are distinct, as every gauge is set in one place of
  `collect()` (metrics.rs:157-209); BSON numbers are counts, so not negative;
- `RedisAssumption`: a scalar is not a database gauge, since each is a gauge of its
  own (metrics.rs:96-116); INFO's numbers are counts.

The bounds on behaviours (`MaxTime`, `MaxCollects`, `MaxInfos`, `MaxLines`,
`MaxAnswers`) are any natural numbers in the theorems.

**CollectorLifecycle_proofs.** `TypeCorrect` needs `Polling` beside `TypeOK`: a
loop parked inside `collect()` has an await ahead, or `Answer` could take `left`
below zero. The inductive invariant `IInv` adds, to that:

- `Owned`: the names a call has registered, and no others, are owned by its
  collector. It is what
  makes `RunningIsExposed` and `OneLoopPerMetric` inductive: ownership never
  changes, so a second registrant of a name is always refused;
- `SpawnedComplete`: a call that has spawned has registered everything;
- `Listed`: between spawn and push a handle is in no list, after it in the list
  or aborted;
- `Counted`: the counter is the number of calls that returned Ok. It gives
  `CountedAreStoppable`, as pushing comes before counting;
- `Exclusive`: who holds the mutex, and that `Drop` excludes every other call. It
  gives `DropStopsAll`.

`Invariance` is `Spec => []IInv`; the theorems named after the properties of
`lifecycle_safety` follow from it. `SpecExactlyOneTwin` needs one invariant more,
`FailedToATwin`: when an uncontested call has failed, its first name is owned by a
twin, which has not failed. Twins register in the same order, so who gets the first name gets them
all, and the twins cannot knock each other out. `SpecImplementsContract` shows
that the initial state maps to the contract's and each step to a step or a
stutter: `Spawn` starts (by `Owned` no loop of a conflicting collector exists or
existed), `ShutAbort` stops, cancellation and panics end, and the `ShutEnd` of
`Drop` closes (the list is empty and nobody is between spawn and push).

**HttpLayer_proofs.** The inductive invariant is the type invariant, `Answered`
(a request past the await has a result, one before it has none) and the four
accounts themselves. The argument is one of counting: each step moves one request
from one set to another, and `Counting` says what that does to cardinalities.
`TypeOK` is not inductive without the gauge's account: that the gauge stays
natural is the fact that a releasing request is among those counted.

**CollectLoop_proofs.** `NoBurst` is not inductive: the next start depends on the
deadline. `DueSpaced` says of the deadline what `NoBurst` says of starts, for each
start before it, and grows by one period per tick whichever branch `NextDue` takes.
`DueSoon` bounds the deadline and the lag from above, for `NoExtraWait`;
`DueOnGrid` puts the deadline on the grid as long as no start was late, for
`NoDrift`. The bound `MaxTime` plays no part in them: they hold for a clock that
runs as long as one likes.

**ExampleApp_proofs.** The lemma `AppStepIsLifecycleStep` makes each step of the
application a step of the lifecycle or a stutter, so that `IInv` and all that follows
from it hold here too. `AppInv` adds `StartUp` (main is inside one call at most,
that of the backend it is at, and has been through those before it), `WayOut` (the
signal is for a server, Drop for the end of main) and `Handled` (requests only
while there is a server). `AppShutdownAbortsAll` is where they meet: whoever
drains the list, nobody is inside `add_collector`, so `Listed` has every loop in the
list or aborted.

Its `AppTypeOK` rests on the lifecycle too: only a loop that exists has a query on a
blocking thread, so its backend is configured.

**Exposition_proofs.** By the lemma `ScrapesAreInvisible` the theorems of HttpLayer hold
while it is scraped (`ScrapesKeepTheLayer`). Both properties speak of the end of a
scrape; the invariant behind them, `FamilyIsBounded`, speaks of any moment of it and
of each family apart: what was read of it lies between the requests that stand
still in a cell of it that was read (`Still`), and these plus those that moved and
may have been read in it (`MovedIn`). A request that moves after it was read
leaves `Still` and may enter `MovedIn` of the gauge and of the totals, which is
where the factor two of `ScrapeCountsEachOnce` comes from. `StillAreRead` says what
`Still` is when every cell has been read: all that the family accounts for and that
did not move. The gauge and the totals share none of these and have `Scraped`
together; `Untimed` is what the totals have and the durations have not.

**PostgresCollect_proofs.** `GaugesCarryLastSnapshot` is not inductive by itself.
`Shape` says what is under way at each point of a collect, `InOrder` that the queries
a collect was answered are a prefix of the three, and `CellsAreLast` describes
the last snapshot by a bound (`IsLast`) that each step keeps or moves, where the property
chooses it (`LastIsUnique`). `SpecEarlierGroupsAreFresher` follows from `InOrder` and
`CellsAreLast`. `PoolFollows` tells which pool gauges belong together at each of the
three `set()`. `SpecGaugesNeverAge` is the cause of the finding `stale_locks`, as an
action property: no step takes a gauge back.

**MongoCollect_proofs.** `CellsAreFromAnswers` says of the gauge of each field that it
is from one answer, the last with its section among those it has met (`Met`
counts one less for fields that wait). `Int64sArePublished` shows
that the Int32 is the whole of the finding `mongo_int32`: without one, every number
is published.

**RedisCollect_proofs.** Two arguments. The first is that the parser is correct:
`ParsedUpTo` says what `parse_info` has learnt from the first `n` lines, `ParseStep` that
a line adds what it says, and `ParseInfoIsExact` follows by induction on `n`. The
induction is `SetInduction`, about a set of natural numbers and its
least missing element, so that it stays first-order; the recursion of `ParseInfo` is
shown to define a function in the same way (`ParseExists`). The second is about
`collect()`: `TodoIsSuffix` says that the calls still to make are the end of
`Publication` of the last answer, and `CellsFollow` that a gauge shows the last value
it was set to, or what was reported before if it has not been. They meet in
`PublicationSays`: each call sets what some line says, the last call of a gauge
what the last line about it says, and a gauge without a call is one the answer
does not mention. At the last `set()`, `AllShown` turns this into the reference,
`Reported`, which parses nothing.

Only model-checked: liveness under fairness (`DrainedStop`, `KeepsCollecting`,
`AddReturns`, `ExitsOnceTold`), which the proof
system does not cover, and the counterexamples of section 5.

## 7. What is left out

- Numbers nobody branches on: elapsed times, sizes, histogram buckets, the method
  label, the values that `observe_query` and `observe_command` record.
- The zero a labelled gauge shows between `with_label_values` and `set`.
- Bodies of responses that stream after the layer's future has returned: the code
  does not measure them.
- The connections of a pool: a query that outlives its loop holds one, which
  `closure` does not count. `observe_op`, which nothing calls.
- What the example's handlers answer, and its `TraceLayer`. A signal that comes
  before the server is up ends the process at once; nothing is left to model.
- `pool_connections` of Redis, a constant, and MongoDB numbers so large that
  their product with 1024 * 1024 would not fit in 64 bits.
- `const_labels` of CollectorConfig, which no metric receives although README.md:180
  offers them: a value that is never read has no behaviour. The conversion of JSON
  values. `poll_ready` and `call` on different clones of the inner service: axum's
  routers, the only services here, are always ready.
- Errors, re-exports: no behaviour. `TraceLayer`, prometheus and the database
  drivers are libraries, modelled only by what the code relies on.

## 8. Plan

Written in this order, the most important behaviour first: CollectorLifecycle
with its contract, HttpLayer, PostgresCollect, RedisCollect, MongoCollect; then
CollectLoop, ExampleApp over CollectorLifecycle, and Exposition over HttpLayer. The
proofs followed in the same order. Next:

1. **PoolAdapters**: connections held by queries that outlive their loops, and the
   pool gauges meanwhile.
2. Proofs: the safety half of `ExitsOnceTold`, that main never leaves a state in
   which nothing it waits for can happen.
3. **TowerReadiness**, should another inner service than axum's routers appear.
