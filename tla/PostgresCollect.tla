-------------------------- MODULE PostgresCollect --------------------------
(***************************************************************************)
(* PostgresMetrics::collect (dr-metrix-postgres/src/metrics.rs) over its   *)
(* pool adapters: what a scrape, which may read the gauges between any two *)
(* set() calls, finds in them after collects that succeed, fail half-way   *)
(* or are aborted at a query.  CollectorLifecycle shows that one loop at   *)
(* most runs per set of gauges, so collects do not overlap.                *)
(***************************************************************************)
EXTENDS Naturals, FiniteSets

CONSTANTS
    Rows,         \* Rows[g]: row labels group g may have (databases, tables, modes)
    Width,        \* Width[g]: gauges that a row of group g sets, one after the other
    Adapters,     \* pool adapters compiled in
    PoolSize,     \* max_size of the pool
    MaxCollects,  \* bound on the collects of one behaviour
    None          \* no row

\* The queries of collect(), in order: databases, tables, locks.
Groups == 1..3
Locks == 3

ASSUME PostgresAssumption ==
    /\ DOMAIN Rows = Groups
    /\ Width \in [Groups -> Nat \ {0}]
    /\ Adapters \subseteq {"deadpool", "r2d2", "seaorm"}
    /\ PoolSize \in Nat /\ MaxCollects \in Nat
    /\ \A g \in Groups : None \notin Rows[g]

VARIABLES
    adapter,   \* the P of PostgresMetrics<P>
    n,         \* collects begun
    at,        \* where the collect is
    grp,       \* the group it is at
    rows,      \* rows of the answer that are not written yet
    row, fam,  \* the row being written, and how many of its gauges are set
    status,    \* the PoolStatus it read
    pool,      \* the gauges pool_active, pool_idle and pool_max
    cell,      \* every other gauge, as the collect that set it last (0: absent)
    seen       \* history: the rows each query of each collect returned

NotRun == {None}

writing == <<rows, row, fam>>
vars == <<adapter, n, at, grp, writing, status, pool, cell, seen>>

Cells == UNION {{g} \X Rows[g] \X (1..Width[g]) : g \in Groups}

\* deadpool and r2d2 derive in_use by saturating subtraction; sea-orm reports zeros.
\* Mutation: connections that are idle count as in use.
InUseAll(size, available) == size

InUse(size, available) == IF size >= available THEN size - available ELSE 0

PoolStatuses(a) ==
    IF a = "seaorm" THEN {[in_use |-> 0, available |-> 0, max_size |-> 0]}
    ELSE UNION {{[in_use |-> InUse(s, i), available |-> i, max_size |-> PoolSize] : i \in 0..s} :
                    s \in 0..PoolSize}

PoolStatus == [in_use : 0..PoolSize, available : 0..PoolSize, max_size : 0..PoolSize]

TypeOK ==
    /\ adapter \in Adapters
    /\ n \in 0..MaxCollects
    /\ at \in {"idle", "active", "idling", "max", "query", "write", "ended"}
    /\ grp \in Groups
    /\ rows \in SUBSET Rows[grp]
    /\ row \in rows \cup {None}
    /\ fam \in 0..(Width[grp] - 1)
    /\ status \in PoolStatus /\ pool \in PoolStatus
    /\ cell \in [Cells -> 0..n]
    /\ \A g \in Groups : seen[g] \in [1..MaxCollects -> (SUBSET Rows[g]) \cup {NotRun}]

Zeros == [in_use |-> 0, available |-> 0, max_size |-> 0]

Init ==
    /\ adapter \in Adapters
    /\ n = 0 /\ at = "idle" /\ grp = 1
    /\ rows = {} /\ row = None /\ fam = 0
    /\ status = Zeros /\ pool = Zeros
    /\ cell = [c \in Cells |-> 0]
    /\ seen = [g \in Groups |-> [i \in 1..MaxCollects |-> NotRun]]

-----------------------------------------------------------------------------
\* The loop calls collect(); the pool's status is read in one call.
Begin ==
    /\ at = "idle" /\ n < MaxCollects
    /\ n' = n + 1
    /\ at' = "active"
    /\ status' \in PoolStatuses(adapter)
    /\ UNCHANGED <<adapter, grp, writing, pool, cell, seen>>

SetPool ==
    /\ \/ at = "active" /\ at' = "idling" /\ pool' = [pool EXCEPT !.in_use = status.in_use]
       \/ at = "idling" /\ at' = "max" /\ pool' = [pool EXCEPT !.available = status.available]
       \/ at = "max" /\ at' = "query" /\ pool' = [pool EXCEPT !.max_size = status.max_size]
    /\ UNCHANGED <<adapter, n, grp, writing, status, cell, seen>>

QueryOk(answer) ==
    /\ at = "query"
    /\ at' = "write"
    /\ rows' = answer
    /\ seen' = [seen EXCEPT ![grp][n] = answer]
    /\ UNCHANGED <<adapter, n, grp, row, fam, status, pool, cell>>

\* No connection, a failed query or a row that is not JSON: `?` ends the collect.
\* Mutation: the group is skipped and the next one queried.
QueryErrSkips ==
    /\ at = "query"
    /\ IF grp < 3 THEN grp' = grp + 1 /\ UNCHANGED at ELSE grp' = 1 /\ at' = "idle"
    /\ UNCHANGED <<adapter, n, writing, status, pool, cell, seen>>

QueryErr ==
    /\ at = "query"
    /\ at' = "idle"
    /\ grp' = 1
    /\ UNCHANGED <<adapter, n, writing, status, pool, cell, seen>>

\* The loop is aborted: at its tick, or at the await of a query.
Abort ==
    /\ at \in {"idle", "query"}
    /\ at' = "ended"
    /\ UNCHANGED <<adapter, n, grp, writing, status, pool, cell, seen>>

\* Mutation: the second gauge of a row is forgotten.
SetCellShort(r) ==
    /\ at = "write" /\ r \in rows /\ row \in {r, None}
    /\ cell' = [cell EXCEPT ![<<grp, r, fam + 1>>] = IF fam = 1 THEN @ ELSE n]
    /\ IF fam + 1 = Width[grp]
         THEN rows' = rows \ {r} /\ row' = None /\ fam' = 0
         ELSE rows' = rows /\ row' = r /\ fam' = fam + 1
    /\ UNCHANGED <<adapter, n, at, grp, status, pool, seen>>

\* Mutation: the row is left one gauge too late.
SetCellPastEnd(r) ==
    /\ at = "write" /\ r \in rows /\ row \in {r, None}
    /\ cell' = [cell EXCEPT ![<<grp, r, fam + 1>>] = n]
    /\ IF fam = Width[grp]
         THEN rows' = rows \ {r} /\ row' = None /\ fam' = 0
         ELSE rows' = rows /\ row' = r /\ fam' = fam + 1
    /\ UNCHANGED <<adapter, n, at, grp, status, pool, seen>>

\* One with_label_values(..).set(..).  The 0 that a new gauge shows between the two
\* calls is left out.
SetCell(r) ==
    /\ at = "write" /\ r \in rows /\ row \in {r, None}
    /\ cell' = [cell EXCEPT ![<<grp, r, fam + 1>>] = n]
    /\ IF fam + 1 = Width[grp]
         THEN rows' = rows \ {r} /\ row' = None /\ fam' = 0
         ELSE rows' = rows /\ row' = r /\ fam' = fam + 1
    /\ UNCHANGED <<adapter, n, at, grp, status, pool, seen>>

\* The answer is written: query the next group, or return Ok.
GroupDone ==
    /\ at = "write" /\ rows = {}
    /\ IF grp < 3 THEN grp' = grp + 1 /\ at' = "query" ELSE grp' = 1 /\ at' = "idle"
    /\ UNCHANGED <<adapter, n, writing, status, pool, cell, seen>>

Next ==
    \/ Begin \/ SetPool \/ QueryErr \/ Abort \/ GroupDone
    \/ \E answer \in SUBSET Rows[grp] : QueryOk(answer)
    \/ \E r \in rows : SetCell(r)

Spec == Init /\ [][Next]_vars

-----------------------------------------------------------------------------
(* Safety *)

\* The last collect up to m whose answer had row r in group g.
LastWith(g, r, m) ==
    LET hits == {i \in 1..m : r \in seen[g][i]}
    IN  IF hits = {} THEN 0 ELSE CHOOSE i \in hits : \A j \in hits : j <= i

\* At any moment each gauge carries the last snapshot that had its row, or, while
\* that row waits to be written, the one before it.  Failed
\* and aborted collects leave no gauge with anything else (metrics.rs:238-287).
GaugesCarryLastSnapshot ==
    \A c \in Cells :
        LET g == c[1]
            r == c[2]
            waits == at = "write" /\ grp = g /\ r \in rows /\ ~(row = r /\ c[3] <= fam)
        IN  cell[c] = LastWith(g, r, IF waits THEN n - 1 ELSE n)

\* Freshness follows the order of the queries: a lock or table gauge of collect m
\* proves that every row m found in an earlier group was written in full before
\* it.  An early return leaves the later groups stale, never the earlier ones.
EarlierGroupsAreFresher ==
    \A c, d \in Cells :
        d[1] < c[1] /\ cell[c] > 0 =>
            /\ seen[d[1]][cell[c]] # NotRun
            /\ d[2] \in seen[d[1]][cell[c]] => cell[d] >= cell[c]

\* Outside the three set() calls the pool gauges come from one status: together
\* they never exceed the pool (metrics.rs:232-235).  Between the calls two statuses
\* mix, and a scrape that reads there may find more connections than the pool has.
PoolGaugesFit ==
    at \notin {"active", "idling", "max"} => pool.in_use + pool.available <= pool.max_size

-----------------------------------------------------------------------------
(* What the comments claim and the code does not do *)

\* metrics.rs:168 "Active locks by mode": after a collect that succeeded, the modes
\* exported are those it found held.
LocksAreActive ==
    at = "idle" /\ n > 0 /\ seen[Locks][n] # NotRun =>
        \A c \in Cells : c[1] = Locks /\ cell[c] > 0 => c[2] \in seen[Locks][n]
=============================================================================
