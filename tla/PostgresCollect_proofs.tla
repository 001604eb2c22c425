----------------------- MODULE PostgresCollect_proofs -----------------------
(***************************************************************************)
(* Proofs about PostgresCollect, for any databases, tables and lock modes, *)
(* any number of gauges for each row, any pool and any number of collects. *)
(***************************************************************************)
EXTENDS PostgresCollect, Integers, TLAPS

-----------------------------------------------------------------------------
(* The inductive invariant *)

Running == at \in {"active", "idling", "max", "query", "write"}

\* Between two answers nothing waits to be written; a row is under way exactly
\* when some of its gauges are set.
Shape ==
    /\ DOMAIN seen = Groups
    /\ at \in {"idle", "active", "idling", "max"} => grp = 1
    /\ at # "write" => rows = {}
    /\ row = None <=> fam = 0
    /\ Running => n >= 1

\* Queries are answered in order: those of a collect are a prefix of Groups, and
\* the running one has its answers up to the group it is at.
InOrder ==
    /\ \A g \in Groups, i \in 1..MaxCollects :
          seen[g][i] # NotRun => i <= n /\ \A h \in Groups : h < g => seen[h][i] # NotRun
    /\ Running =>
          /\ \A g \in Groups : g > grp => seen[g][n] = NotRun
          /\ \A g \in Groups : g < grp => seen[g][n] # NotRun
          /\ at # "write" => seen[grp][n] = NotRun
    /\ at = "write" => seen[grp][n] # NotRun /\ rows \subseteq seen[grp][n]

\* Gauge c waits for its value of the running collect.
Waits(c) == at = "write" /\ grp = c[1] /\ c[2] \in rows /\ ~(row = c[2] /\ c[3] <= fam)

\* k is the last collect up to m that found r in group g, 0 if there is none.
IsLast(k, g, r, m) ==
    /\ k \in 0..m
    /\ k > 0 => r \in seen[g][k]
    /\ \A i \in 1..m : r \in seen[g][i] => i <= k

CellsAreLast ==
    \A c \in Cells : IsLast(cell[c], c[1], c[2], IF Waits(c) THEN n - 1 ELSE n)

Fits(s) == s.in_use + s.available <= s.max_size

\* The pool's gauges are overwritten in the order of the set() calls.
PoolFollows ==
    /\ Fits(status)
    /\ at \in {"idling", "max"} => pool.in_use = status.in_use
    /\ at = "max" => pool.available = status.available
    /\ PoolGaugesFit

IInv == TypeOK /\ Shape /\ InOrder /\ CellsAreLast /\ PoolFollows

-----------------------------------------------------------------------------
(* Lemmas about the gauges and about LastWith *)

\* A gauge is named by its group, its row and its place in the row.
LEMMA CellParts ==
    ASSUME NEW c \in Cells
    PROVE  /\ c = <<c[1], c[2], c[3]>>
           /\ c[1] \in Groups /\ c[2] \in Rows[c[1]] /\ c[2] # None
           /\ c[3] \in 1..Width[c[1]] /\ Width[c[1]] \in Nat
<1>1. PICK g \in Groups : c \in {g} \X Rows[g] \X (1..Width[g])
  BY DEF Cells
<1>2. c = <<c[1], c[2], c[3]>> /\ c[1] = g /\ c[2] \in Rows[g] /\ c[3] \in 1..Width[g]
  BY <1>1
<1> QED
  BY <1>1, <1>2, PostgresAssumption DEF PostgresAssumption

LEMMA CellOf ==
    ASSUME NEW g \in Groups, NEW r \in Rows[g], NEW f \in 1..Width[g]
    PROVE  <<g, r, f>> \in Cells
<1>1. <<g, r, f>> \in {g} \X Rows[g] \X (1..Width[g])
  OBVIOUS
<1> QED
  BY <1>1 DEF Cells

\* No row is the mark of a query that did not run.
LEMMA NoRowInNotRun == \A c \in Cells : c[2] \notin NotRun
BY CellParts DEF NotRun

\* LastWith chooses the only number that IsLast describes.
LEMMA LastIsUnique ==
    ASSUME NEW g, NEW r, NEW m \in Int, NEW k, IsLast(k, g, r, m)
    PROVE  LastWith(g, r, m) = k
<1> DEFINE hits == {i \in 1..m : r \in seen[g][i]}
<1>1. k \in 0..m /\ (k > 0 => k \in hits) /\ \A i \in hits : i <= k
  BY DEF IsLast
<1>2. CASE hits = {}
  BY <1>1, <1>2 DEF LastWith
<1>3. CASE hits # {}
  <2>1. k \in hits
    BY <1>1, <1>3
  <2>2. \A x \in hits : (\A j \in hits : j <= x) => x = k
    BY <1>1, <2>1
  <2>3. k = CHOOSE i \in hits : \A j \in hits : j <= i
    BY <1>1, <2>1, <2>2
  <2> QED
    BY <1>3, <2>3 DEF LastWith
<1> QED
  BY <1>2, <1>3

\* Every status an adapter can report is one of a pool that fits (deadpool.rs,
\* r2d2.rs: idle connections are among the existing ones; seaorm.rs: zeros).
LEMMA StatusFits ==
    ASSUME NEW a \in Adapters, NEW s \in PoolStatuses(a)
    PROVE  s \in PoolStatus /\ Fits(s)
<1>1. PoolSize \in Nat
  BY PostgresAssumption DEF PostgresAssumption
<1>2. CASE a = "seaorm"
  BY <1>1, <1>2 DEF PoolStatuses, PoolStatus, Fits
<1>3. CASE a # "seaorm"
  <2>1. PICK t \in 0..PoolSize : \E i \in 0..t :
            s = [in_use |-> InUse(t, i), available |-> i, max_size |-> PoolSize]
    BY <1>3 DEF PoolStatuses
  <2>2. PICK i \in 0..t : s = [in_use |-> InUse(t, i), available |-> i, max_size |-> PoolSize]
    BY <2>1
  <2>3. InUse(t, i) = t - i
    BY <1>1, <2>1, <2>2 DEF InUse
  <2> QED
    BY <1>1, <2>1, <2>2, <2>3 DEF PoolStatus, Fits
<1> QED
  BY <1>2, <1>3

\* Before the first collect every gauge of a row is absent.
LEMMA InitIInv == Init => IInv
<1> SUFFICES ASSUME Init PROVE IInv
  OBVIOUS
<1> USE DEF Init
<1>1. PoolSize \in Nat /\ MaxCollects \in Nat /\ \A g \in Groups : Width[g] \in Nat \ {0}
  BY PostgresAssumption DEF PostgresAssumption
<1>2. TypeOK
  <2>1. status \in PoolStatus /\ pool \in PoolStatus
    BY <1>1 DEF Zeros, PoolStatus
  <2>2. cell \in [Cells -> 0..n]
    OBVIOUS
  <2>3. ASSUME NEW g \in Groups
        PROVE  seen[g] \in [1..MaxCollects -> (SUBSET Rows[g]) \cup {NotRun}]
    <3>1. seen[g] = [i \in 1..MaxCollects |-> NotRun]
      OBVIOUS
    <3> DEFINE T == (SUBSET Rows[g]) \cup {NotRun}
    <3>2. NotRun \in T
      OBVIOUS
    <3> HIDE DEF T
    <3>3. [i \in 1..MaxCollects |-> NotRun] \in [1..MaxCollects -> T]
      BY <3>2
    <3> QED
      BY <3>1, <3>3 DEF T
  <2>4. grp \in Groups /\ fam \in 0..(Width[grp] - 1)
    BY <1>1 DEF Groups
  <2> QED
    BY <1>1, <2>1, <2>2, <2>3, <2>4 DEF TypeOK
<1>3. Shape /\ InOrder
  BY <1>1 DEF Shape, InOrder, Running, Groups
<1>4. CellsAreLast
  BY DEF CellsAreLast, IsLast, Waits
<1>5. PoolFollows
  BY DEF PoolFollows, PoolGaugesFit, Fits, Zeros
<1> QED
  BY <1>2, <1>3, <1>4, <1>5 DEF IInv

\* A step that answers no query and sets no gauge of a row leaves them as they are.
LEMMA SameCells ==
    ASSUME IInv, UNCHANGED <<n, cell, seen>>, \A c \in Cells : Waits(c)' = Waits(c)
    PROVE  CellsAreLast'
BY DEF IInv, CellsAreLast, IsLast

-----------------------------------------------------------------------------
(* One lemma per action *)

\* A collect begins without an answer: what was last stays last.
LEMMA BeginKeeps == ASSUME IInv, Begin PROVE IInv'
<1> USE DEF Begin
<1>1. n \in 0..MaxCollects /\ MaxCollects \in Nat /\ n' = n + 1 /\ n' \in 1..MaxCollects
  BY PostgresAssumption DEF PostgresAssumption, IInv, TypeOK
<1>2. status' \in PoolStatus /\ Fits(status')
  BY StatusFits DEF IInv, TypeOK
<1>3. TypeOK'
  BY <1>1, <1>2 DEF IInv, TypeOK, writing
<1>4. Shape'
  BY <1>1 DEF IInv, Shape, Running, writing
<1>5. \A g \in Groups : seen[g][n'] = NotRun
  BY <1>1 DEF IInv, InOrder
<1>6. InOrder'
  <2>1. grp = 1 /\ \A g \in Groups : ~(g < grp)
    BY DEF IInv, Shape, Groups
  <2> QED
    BY <1>1, <1>5, <2>1 DEF IInv, InOrder, TypeOK, Running, writing
<1>7. CellsAreLast'
  <2> SUFFICES ASSUME NEW c \in Cells PROVE IsLast(cell[c], c[1], c[2], n)'
    BY DEF CellsAreLast, Waits
  <2>1. IsLast(cell[c], c[1], c[2], n)
    BY DEF IInv, CellsAreLast, Waits
  <2>2. c[2] \notin seen[c[1]][n + 1]
    BY <1>1, <1>5, NoRowInNotRun, CellParts
  <2> QED
    BY <1>1, <2>1, <2>2 DEF IsLast
<1>8. PoolFollows'
  BY <1>2 DEF PoolFollows, PoolGaugesFit, Fits
<1> QED
  BY <1>3, <1>4, <1>6, <1>7, <1>8 DEF IInv

\* The last of the three set() calls makes the pool's gauges one status again.
LEMMA SetPoolKeeps == ASSUME IInv, SetPool PROVE IInv'
<1> USE DEF SetPool
<1>1. TypeOK' /\ Shape' /\ InOrder'
  <2>1. TypeOK'
    BY DEF IInv, TypeOK, PoolStatus, writing
  <2>2. Shape'
    BY DEF IInv, Shape, Running, writing
  <2>3. InOrder'
    BY DEF IInv, InOrder, Running, writing
  <2> QED
    BY <2>1, <2>2, <2>3
<1>2. CellsAreLast'
  BY SameCells DEF Waits, writing
<1>3. PoolFollows'
  BY DEF IInv, TypeOK, PoolStatus, PoolFollows, PoolGaugesFit, Fits, writing
<1> QED
  BY <1>1, <1>2, <1>3 DEF IInv

\* An answer makes every row in it wait, and no gauge of another row wait.
LEMMA QueryOkKeeps ==
    ASSUME IInv, NEW answer \in SUBSET Rows[grp], QueryOk(answer) PROVE IInv'
<1> USE DEF QueryOk
<1>1. /\ grp \in Groups /\ n \in 1..MaxCollects /\ MaxCollects \in Nat
      /\ seen[grp][n] = NotRun /\ row = None /\ fam = 0
      /\ DOMAIN seen = Groups
      /\ \A g \in Groups : seen[g] \in [1..MaxCollects -> (SUBSET Rows[g]) \cup {NotRun}]
  BY PostgresAssumption DEF PostgresAssumption, IInv, TypeOK, Shape, InOrder, Running
<1>2. /\ \A g \in Groups, i \in 1..MaxCollects :
             seen'[g][i] = IF g = grp /\ i = n THEN answer ELSE seen[g][i]
      /\ DOMAIN seen' = Groups
      /\ \A g \in Groups : seen'[g] \in [1..MaxCollects -> (SUBSET Rows[g]) \cup {NotRun}]
  BY <1>1
<1>3. answer # NotRun
  BY <1>1, PostgresAssumption DEF PostgresAssumption, NotRun
<1>4. TypeOK'
  BY <1>1, <1>2 DEF IInv, TypeOK
<1>5. Shape'
  BY <1>1, <1>2 DEF IInv, Shape, Running
<1>6. InOrder'
  <2>1. ASSUME NEW g \in Groups, NEW i \in 1..MaxCollects, seen'[g][i] # NotRun
        PROVE  i <= n /\ \A h \in Groups : h < g => seen'[h][i] # NotRun
    <3>1. CASE g = grp /\ i = n
      BY <1>1, <1>2, <1>3, <3>1 DEF IInv, InOrder, Running, Groups
    <3>2. CASE ~(g = grp /\ i = n)
      BY <1>1, <1>2, <1>3, <2>1, <3>2 DEF IInv, InOrder
    <3> QED
      BY <3>1, <3>2
  <2>2. /\ \A g \in Groups : g > grp => seen'[g][n] = NotRun
        /\ \A g \in Groups : g < grp => seen'[g][n] # NotRun
        /\ seen'[grp][n] # NotRun /\ answer \subseteq seen'[grp][n]
    BY <1>1, <1>2, <1>3 DEF IInv, InOrder, Running, Groups
  <2> QED
    BY <2>1, <2>2 DEF InOrder
<1>7. CellsAreLast'
  <2> SUFFICES ASSUME NEW c \in Cells
               PROVE  IsLast(cell[c], c[1], c[2], IF Waits(c) THEN n - 1 ELSE n)'
    BY DEF CellsAreLast
  <2>1. IsLast(cell[c], c[1], c[2], n)
    BY DEF IInv, CellsAreLast, Waits
  <2>2. c[1] \in Groups /\ c[2] \notin seen[grp][n] /\ c[2] # None
    BY <1>1, CellParts, NoRowInNotRun
  <2>3. CASE c[1] = grp /\ c[2] \in answer
    <3>1. Waits(c)'
      BY <1>1, <2>2, <2>3 DEF Waits
    <3>2. cell[c] # n
      BY <1>1, <2>1, <2>2, <2>3 DEF IsLast
    <3>3. IsLast(cell[c], c[1], c[2], n - 1)'
      BY <1>1, <1>2, <2>1, <2>2, <3>2 DEF IsLast
    <3> QED
      BY <3>1, <3>3
  <2>4. CASE ~(c[1] = grp /\ c[2] \in answer)
    <3>1. ~Waits(c)'
      BY <2>4 DEF Waits
    <3>2. IsLast(cell[c], c[1], c[2], n)'
      BY <1>1, <1>2, <2>1, <2>2, <2>4 DEF IsLast
    <3> QED
      BY <3>1, <3>2
  <2> QED
    BY <2>3, <2>4
<1>8. PoolFollows'
  BY DEF IInv, PoolFollows, PoolGaugesFit, Fits
<1> QED
  BY <1>4, <1>5, <1>6, <1>7, <1>8 DEF IInv

\* `?` ends the collect before the group it is at is answered.
LEMMA QueryErrKeeps == ASSUME IInv, QueryErr PROVE IInv'
<1> USE DEF QueryErr
<1>1. rows = {} /\ row = None /\ fam = 0
  BY DEF IInv, Shape, TypeOK
<1>2. TypeOK'
  <2>1. 1 \in Groups /\ Width[1] \in Nat \ {0}
    BY PostgresAssumption DEF PostgresAssumption, Groups
  <2> QED
    BY <1>1, <2>1 DEF IInv, TypeOK, writing
<1>3. Shape' /\ InOrder'
  BY DEF IInv, Shape, InOrder, Running, writing
<1>4. CellsAreLast'
  BY SameCells DEF Waits
<1>5. PoolFollows'
  BY DEF IInv, PoolFollows, PoolGaugesFit, Fits
<1> QED
  BY <1>2, <1>3, <1>4, <1>5 DEF IInv

\* The loop ends where no row is under way.
LEMMA AbortKeeps == ASSUME IInv, Abort PROVE IInv'
<1> USE DEF Abort
<1>1. TypeOK'
  BY DEF IInv, TypeOK, writing
<1>2. Shape' /\ InOrder'
  BY DEF IInv, Shape, InOrder, Running, writing
<1>3. CellsAreLast'
  BY SameCells DEF Waits
<1>4. PoolFollows'
  BY DEF IInv, PoolFollows, PoolGaugesFit, Fits
<1> QED
  BY <1>1, <1>2, <1>3, <1>4 DEF IInv

\* A set() serves one gauge that waited, and no other one stops waiting.
LEMMA SetCellKeeps == ASSUME IInv, NEW r \in rows, SetCell(r) PROVE IInv'
<1> DEFINE c0 == <<grp, r, fam + 1>>
<1>1. /\ at = "write" /\ r \in rows /\ row \in {r, None} /\ at' = at
      /\ cell' = [cell EXCEPT ![c0] = n]
      /\ IF fam + 1 = Width[grp]
           THEN rows' = rows \ {r} /\ row' = None /\ fam' = 0
           ELSE rows' = rows /\ row' = r /\ fam' = fam + 1
      /\ UNCHANGED <<adapter, n, grp, status, pool, seen>>
  BY DEF SetCell
<1>2. /\ grp \in Groups /\ n \in 1..MaxCollects /\ MaxCollects \in Nat
      /\ rows \subseteq Rows[grp] /\ rows \subseteq seen[grp][n] /\ None \notin rows
      /\ Width[grp] \in Nat \ {0} /\ fam \in 0..(Width[grp] - 1)
      /\ (row = None <=> fam = 0)
  BY <1>1, PostgresAssumption
     DEF PostgresAssumption, IInv, TypeOK, Shape, InOrder, Running
<1>3. c0 \in Cells
  BY <1>2, CellOf
<1>4. TypeOK'
  BY <1>1, <1>2, <1>3 DEF IInv, TypeOK
<1>5. Shape' /\ InOrder'
  BY <1>1, <1>2 DEF IInv, Shape, InOrder, Running
<1>6. ASSUME NEW c \in Cells, c # c0 PROVE Waits(c)' = Waits(c)
  <2>1. /\ c = <<c[1], c[2], c[3]>> /\ c[2] # None
        /\ c[1] = grp => c[3] \in 1..Width[grp]
    BY CellParts
  <2>2. CASE c[1] = grp /\ c[2] = r
    <3>1. c[3] # fam + 1
      BY <1>6, <2>1, <2>2
    <3>2. Waits(c) = (c[3] > fam)
      BY <1>1, <1>2, <2>1, <2>2 DEF Waits
    <3>3. Waits(c)' = (c[3] > fam + 1)
      BY <1>1, <1>2, <2>1, <2>2, <3>1 DEF Waits
    <3> QED
      BY <1>2, <2>1, <2>2, <3>1, <3>2, <3>3
  <2>3. CASE c[1] = grp /\ c[2] # r
    BY <1>1, <1>2, <2>1, <2>3 DEF Waits
  <2>4. CASE c[1] # grp
    BY <1>1, <2>4 DEF Waits
  <2> QED
    BY <2>2, <2>3, <2>4
<1>7. CellsAreLast'
  <2> SUFFICES ASSUME NEW c \in Cells
               PROVE  IsLast(cell[c], c[1], c[2], IF Waits(c) THEN n - 1 ELSE n)'
    BY DEF CellsAreLast
  <2>1. CASE c = c0
    <3>1. ~Waits(c)'
      BY <1>1, <1>2, <2>1 DEF Waits
    <3>2. cell'[c] = n
      BY <1>1, <1>3, <2>1 DEF IInv, TypeOK
    <3>3. IsLast(cell[c], c[1], c[2], n)'
      BY <1>1, <1>2, <2>1, <3>2 DEF IsLast
    <3> QED
      BY <3>1, <3>3
  <2>2. CASE c # c0
    <3>1. cell'[c] = cell[c] /\ Waits(c)' = Waits(c)
      BY <1>1, <1>6, <2>2 DEF IInv, TypeOK
    <3> QED
      BY <1>1, <3>1 DEF IInv, CellsAreLast, IsLast
  <2> QED
    BY <2>1, <2>2
<1>8. PoolFollows'
  BY <1>1 DEF IInv, PoolFollows, PoolGaugesFit, Fits
<1> QED
  BY <1>4, <1>5, <1>7, <1>8 DEF IInv

\* A group is left when all its rows are written: nothing waits before or after.
LEMMA GroupDoneKeeps == ASSUME IInv, GroupDone PROVE IInv'
<1> USE DEF GroupDone
<1>1. grp \in Groups /\ rows = {} /\ row = None /\ fam = 0 /\ UNCHANGED <<rows, row, fam>>
  BY DEF IInv, TypeOK, Shape, writing
<1>2. grp' \in Groups /\ Width[grp'] \in Nat \ {0}
  BY <1>1, PostgresAssumption DEF PostgresAssumption, Groups
<1>3. TypeOK'
  BY <1>1, <1>2 DEF IInv, TypeOK
<1>4. Shape'
  BY <1>1 DEF IInv, Shape, Running
<1>5. InOrder'
  BY <1>1 DEF IInv, InOrder, Running, Groups
<1>6. CellsAreLast'
  BY <1>1, SameCells DEF Waits
<1>7. PoolFollows'
  BY DEF IInv, PoolFollows, PoolGaugesFit, Fits
<1> QED
  BY <1>3, <1>4, <1>5, <1>6, <1>7 DEF IInv

\* Nor does a step of anything else.
LEMMA StutterKeeps == ASSUME IInv, UNCHANGED vars PROVE IInv'
<1>1. CellsAreLast'
  BY SameCells DEF Waits, vars, writing
<1>2. TypeOK' /\ Shape' /\ InOrder' /\ PoolFollows'
  BY DEF IInv, TypeOK, Shape, InOrder, Running, PoolFollows, PoolGaugesFit, Fits, vars, writing
<1> QED
  BY <1>1, <1>2 DEF IInv

-----------------------------------------------------------------------------
(* The theorems *)

\* The invariant holds in every reachable state.
THEOREM Invariance == Spec => []IInv
<1>1. IInv /\ [Next]_vars => IInv'
  BY BeginKeeps, SetPoolKeeps, QueryOkKeeps, QueryErrKeeps, AbortKeeps, SetCellKeeps,
     GroupDoneKeeps, StutterKeeps DEF Next
<1> QED
  BY <1>1, InitIInv, PTL DEF Spec

\* Every gauge and every position in a collect keeps its type.
THEOREM SpecTypeOK == Spec => []TypeOK
<1>1. IInv => TypeOK
  BY DEF IInv
<1> QED
  BY <1>1, Invariance, PTL

\* A gauge carries the last snapshot that had its row, or, while it waits, the one
\* before (metrics.rs:238-287).
THEOREM SpecGaugesCarryLastSnapshot == Spec => []GaugesCarryLastSnapshot
<1>1. IInv => GaugesCarryLastSnapshot
  <2> SUFFICES ASSUME IInv, NEW c \in Cells
               PROVE  cell[c] = LastWith(c[1], c[2], IF Waits(c) THEN n - 1 ELSE n)
    BY DEF GaugesCarryLastSnapshot, Waits
  <2>1. n \in Int
    BY PostgresAssumption DEF PostgresAssumption, IInv, TypeOK
  <2> QED
    BY <2>1, LastIsUnique DEF IInv, CellsAreLast
<1> QED
  BY <1>1, Invariance, PTL

\* The gauges of an earlier group are never older than those of a later one.
THEOREM SpecEarlierGroupsAreFresher == Spec => []EarlierGroupsAreFresher
<1>1. IInv => EarlierGroupsAreFresher
  <2> SUFFICES ASSUME IInv, NEW c \in Cells, NEW d \in Cells, d[1] < c[1], cell[c] > 0
               PROVE  /\ seen[d[1]][cell[c]] # NotRun
                      /\ d[2] \in seen[d[1]][cell[c]] => cell[d] >= cell[c]
    BY DEF EarlierGroupsAreFresher
  <2>1. /\ n \in 0..MaxCollects /\ MaxCollects \in Nat /\ cell[c] \in 0..n
        /\ c[1] \in Groups /\ d[1] \in Groups
    BY CellParts, PostgresAssumption DEF PostgresAssumption, IInv, TypeOK
  <2>2. cell[c] \in 1..n /\ c[2] \in seen[c[1]][cell[c]] /\ c[2] \notin NotRun
    BY <2>1, NoRowInNotRun DEF IInv, CellsAreLast, IsLast
  <2>3. seen[c[1]][cell[c]] # NotRun
    BY <2>2
  <2>4. seen[d[1]][cell[c]] # NotRun
    BY <2>1, <2>2, <2>3 DEF IInv, InOrder
  <2>5. ~(Waits(d) /\ cell[c] = n)
    BY <2>1, <2>3 DEF IInv, InOrder, Running, Waits
  <2>6. cell[c] \in 1..(IF Waits(d) THEN n - 1 ELSE n)
    BY <2>1, <2>2, <2>5
  <2> QED
    BY <2>1, <2>4, <2>6 DEF IInv, CellsAreLast, IsLast
<1> QED
  BY <1>1, Invariance, PTL

\* Outside the three set() calls the pool's gauges fit the pool, for each adapter.
THEOREM SpecPoolGaugesFit == Spec => []PoolGaugesFit
<1>1. IInv => PoolGaugesFit
  BY DEF IInv, PoolFollows
<1> QED
  BY <1>1, Invariance, PTL

\* A gauge never goes back to an older snapshot and never disappears, whatever later
\* collects find or fail to find: this is why locks nobody holds any more and tables
\* that were dropped stay (metrics.rs:243-286).
THEOREM SpecGaugesNeverAge == Spec => [][\A c \in Cells : cell'[c] >= cell[c]]_vars
<1> DEFINE Step == \A c \in Cells : cell'[c] >= cell[c]
<1>1. IInv /\ [Next]_vars => [Step]_vars
  <2> SUFFICES ASSUME IInv, Next PROVE Step
    OBVIOUS
  <2>1. /\ n \in Nat /\ cell \in [Cells -> 0..n]
    BY PostgresAssumption DEF PostgresAssumption, IInv, TypeOK
  <2>2. ASSUME NEW r \in rows, SetCell(r) PROVE Step
    <3>1. cell' = [cell EXCEPT ![<<grp, r, fam + 1>>] = n]
      BY <2>2 DEF SetCell
    <3> QED
      BY <2>1, <3>1
  <2>3. CASE UNCHANGED cell
    BY <2>1, <2>3
  <2> QED
    BY <2>2, <2>3 DEF Next, Begin, SetPool, QueryErr, Abort, GroupDone, QueryOk
<1> QED
  BY <1>1, Invariance, PTL DEF Spec
=============================================================================
