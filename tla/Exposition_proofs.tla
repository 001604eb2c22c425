-------------------------- MODULE Exposition_proofs --------------------------
(***************************************************************************)
(* Proofs about Exposition, for any requests and any orders in which the   *)
(* cells are gathered.  The invariant of HttpLayer is inherited: a scrape  *)
(* changes no cell.                                                        *)
(***************************************************************************)
EXTENDS Exposition, HttpLayer_proofs, SequenceTheorems

-----------------------------------------------------------------------------
(* The inductive invariant *)

Unread    == {unread[i] : i \in 1..Len(unread)}
ReadCells == Gathered \ Unread

\* The requests that each family, and in it each cell, accounts for.
InFamily(f) ==
    At(CASE f = "gauge"    -> {"inner", "answered", "lost"}
         [] f = "total"    -> {"counted", "timed", "returned"}
         [] f = "duration" -> {"timed", "returned"})

InCell(c) == {r \in InFamily(c[1]) : c[1] = "gauge" \/ Key(r) = c[2]}

\* In the cells of a family that were read: the requests that stand still there, and
\* those that moved, which in the gauge may have been seen before they left it.
ReadIn(f, r)  == \E c \in ReadCells : c[1] = f /\ r \in InCell(c)
Still(f)      == {r \in Requests \ moved : ReadIn(f, r)}
MovedIn(f)    == {r \in moved : (f = "gauge" /\ Gauge \in ReadCells) \/ ReadIn(f, r)}

ScrapeShape ==
    /\ scraping \in BOOLEAN /\ read \in [Families -> Nat] /\ moved \subseteq Requests
    /\ unread \in Seq(Gathered)
    /\ \A i, j \in 1..Len(unread) : unread[i] = unread[j] => i = j
    /\ ~scraping => read = NothingRead /\ moved = {} /\ unread = <<>>

\* What a family adds up to lies between its requests that stand still and these
\* with those that moved.
FamilyIsBounded(f) ==
    /\ Cardinality(Still(f)) <= read[f]
    /\ read[f] <= Cardinality(Still(f)) + Cardinality(MovedIn(f))

ScrapeInv == ScrapeShape /\ (scraping => \A f \in Families : FamilyIsBounded(f))

-----------------------------------------------------------------------------
(* Lemmas about cells and what they account for *)

\* Parts of a set of requests count for no more than the set, and two parts
\* without a common request for their sum.
LEMMA Parts ==
    ASSUME NEW S \in SUBSET Requests, NEW T \in SUBSET Requests
    PROVE  /\ Cardinality(S) \in Nat
           /\ S \subseteq T => Cardinality(S) <= Cardinality(T)
           /\ S \cap T = {} => Cardinality(S \cup T) = Cardinality(S) + Cardinality(T)
<1>1. /\ IsFiniteSet(S) /\ Cardinality(S) \in Nat
      /\ IsFiniteSet(T) /\ Cardinality(T) \in Nat
  BY Counting
<1>2. S \subseteq T => Cardinality(S) <= Cardinality(T)
  BY <1>1, FS_Subset
<1>3. ASSUME S \cap T = {} PROVE Cardinality(S \cup T) = Cardinality(S) + Cardinality(T)
  <2>1. Cardinality(S \cup T) = Cardinality(S) + Cardinality(T) - Cardinality(S \cap T)
    BY <1>1, FS_Union
  <2>2. Cardinality(S \cap T) = 0
    BY <1>3, FS_EmptySet
  <2> QED
    BY <1>1, <2>1, <2>2
<1> QED
  BY <1>1, <1>2, <1>3

\* A cell belongs to one of the families; those of one family but the gauge's only
\* cell are told apart by their series.
LEMMA CellTyped ==
    /\ \A c \in Gathered : c[1] \in Families /\ (c[1] = "gauge" <=> c = Gauge)
    /\ \A c \in Gathered : c # Gauge => c[2] \in Series
    /\ \A c, d \in Gathered : c[1] = d[1] /\ c[2] = d[2] => c = d
    /\ Gauge \in Gathered
<1>1. ASSUME NEW c \in Gathered
      PROVE  \/ c = Gauge
             \/ \E f \in {"total", "duration"}, r \in Requests, s \in Statuses :
                    c = <<f, <<PathLabel(r), s>>>>
  BY DEF Gathered
<1>2. ASSUME NEW r \in Requests PROVE PathLabel(r) \in Paths
  BY HttpAssumption DEF HttpAssumption, PathLabel
<1>3. /\ Gauge = <<"gauge", Pending>> /\ Gauge[1] = "gauge" /\ Gauge[2] = Pending
      /\ Gauge \in Gathered
  BY DEF Gauge, Gathered
<1>4. ASSUME NEW c \in Gathered, c # Gauge
      PROVE  c[1] \in {"total", "duration"} /\ c[2] \in Series /\ c = <<c[1], c[2]>>
  BY <1>1, <1>2, <1>4 DEF Series
<1>5. ASSUME NEW c \in Gathered PROVE c[1] \in Families /\ (c[1] = "gauge" <=> c = Gauge)
  BY <1>3, <1>4 DEF Families
<1>6. ASSUME NEW c \in Gathered, NEW d \in Gathered, c[1] = d[1], c[2] = d[2] PROVE c = d
  BY <1>4, <1>5, <1>6
<1> QED
  BY <1>3, <1>4, <1>5, <1>6

\* A request is in one cell of a family at most.
LEMMA OneCell ==
    ASSUME NEW c \in Gathered, NEW d \in Gathered, c[1] = d[1],
           NEW r, r \in InCell(c), r \in InCell(d)
    PROVE  c = d
<1>1. CASE c[1] = "gauge"
  BY <1>1, CellTyped
<1>2. CASE c[1] # "gauge"
  BY <1>2, CellTyped DEF InCell
<1> QED
  BY <1>1, <1>2

\* What a cell shows is the number of requests it accounts for.
LEMMA ValueCounts ==
    ASSUME IInv, NEW c \in Gathered
    PROVE  Value(c) = Cardinality(InCell(c)) /\ InCell(c) \in SUBSET Requests
<1>1. InCell(c) \in SUBSET Requests
  BY DEF InCell, InFamily, At
<1>2. CASE c[1] = "gauge"
  <2> DEFINE A == At({"inner", "answered"})
             L == At({"lost"})
  <2>1. InFamily("gauge") = At({"inner", "answered", "lost"})
    BY DEF InFamily
  <2>2. /\ A \in SUBSET Requests /\ L \in SUBSET Requests /\ A \cap L = {}
        /\ InCell(c) = A \cup L
    BY <1>2, <2>1 DEF At, InCell
  <2>3. Cardinality(A \cup L) = Cardinality(A) + Cardinality(L)
    BY <2>2, Parts
  <2>4. Value(c) = inFlight
    BY <1>2 DEF Value
  <2> QED
    BY <1>1, <2>2, <2>3, <2>4 DEF IInv, Accounts, InFlightAccountsForAll
<1>3. CASE c[1] = "total"
  <2>1. PICK p \in Paths, s \in Statuses : c[2] = <<p, s>>
    BY <1>3, CellTyped DEF Series
  <2>2. ASSUME NEW r \in Requests
        PROVE  (p = Template[r] \/ (Template[r] = Unmatched /\ p = RawPath[r]))
                   <=> PathLabel(r) = p
    BY HttpAssumption DEF HttpAssumption, PathLabel
  <2>3. InFamily("total") = At({"counted", "timed", "returned"})
    BY DEF InFamily
  <2>4. InCell(c) = ExpectedIn(p, s)
    BY <1>3, <2>1, <2>2, <2>3 DEF InCell, ExpectedIn, Key, StatusLabel, At
  <2>5. Value(c) = total[<<p, s>>]
    BY <1>3, <2>1 DEF Value
  <2> QED
    BY <1>1, <2>4, <2>5 DEF IInv, Accounts, TotalsAreExact
<1>4. CASE c[1] = "duration"
  <2>1. PICK p \in Paths, s \in Statuses : c[2] = <<p, s>>
    BY <1>4, CellTyped DEF Series
  <2> DEFINE N == {r \in At({"counted"}) : Key(r) = <<p, s>>}
  <2>2. ASSUME NEW r \in Requests
        PROVE  (p = Template[r] \/ (Template[r] = Unmatched /\ p = RawPath[r]))
                   <=> PathLabel(r) = p
    BY HttpAssumption DEF HttpAssumption, PathLabel
  <2>3. InFamily("duration") = At({"timed", "returned"})
    BY DEF InFamily
  <2>4. /\ ExpectedIn(p, s) = InCell(c) \cup N /\ InCell(c) \cap N = {}
        /\ N \in SUBSET Requests
    BY <1>4, <2>1, <2>2, <2>3 DEF InCell, ExpectedIn, Key, StatusLabel, At
  <2>5. Cardinality(ExpectedIn(p, s)) = Cardinality(InCell(c)) + Cardinality(N)
    BY <1>1, <2>4, Parts
  <2>6. total[<<p, s>>] = dur[<<p, s>>] + Cardinality(N)
    BY DEF IInv, Accounts, DurationsTrackTotals, Series
  <2>7. total[<<p, s>>] = Cardinality(ExpectedIn(p, s))
    BY DEF IInv, Accounts, TotalsAreExact
  <2>8. dur[<<p, s>>] \in Nat
    BY DEF IInv, TypeOK, Series
  <2>9. Cardinality(InCell(c)) \in Nat /\ Cardinality(N) \in Nat
    BY <1>1, <2>4, Parts
  <2>10. Value(c) = dur[<<p, s>>]
    BY <1>4, <2>1 DEF Value
  <2> HIDE DEF N
  <2>11. dur[<<p, s>>] = Cardinality(InCell(c))
    BY <2>5, <2>6, <2>7, <2>8, <2>9
  <2> QED
    BY <1>1, <2>10, <2>11
<1> QED
  BY <1>2, <1>3, <1>4, CellTyped DEF Families

\* Reading a cell adds to the cells read one that was not among them.
LEMMA ReadAdds ==
    ASSUME ScrapeShape, Read
    PROVE  /\ Head(unread) \in Gathered /\ Head(unread) \notin ReadCells
           /\ ReadCells' = ReadCells \cup {Head(unread)}
           /\ ScrapeShape' <=> read' \in [Families -> Nat]
<1> USE DEF Read
<1>1. /\ Len(unread) \in Nat /\ Len(unread) >= 1
      /\ Head(unread) = unread[1] /\ Head(unread) \in Gathered
      /\ Tail(unread) \in Seq(Gathered) /\ Len(Tail(unread)) = Len(unread) - 1
      /\ \A i \in 1..Len(Tail(unread)) : Tail(unread)[i] = unread[i + 1]
  BY HeadTailProperties, EmptySeq, LenProperties DEF ScrapeShape
<1>2. \A i \in 1..Len(unread) : i # 1 => i - 1 \in 1..Len(Tail(unread))
  BY <1>1
<1>3. \A i \in 1..Len(Tail(unread)) : i + 1 \in 1..Len(unread) /\ i + 1 # 1
  BY <1>1
<1>4. Unread = Unread' \cup {Head(unread)}
  <2>1. ASSUME NEW i \in 1..Len(unread) PROVE unread[i] \in Unread' \cup {Head(unread)}
    <3>1. CASE i = 1
      BY <1>1, <3>1
    <3>2. CASE i # 1
      <4>1. i - 1 \in 1..Len(Tail(unread)) /\ (i - 1) + 1 = i
        BY <1>2, <3>2
      <4>2. Tail(unread)[i - 1] = unread[i]
        BY <1>1, <4>1
      <4> QED
        BY <4>1, <4>2 DEF Unread
    <3> QED
      BY <3>1, <3>2
  <2>2. ASSUME NEW i \in 1..Len(Tail(unread)) PROVE Tail(unread)[i] \in Unread
    BY <1>1, <1>3 DEF Unread
  <2>3. Head(unread) \in Unread
    BY <1>1 DEF Unread
  <2> QED
    BY <2>1, <2>2, <2>3 DEF Unread
<1>5. Head(unread) \notin Unread'
  <2> SUFFICES ASSUME NEW i \in 1..Len(Tail(unread)), Tail(unread)[i] = Head(unread)
               PROVE  FALSE
    BY DEF Unread
  <2>1. unread[i + 1] = unread[1] /\ i + 1 \in 1..Len(unread) /\ 1 \in 1..Len(unread)
    BY <1>1, <1>3
  <2>2. i + 1 = 1
    BY <2>1 DEF ScrapeShape
  <2> QED
    BY <2>2
<1>6. Gathered' = Gathered
  BY DEF Gathered
<1>7. ReadCells' = ReadCells \cup {Head(unread)} /\ Head(unread) \notin ReadCells
  BY <1>1, <1>4, <1>5, <1>6 DEF ReadCells
<1>8. \A i, j \in 1..Len(unread') : unread'[i] = unread'[j] => i = j
  <2> SUFFICES ASSUME NEW i \in 1..Len(Tail(unread)), NEW j \in 1..Len(Tail(unread)),
                      Tail(unread)[i] = Tail(unread)[j]
               PROVE  i = j
    OBVIOUS
  <2>1. unread[i + 1] = unread[j + 1] /\ i + 1 \in 1..Len(unread) /\ j + 1 \in 1..Len(unread)
    BY <1>1, <1>3
  <2>2. i + 1 = j + 1
    BY <2>1 DEF ScrapeShape
  <2> QED
    BY <2>2
<1>9. scraping /\ scraping' = scraping /\ moved' = moved
  BY <1>1, EmptySeq DEF ScrapeShape
<1>10. ScrapeShape' <=> read' \in [Families -> Nat]
  BY <1>1, <1>6, <1>8, <1>9 DEF ScrapeShape
<1> QED
  BY <1>1, <1>7, <1>10

-----------------------------------------------------------------------------
(* Steps of the scrape *)

LEMMA ScrapeInit == ExpositionInit => ScrapeInv
<1> SUFFICES ASSUME ExpositionInit PROVE ScrapeInv
  OBVIOUS
<1>1. scraping = FALSE /\ read = NothingRead /\ moved = {} /\ unread = <<>>
  BY DEF ExpositionInit
<1>2. unread \in Seq(Gathered) /\ Len(unread) = 0
  BY <1>1, EmptySeq
<1>3. read \in [Families -> Nat]
  BY <1>1 DEF NothingRead
<1>4. \A i, j \in 1..Len(unread) : unread[i] = unread[j] => i = j
  <2> SUFFICES 1..Len(unread) = {}
    OBVIOUS
  <2> QED
    BY <1>2
<1> QED
  BY <1>1, <1>2, <1>3, <1>4 DEF ScrapeInv, ScrapeShape

\* A scrape begins with no cell read and nothing added up.
LEMMA ScrapeBeginKeeps == ASSUME ScrapeInv, ScrapeBegin PROVE ScrapeInv'
<1> USE DEF ScrapeBegin
<1>1. read = NothingRead /\ read' = read /\ moved = {} /\ moved' = {} /\ scraping'
  BY DEF ScrapeInv, ScrapeShape
<1>2. read' \in [Families -> Nat] /\ \A f \in Families : read'[f] = 0
  BY <1>1 DEF NothingRead
<1>3. /\ unread' \in Seq(Gathered)
      /\ \A c \in Gathered : \E i \in 1..Len(unread') : unread'[i] = c
      /\ \A i, j \in 1..Len(unread') : unread'[i] = unread'[j] => i = j
  BY ExpositionAssumption DEF ExpositionAssumption
<1>4. ScrapeShape'
  BY <1>1, <1>2, <1>3 DEF ScrapeShape
<1>5. ReadCells' = {}
  <2>1. Gathered' = Gathered
    BY DEF Gathered
  <2>2. \A c \in Gathered : c \in Unread'
    BY <1>3 DEF Unread
  <2> QED
    BY <2>1, <2>2 DEF ReadCells
<1>6. \A f : Still(f)' = {} /\ MovedIn(f)' = {}
  BY <1>1, <1>5 DEF Still, MovedIn, ReadIn
<1>7. \A f \in Families : FamilyIsBounded(f)'
  BY <1>2, <1>6, FS_EmptySet DEF FamilyIsBounded
<1> QED
  BY <1>4, <1>7 DEF ScrapeInv

\* Each request of the cell that is read adds one to its family: as one that stands
\* still, or as one that moved.
LEMMA ReadKeeps == ASSUME IInv, ScrapeInv, Read PROVE ScrapeInv'
<1>1. PICK c \in Gathered : c = Head(unread)
  BY ReadAdds DEF ScrapeInv
<1> DEFINE g == c[1]
           A == InCell(c) \ moved
           B == InCell(c) \cap moved
<1>2. c \notin ReadCells /\ ReadCells' = ReadCells \cup {c}
      /\ (ScrapeShape' <=> read' \in [Families -> Nat])
  BY <1>1, ReadAdds DEF ScrapeInv
<1>3. /\ scraping /\ read \in [Families -> Nat] /\ moved \in SUBSET Requests
      /\ g \in Families /\ read' = [read EXCEPT ![g] = @ + Value(c)]
      /\ UNCHANGED <<vars, scraping, moved>>
  BY <1>1, CellTyped, EmptySeq DEF ScrapeInv, ScrapeShape, Read
<1>4. /\ Value(c) = Cardinality(A) + Cardinality(B)
      /\ Cardinality(A) \in Nat /\ Cardinality(B) \in Nat
  <2>1. A \in SUBSET Requests /\ B \in SUBSET Requests /\ A \cap B = {} /\ A \cup B = InCell(c)
    BY ValueCounts
  <2> QED
    BY <2>1, Parts, ValueCounts
<1>5. \A d : InCell(d)' = InCell(d)
  <2>1. pc' = pc /\ \A r : Key(r)' = Key(r)
    BY <1>3 DEF Key, PathLabel, StatusLabel, vars
  <2>2. \A f : InFamily(f)' = InFamily(f)
    BY <2>1 DEF InFamily, At
  <2> QED
    BY <2>1, <2>2 DEF InCell
<1>6. ScrapeShape'
  BY <1>2, <1>3, <1>4
<1>7. ASSUME NEW f \in Families, f # g PROVE FamilyIsBounded(f)'
  <2>1. \A r : ReadIn(f, r)' <=> ReadIn(f, r)
    BY <1>2, <1>5, <1>7 DEF ReadIn
  <2>2. f = "gauge" => (Gauge \in ReadCells' <=> Gauge \in ReadCells)
    BY <1>2, <1>7, CellTyped
  <2>3. Still(f)' = Still(f) /\ MovedIn(f)' = MovedIn(f)
    BY <1>3, <2>1, <2>2 DEF Still, MovedIn
  <2>4. read'[f] = read[f] /\ FamilyIsBounded(f)
    BY <1>3, <1>7 DEF ScrapeInv
  <2> QED
    BY <2>3, <2>4 DEF FamilyIsBounded
<1>8. FamilyIsBounded(g)'
  <2>1. \A r : ReadIn(g, r)' <=> ReadIn(g, r) \/ r \in InCell(c)
    BY <1>2, <1>5 DEF ReadIn
  <2>2. Still(g)' = Still(g) \cup A
    BY <1>3, <2>1, ValueCounts DEF Still
  <2>3. Still(g) \cap A = {}
    BY <1>2, OneCell DEF Still, ReadIn, ReadCells
  <2>4. MovedIn(g) \cup B \subseteq MovedIn(g)'
    BY <1>2, <1>3, <2>1 DEF MovedIn
  <2>5. MovedIn(g) \cap B = {}
    <3>1. ASSUME NEW r \in B, ReadIn(g, r) PROVE FALSE
      BY <1>2, <3>1, OneCell DEF ReadIn, ReadCells
    <3>2. ~(g = "gauge" /\ Gauge \in ReadCells)
      BY <1>2, CellTyped
    <3> QED
      BY <3>1, <3>2 DEF MovedIn
  <2>6. /\ Still(g) \in SUBSET Requests /\ A \in SUBSET Requests
        /\ MovedIn(g) \in SUBSET Requests /\ B \in SUBSET Requests
        /\ MovedIn(g)' \in SUBSET Requests /\ MovedIn(g) \cup B \in SUBSET Requests
    BY <1>3, ValueCounts DEF Still, MovedIn
  <2> HIDE DEF A, B, g
  <2>7. /\ Cardinality(Still(g)') = Cardinality(Still(g)) + Cardinality(A)
        /\ Cardinality(Still(g)) \in Nat
    BY <2>2, <2>3, <2>6, Parts
  <2>8. /\ Cardinality(MovedIn(g) \cup B) = Cardinality(MovedIn(g)) + Cardinality(B)
        /\ Cardinality(MovedIn(g)) \in Nat
    BY <2>5, <2>6, Parts
  <2>9. /\ Cardinality(MovedIn(g) \cup B) <= Cardinality(MovedIn(g)')
        /\ Cardinality(MovedIn(g)') \in Nat
    BY <2>4, <2>6, Parts
  <2>10. FamilyIsBounded(g)
    BY <1>3 DEF ScrapeInv
  <2>11. read'[g] = read[g] + Value(c) /\ read[g] \in Nat
    BY <1>3
  <2>12. /\ Cardinality(Still(g)') <= read'[g]
         /\ read'[g] <= Cardinality(Still(g)') + Cardinality(MovedIn(g)')
    BY <1>4, <2>7, <2>8, <2>9, <2>10, <2>11 DEF FamilyIsBounded
  <2> QED
    BY <2>12 DEF FamilyIsBounded, g
<1> QED
  BY <1>6, <1>7, <1>8 DEF ScrapeInv

\* The body is taken and the buffer cleared.
LEMMA RespondKeeps == ASSUME ScrapeInv, Respond PROVE ScrapeInv'
<1>1. /\ scraping' = FALSE /\ read' = NothingRead /\ moved' = {} /\ unread' = <<>>
      /\ unread' = unread /\ Gathered' = Gathered
  BY DEF Respond, Gathered
<1>2. read' \in [Families -> Nat]
  BY <1>1 DEF NothingRead
<1> QED
  BY <1>1, <1>2 DEF ScrapeInv, ScrapeShape

-----------------------------------------------------------------------------
(* Steps of the requests *)

\* A request that starts or records leaves those that stand still, and stays
\* accounted for where it may have been read already.
LEMMA MoveKeeps ==
    ASSUME IInv, ScrapeInv, NEW r \in Requests, Call(r) \/ Record(r),
           moved' = IF scraping THEN moved \cup {r} ELSE {}, UNCHANGED <<scraping, unread, read>>
    PROVE  ScrapeInv'
<1>1. /\ pc \in [Requests -> Phases] /\ UNCHANGED result
      /\ \/ pc[r] = "idle" /\ pc' = [pc EXCEPT ![r] = "inner"]
         \/ pc[r] = "answered" /\ pc' = [pc EXCEPT ![r] = "released"]
         \/ pc[r] = "released" /\ pc' = [pc EXCEPT ![r] = "counted"]
         \/ pc[r] = "counted" /\ pc' = [pc EXCEPT ![r] = "timed"]
         \/ pc[r] = "timed" /\ pc' = [pc EXCEPT ![r] = "returned"]
  BY DEF IInv, TypeOK, Call, Record, Release, Count, Time, Return, Move
<1>2. ScrapeShape' /\ ReadCells' = ReadCells
  BY DEF ScrapeInv, ScrapeShape, ReadCells, Unread, Gathered
<1>3. ASSUME scraping, NEW f \in Families PROVE FamilyIsBounded(f)'
  <2>1. moved' = moved \cup {r} /\ moved \subseteq Requests /\ read' = read /\ read[f] \in Nat
    BY <1>3 DEF ScrapeInv, ScrapeShape
  <2>2. \A q : Key(q)' = Key(q)
    BY <1>1 DEF Key, PathLabel, StatusLabel
  <2>3. ASSUME NEW q \in Requests, q # r, NEW d PROVE q \in InCell(d)' <=> q \in InCell(d)
    BY <1>1, <2>2, <2>3 DEF InCell, InFamily, At
  <2>4. ASSUME NEW q \in Requests, q # r PROVE ReadIn(f, q)' <=> ReadIn(f, q)
    BY <1>2, <2>3, <2>4 DEF ReadIn
  <2>5. Still(f)' = Still(f) \ {r}
    BY <2>1, <2>4 DEF Still
  \* Those of a series stay in it: only the gauge is ever left.
  <2>6. ASSUME f # "gauge", ReadIn(f, r) PROVE ReadIn(f, r)'
    <3>1. PICK c \in ReadCells : c[1] = f /\ r \in InCell(c)
      BY <2>6 DEF ReadIn
    <3>2. r \in InFamily(f) /\ Key(r) = c[2]
      BY <2>6, <3>1 DEF InCell
    <3>3. r \in InFamily(f)'
      <4>1. CASE f = "total"
        BY <1>1, <3>2, <4>1 DEF InFamily, At
      <4>2. CASE f = "duration"
        BY <1>1, <3>2, <4>2 DEF InFamily, At
      <4> QED
        BY <2>6, <4>1, <4>2 DEF Families
    <3> QED
      BY <1>2, <2>2, <3>1, <3>2, <3>3 DEF ReadIn, InCell
  <2>7. ASSUME f = "gauge", ReadIn(f, r) PROVE Gauge \in ReadCells
    BY <2>7, CellTyped DEF ReadIn, ReadCells
  <2>8. MovedIn(f) \subseteq MovedIn(f)' /\ (ReadIn(f, r) => r \in MovedIn(f)')
    <3>1. ASSUME NEW q \in MovedIn(f) PROVE q \in MovedIn(f)'
      <4>1. q \in moved' /\ q \in Requests
        BY <2>1 DEF MovedIn
      <4>2. CASE f = "gauge" /\ Gauge \in ReadCells
        BY <1>2, <4>1, <4>2 DEF MovedIn
      <4>3. CASE ReadIn(f, q) /\ q # r
        BY <2>4, <4>1, <4>3 DEF MovedIn
      <4>4. CASE ReadIn(f, q) /\ q = r
        BY <1>2, <2>6, <2>7, <4>1, <4>4 DEF MovedIn
      <4> QED
        BY <4>2, <4>3, <4>4 DEF MovedIn
    <3>2. ASSUME ReadIn(f, r) PROVE r \in MovedIn(f)'
      BY <1>2, <2>1, <2>6, <2>7, <3>2 DEF MovedIn
    <3> QED
      BY <3>1, <3>2
  <2>9. /\ Still(f) \in SUBSET Requests /\ Still(f)' \in SUBSET Requests
        /\ MovedIn(f) \in SUBSET Requests /\ MovedIn(f)' \in SUBSET Requests
    BY <2>1, <2>5 DEF Still, MovedIn
  <2>10. /\ Cardinality(Still(f)) \in Nat /\ Cardinality(Still(f)') \in Nat
         /\ Cardinality(MovedIn(f)) \in Nat /\ Cardinality(MovedIn(f)') \in Nat
         /\ Cardinality(MovedIn(f)) <= Cardinality(MovedIn(f)')
    BY <2>8, <2>9, Parts
  <2>11. FamilyIsBounded(f)
    BY <1>3 DEF ScrapeInv
  <2>12. CASE r \notin Still(f)
    <3>1. Still(f)' = Still(f)
      BY <2>5, <2>12
    <3> QED
      BY <2>1, <2>10, <2>11, <3>1 DEF FamilyIsBounded
  <2>13. CASE r \in Still(f)
    <3>1. Cardinality(Still(f)') = Cardinality(Still(f)) - 1
      BY <2>5, <2>9, <2>13, Counting
    <3>2. r \notin MovedIn(f) /\ MovedIn(f) \cup {r} \subseteq MovedIn(f)'
          /\ MovedIn(f) \cup {r} \in SUBSET Requests
      BY <2>8, <2>9, <2>13 DEF Still, MovedIn
    <3>3. Cardinality(MovedIn(f) \cup {r}) = Cardinality(MovedIn(f)) + 1
      BY <2>9, <3>2, Counting
    <3>4. Cardinality(MovedIn(f)) + 1 <= Cardinality(MovedIn(f)')
      BY <2>9, <3>2, <3>3, Parts
    <3> QED
      BY <2>1, <2>10, <2>11, <3>1, <3>4 DEF FamilyIsBounded
  <2> QED
    BY <2>12, <2>13
<1> QED
  BY <1>2, <1>3 DEF ScrapeInv

\* An answer or a loss leaves the request in the gauge.
LEMMA InnerKeeps ==
    ASSUME IInv, ScrapeInv, NEW r \in Requests, Inner(r), UNCHANGED scrapeVars
    PROVE  ScrapeInv'
<1>1. /\ pc \in [Requests -> Phases] /\ result \in [Requests -> Outcomes \cup {Pending}]
      /\ pc[r] = "inner"
      /\ \/ pc' = [pc EXCEPT ![r] = "lost"] /\ UNCHANGED result
         \/ pc' = [pc EXCEPT ![r] = "answered"] /\ \E o : result' = [result EXCEPT ![r] = o]
  BY DEF IInv, TypeOK, Inner, Lose, Answer, Move
<1>2. ScrapeShape' /\ ReadCells' = ReadCells
  BY DEF ScrapeInv, ScrapeShape, ReadCells, Unread, Gathered, scrapeVars
<1>3. \A f \in Families : InFamily(f)' = InFamily(f)
  BY <1>1 DEF InFamily, At, Families
<1>4. \A f \in Families : \A q \in InFamily(f) : f = "gauge" \/ Key(q)' = Key(q)
  BY <1>1 DEF InFamily, At, Families, Key, PathLabel, StatusLabel
<1>5. \A d \in Gathered : InCell(d)' = InCell(d)
  BY <1>3, <1>4, CellTyped DEF InCell
<1>6. \A f, q : ReadIn(f, q)' <=> ReadIn(f, q)
  BY <1>2, <1>5 DEF ReadIn, ReadCells
<1>7. \A f : Still(f)' = Still(f) /\ MovedIn(f)' = MovedIn(f)
  BY <1>2, <1>6 DEF Still, MovedIn, scrapeVars
<1> QED
  BY <1>2, <1>7 DEF ScrapeInv, FamilyIsBounded, scrapeVars

LEMMA ScrapeStutter ==
    ASSUME ScrapeInv, UNCHANGED <<vars, scrapeVars>>
    PROVE  ScrapeInv'
<1>1. ScrapeShape' /\ ReadCells' = ReadCells
  BY DEF ScrapeInv, ScrapeShape, ReadCells, Unread, Gathered, scrapeVars
<1>2. \A d : InCell(d)' = InCell(d)
  BY DEF InCell, InFamily, At, Key, PathLabel, StatusLabel, vars
<1>3. \A f, q : ReadIn(f, q)' <=> ReadIn(f, q)
  BY <1>1, <1>2 DEF ReadIn
<1>4. \A f : Still(f)' = Still(f) /\ MovedIn(f)' = MovedIn(f)
  BY <1>1, <1>3 DEF Still, MovedIn, scrapeVars
<1> QED
  BY <1>1, <1>4 DEF ScrapeInv, FamilyIsBounded, scrapeVars

-----------------------------------------------------------------------------
(* The theorems *)

\* Scrapes write no cell: the layer below behaves as if alone (handler.rs:19-34).
LEMMA ScrapesAreInvisible == ExpositionSpec => Spec
<1>1. ExpositionInit => Init
  BY DEF ExpositionInit
<1>2. [ExpositionNext]_<<vars, scrapeVars>> => [Next]_vars
  BY DEF ExpositionNext, ScrapeBegin, Read, Respond, Served, Next
<1> QED
  BY <1>1, <1>2, PTL DEF ExpositionSpec, Spec

\* Both invariants hold while requests are served and scraped.
THEOREM ScrapeInvariance == ExpositionSpec => [](IInv /\ ScrapeInv)
<1>1. ExpositionSpec => []IInv
  BY ScrapesAreInvisible, Invariance, PTL
<1>2. IInv /\ ScrapeInv /\ [ExpositionNext]_<<vars, scrapeVars>> => ScrapeInv'
  <2> SUFFICES ASSUME IInv, ScrapeInv, [ExpositionNext]_<<vars, scrapeVars>> PROVE ScrapeInv'
    OBVIOUS
  <2>1. ASSUME NEW r \in Requests, Served(r) PROVE ScrapeInv'
    <3>1. CASE /\ Call(r) \/ Record(r)
               /\ moved' = IF scraping THEN moved \cup {r} ELSE {}
      BY <2>1, <3>1, MoveKeeps DEF Served
    <3>2. CASE Inner(r) /\ UNCHANGED moved
      BY <2>1, <3>2, InnerKeeps DEF Served, scrapeVars
    <3> QED
      BY <2>1, <3>1, <3>2 DEF Served
  <2> QED
    BY <2>1, ScrapeBeginKeeps, ReadKeeps, RespondKeeps, ScrapeStutter DEF ExpositionNext
<1> QED
  BY <1>1, <1>2, ScrapeInit, PTL DEF ExpositionSpec

\* When the last cell has been read, the requests that stand still in a family are
\* all those it accounts for and that did not move.
LEMMA StillAreRead ==
    ASSUME IInv, unread = <<>>, NEW f \in Families
    PROVE  Still(f) = InFamily(f) \ moved
<1>1. ReadCells = Gathered
  BY EmptySeq DEF ReadCells, Unread
<1>2. ASSUME NEW r \in InFamily(f) PROVE ReadIn(f, r)
  <2>1. CASE f = "gauge"
    <3>1. Gauge \in ReadCells /\ Gauge[1] = "gauge"
      BY <1>1, CellTyped
    <3> QED
      BY <2>1, <3>1 DEF ReadIn, InCell
  <2>2. CASE f \in {"total", "duration"}
    <3>1. r \in Requests /\ pc[r] \in {"counted", "timed", "returned"}
      BY <2>2 DEF InFamily, At
    <3>2. StatusLabel(r) \in Statuses
      BY <3>1, KeyInSeries DEF IInv, Answered
    <3>3. <<f, Key(r)>> \in Gathered
      BY <2>2, <3>1, <3>2 DEF Gathered, Key
    <3> QED
      BY <1>1, <3>3 DEF ReadIn, InCell
  <2> QED
    BY <2>1, <2>2 DEF Families
<1>3. \A r : ReadIn(f, r) => r \in InFamily(f)
  BY DEF ReadIn, InCell
<1>4. InFamily(f) \subseteq Requests
  BY DEF InFamily, At
<1> QED
  BY <1>2, <1>3, <1>4 DEF Still

\* The bounds of each family at the end of a scrape.
LEMMA FamiliesAtEnd ==
    ASSUME IInv, ScrapeInv, scraping, unread = <<>>, NEW f \in Families
    PROVE  /\ Cardinality(InFamily(f) \ moved) <= read[f]
           /\ read[f] <= Cardinality(InFamily(f) \ moved) + Cardinality(moved)
           /\ read[f] \in Nat /\ Cardinality(moved) \in Nat
           /\ Cardinality(InFamily(f) \ moved) \in Nat
<1>1. Still(f) = InFamily(f) \ moved
  BY StillAreRead
<1>2. FamilyIsBounded(f)
  BY DEF ScrapeInv
<1>3. read[f] \in Nat /\ moved \in SUBSET Requests
  BY DEF ScrapeInv, ScrapeShape
<1>4. MovedIn(f) \in SUBSET Requests /\ MovedIn(f) \subseteq moved /\ Still(f) \in SUBSET Requests
  BY <1>3 DEF MovedIn, Still
<1>5. /\ Cardinality(MovedIn(f)) <= Cardinality(moved) /\ Cardinality(MovedIn(f)) \in Nat
      /\ Cardinality(moved) \in Nat /\ Cardinality(Still(f)) \in Nat
  BY <1>3, <1>4, Parts
<1> QED
  BY <1>1, <1>2, <1>3, <1>5 DEF FamilyIsBounded

\* A request that does not move during a scrape is in its body once, one that does
\* at most twice (handler.rs:21, layer.rs:91-101).
THEOREM SpecScrapeCountsEachOnce == ExpositionSpec => []ScrapeCountsEachOnce
<1>1. IInv /\ ScrapeInv => ScrapeCountsEachOnce
  <2> SUFFICES ASSUME IInv, ScrapeInv, scraping, unread = <<>>
               PROVE  read["gauge"] + read["total"] \in
                          Cardinality(Scraped) .. Cardinality(Scraped) + 2 * Cardinality(moved)
    BY DEF ScrapeCountsEachOnce
  <2> DEFINE G == InFamily("gauge") \ moved
             T == InFamily("total") \ moved
  <2>1. /\ G \in SUBSET Requests /\ T \in SUBSET Requests /\ G \cap T = {}
        /\ Scraped = G \cup T
    BY DEF InFamily, At, Scraped, IInv, TypeOK, Phases
  <2>2. /\ Cardinality(Scraped) = Cardinality(G) + Cardinality(T)
        /\ Cardinality(Scraped) \in Nat
    <3>1. G \cup T \in SUBSET Requests
      BY <2>1
    <3> QED
      BY <2>1, <3>1, Parts
  <2>3. "gauge" \in Families /\ "total" \in Families
    BY DEF Families
  <2>4. /\ Cardinality(G) <= read["gauge"] /\ read["gauge"] <= Cardinality(G) + Cardinality(moved)
        /\ Cardinality(T) <= read["total"] /\ read["total"] <= Cardinality(T) + Cardinality(moved)
        /\ read["gauge"] \in Nat /\ read["total"] \in Nat /\ Cardinality(moved) \in Nat
        /\ Cardinality(G) \in Nat /\ Cardinality(T) \in Nat
    BY <2>3, FamiliesAtEnd
  <2> HIDE DEF G, T
  <2> QED
    BY <2>2, <2>4
<1> QED
  BY <1>1, ScrapeInvariance, PTL

\* A scrape shows no more durations than requests, and no fewer, but for the requests
\* that moved while it was taken or stand between the two (layer.rs:96-103).
THEOREM SpecScrapeTimesWhatItCounts == ExpositionSpec => []ScrapeTimesWhatItCounts
<1>1. IInv /\ ScrapeInv => ScrapeTimesWhatItCounts
  <2> SUFFICES ASSUME IInv, ScrapeInv, scraping, unread = <<>>
               PROVE  /\ read["duration"] <= read["total"] + Cardinality(moved)
                      /\ read["total"] <= read["duration"] + Cardinality(moved)
                                             + Cardinality(Untimed)
    BY DEF ScrapeTimesWhatItCounts
  <2> DEFINE D == InFamily("duration") \ moved
             T == InFamily("total") \ moved
  <2>1. /\ D \in SUBSET Requests /\ Untimed \in SUBSET Requests /\ D \cap Untimed = {}
        /\ T = D \cup Untimed
    BY DEF InFamily, At, Untimed
  <2>2. /\ Cardinality(T) = Cardinality(D) + Cardinality(Untimed)
        /\ Cardinality(Untimed) \in Nat
    BY <2>1, Parts
  <2>3. "duration" \in Families /\ "total" \in Families
    BY DEF Families
  <2>4. /\ Cardinality(D) <= read["duration"]
        /\ read["duration"] <= Cardinality(D) + Cardinality(moved)
        /\ Cardinality(T) <= read["total"] /\ read["total"] <= Cardinality(T) + Cardinality(moved)
        /\ read["duration"] \in Nat /\ read["total"] \in Nat /\ Cardinality(moved) \in Nat
        /\ Cardinality(D) \in Nat /\ Cardinality(T) \in Nat
    BY <2>3, FamiliesAtEnd
  <2> HIDE DEF D, T
  <2> QED
    BY <2>2, <2>4
<1> QED
  BY <1>1, ScrapeInvariance, PTL

\* Everything HttpLayer keeps true is true while the metrics are scraped.
THEOREM ScrapesKeepTheLayer ==
    ExpositionSpec => [](/\ TypeOK /\ InFlightAccountsForAll /\ TotalsAreExact
                         /\ DurationsTrackTotals /\ SizesAreOfSized)
BY ScrapesAreInvisible, SpecTypeOK, SpecInFlightAccountsForAll, SpecTotalsAreExact,
   SpecDurationsTrackTotals, SpecSizesAreOfSized, PTL
=============================================================================
