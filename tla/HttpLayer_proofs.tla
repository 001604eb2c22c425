-------------------------- MODULE HttpLayer_proofs --------------------------
(***************************************************************************)
(* Proofs about HttpLayer, for any finite number of concurrent requests,   *)
(* any paths and templates and whatever the inner service returns.         *)
(***************************************************************************)
EXTENDS HttpLayer, Integers, FiniteSetTheorems, TLAPS

-----------------------------------------------------------------------------
(* The inductive invariant.  The gauge is a natural number only because of *)
(* what it counts, so types and accounting are proved together.            *)

\* A request past its await knows what the inner service returned.
Answered == \A r \in Requests :
    pc[r] \in {"answered", "released", "counted", "timed", "returned"} => result[r] \in Outcomes

Accounts == InFlightAccountsForAll /\ TotalsAreExact /\ DurationsTrackTotals /\ SizesAreOfSized

IInv == TypeOK /\ Answered /\ Accounts

\* Sets of requests are finite, and joining or leaving one counts for one.
LEMMA Counting ==
    ASSUME NEW S \in SUBSET Requests
    PROVE  /\ IsFiniteSet(S) /\ Cardinality(S) \in Nat
           /\ \A r \in Requests \ S : Cardinality(S \cup {r}) = Cardinality(S) + 1
           /\ \A r \in S : Cardinality(S \ {r}) = Cardinality(S) - 1 /\ Cardinality(S) >= 1
<1>1. IsFiniteSet(S)
  BY FS_Subset, HttpAssumption DEF HttpAssumption
<1>2. Cardinality(S) \in Nat
  BY <1>1, FS_CardinalityType
<1>3. \A r \in Requests \ S : Cardinality(S \cup {r}) = Cardinality(S) + 1
  BY <1>1, FS_AddElement
<1>4. ASSUME NEW r \in S
      PROVE  Cardinality(S \ {r}) = Cardinality(S) - 1 /\ Cardinality(S) >= 1
  <2>1. IsFiniteSet(S \ {r}) /\ Cardinality(S \ {r}) = Cardinality(S) - 1
    BY <1>1, FS_RemoveElement
  <2>2. Cardinality(S \ {r}) \in Nat
    BY <2>1, FS_CardinalityType
  <2> QED
    BY <1>2, <2>1, <2>2
<1> QED
  BY <1>1, <1>2, <1>3, <1>4

\* The labels of a request are labels of a series.
LEMMA KeyInSeries ==
    ASSUME NEW r \in Requests, result[r] \in Outcomes
    PROVE  /\ PathLabel(r) \in Paths /\ StatusLabel(r) \in Statuses
           /\ Key(r) \in Series
<1>1. PathLabel(r) \in Paths
  BY HttpAssumption DEF HttpAssumption, PathLabel
<1>2. StatusLabel(r) \in Statuses
  BY HttpAssumption DEF HttpAssumption, StatusLabel
<1> QED
  BY <1>1, <1>2 DEF Key, Series

\* The invariant holds before the first request.
LEMMA InitIInv == Init => IInv
<1> SUFFICES ASSUME Init PROVE IInv
  OBVIOUS
<1> USE DEF Init
<1>1. TypeOK /\ Answered
  BY DEF TypeOK, Answered, Phases
<1>2. InFlightAccountsForAll
  <2>1. At({"inner", "answered"}) = {} /\ At({"lost"}) = {}
    BY DEF At
  <2> QED
    BY <2>1, FS_EmptySet DEF InFlightAccountsForAll
<1>3. TotalsAreExact
  <2>1. ASSUME NEW p \in Paths, NEW s \in Statuses PROVE ExpectedIn(p, s) = {}
    BY DEF ExpectedIn, At
  <2>2. \A p \in Paths, s \in Statuses : total[<<p, s>>] = 0
    BY DEF Series
  <2> QED
    BY <2>1, <2>2, FS_EmptySet DEF TotalsAreExact
<1>4. DurationsTrackTotals
  <2>1. ASSUME NEW k \in Series PROVE {r \in At({"counted"}) : Key(r) = k} = {}
    BY DEF At
  <2> QED
    BY <2>1, FS_EmptySet DEF DurationsTrackTotals
<1>5. SizesAreOfSized
  <2>1. At({"returned"}) = {}
    BY DEF At
  <2>2. ASSUME NEW p \in Paths
        PROVE  {r \in At({"returned"}) : PathLabel(r) = p /\ result[r].ok /\ result[r].sized} = {}
    BY <2>1
  <2> QED
    BY <2>2, FS_EmptySet DEF SizesAreOfSized
<1> QED
  BY <1>1, <1>2, <1>3, <1>4, <1>5 DEF IInv, Accounts

\* The sets the accounts count, for steps that move no request in or out of them.
LEMMA SameTotals ==
    ASSUME IInv, UNCHANGED total,
           At({"counted", "timed", "returned"})' = At({"counted", "timed", "returned"}),
           \A r \in At({"counted", "timed", "returned"}) : result'[r] = result[r]
    PROVE  TotalsAreExact'
<1>1. ASSUME NEW p \in Paths, NEW s \in Statuses PROVE ExpectedIn(p, s)' = ExpectedIn(p, s)
  BY DEF ExpectedIn
<1> QED
  BY <1>1 DEF IInv, Accounts, TotalsAreExact

LEMMA SameDurations ==
    ASSUME IInv, UNCHANGED <<total, dur>>, At({"counted"})' = At({"counted"}),
           \A r \in At({"counted"}) : result'[r] = result[r]
    PROVE  DurationsTrackTotals'
<1>1. ASSUME NEW k \in Series
      PROVE  {r \in At({"counted"}) : Key(r) = k}' = {r \in At({"counted"}) : Key(r) = k}
  BY DEF Key, PathLabel, StatusLabel
<1> QED
  BY <1>1 DEF IInv, Accounts, DurationsTrackTotals

LEMMA SameSizes ==
    ASSUME IInv, UNCHANGED size, At({"returned"})' = At({"returned"}),
           \A r \in At({"returned"}) : result'[r] = result[r]
    PROVE  SizesAreOfSized'
<1>1. ASSUME NEW p \in Paths
      PROVE  {r \in At({"returned"}) : PathLabel(r) = p /\ result[r].ok /\ result[r].sized}'
             = {r \in At({"returned"}) : PathLabel(r) = p /\ result[r].ok /\ result[r].sized}
  BY DEF PathLabel
<1> QED
  BY <1>1 DEF IInv, Accounts, SizesAreOfSized

LEMMA SameGauge ==
    ASSUME IInv, UNCHANGED inFlight, At({"lost"})' = At({"lost"}),
           At({"inner", "answered"})' = At({"inner", "answered"})
    PROVE  InFlightAccountsForAll'
BY DEF IInv, Accounts, InFlightAccountsForAll

-----------------------------------------------------------------------------
(* One lemma per action *)

\* call() raises the gauge for a request that was nowhere.
LEMMA CallKeeps == ASSUME IInv, NEW r \in Requests, Call(r) PROVE IInv'
<1> USE DEF IInv, TypeOK
<1>1. pc[r] = "idle" /\ pc' = [pc EXCEPT ![r] = "inner"] /\ inFlight' = inFlight + 1
      /\ UNCHANGED <<result, total, dur, size>>
  BY DEF Call, Move
<1>2. TypeOK' /\ Answered'
  BY <1>1 DEF Answered, Phases
<1>3. InFlightAccountsForAll'
  <2> DEFINE A == At({"inner", "answered"})
  <2>1. A \subseteq Requests /\ r \in Requests \ A /\ A' = A \cup {r}
    BY <1>1 DEF At
  <2>2. At({"lost"})' = At({"lost"})
    BY <1>1 DEF At
  <2>3. Cardinality(A') = Cardinality(A) + 1 /\ Cardinality(A) \in Nat
    BY <2>1, Counting
  <2>4. Cardinality(At({"lost"})) \in Nat
    BY Counting DEF At
  <2> QED
    BY <1>1, <2>2, <2>3, <2>4 DEF Accounts, InFlightAccountsForAll
<1>4. TotalsAreExact' /\ DurationsTrackTotals' /\ SizesAreOfSized'
  <2>1. /\ At({"counted", "timed", "returned"})' = At({"counted", "timed", "returned"})
        /\ At({"counted"})' = At({"counted"}) /\ At({"returned"})' = At({"returned"})
    BY <1>1 DEF At
  <2> QED
    BY <1>1, <2>1, SameTotals, SameDurations, SameSizes
<1> QED
  BY <1>2, <1>3, <1>4 DEF Accounts

\* The inner service's answer changes no cell.
LEMMA AnswerKeeps ==
    ASSUME IInv, NEW r \in Requests, NEW o \in Outcomes, Answer(r, o) PROVE IInv'
<1> USE DEF IInv, TypeOK
<1>1. pc[r] = "inner" /\ pc' = [pc EXCEPT ![r] = "answered"]
      /\ result' = [result EXCEPT ![r] = o] /\ UNCHANGED <<inFlight, total, dur, size>>
  BY DEF Answer, Move
<1>2. TypeOK' /\ Answered'
  BY <1>1 DEF Answered, Phases
<1>3. /\ At({"inner", "answered"})' = At({"inner", "answered"})
      /\ At({"lost"})' = At({"lost"})
      /\ At({"counted", "timed", "returned"})' = At({"counted", "timed", "returned"})
      /\ At({"counted"})' = At({"counted"}) /\ At({"returned"})' = At({"returned"})
  BY <1>1 DEF At
<1>4. \A q \in At({"counted", "timed", "returned"}) : result'[q] = result[q]
  BY <1>1 DEF At
<1>5. At({"counted"}) \cup At({"returned"}) \subseteq At({"counted", "timed", "returned"})
  BY DEF At
<1> QED
  BY <1>1, <1>2, <1>3, <1>4, <1>5, SameTotals, SameDurations, SameSizes, SameGauge DEF Accounts

\* A lost request moves from one part of the gauge to the other.
LEMMA LoseKeeps == ASSUME IInv, NEW r \in Requests, Lose(r) PROVE IInv'
<1> USE DEF IInv, TypeOK
<1>1. pc[r] = "inner" /\ pc' = [pc EXCEPT ![r] = "lost"]
      /\ UNCHANGED <<result, inFlight, total, dur, size>>
  BY DEF Lose, Move
<1>2. TypeOK' /\ Answered'
  BY <1>1 DEF Answered, Phases
<1>3. InFlightAccountsForAll'
  <2> DEFINE A == At({"inner", "answered"})
             L == At({"lost"})
  <2>1. A \subseteq Requests /\ r \in A /\ A' = A \ {r}
    BY <1>1 DEF At
  <2>2. L \subseteq Requests /\ r \in Requests \ L /\ L' = L \cup {r}
    BY <1>1 DEF At
  <2>3. Cardinality(A') = Cardinality(A) - 1 /\ Cardinality(A) \in Nat
    BY <2>1, Counting
  <2>4. Cardinality(L') = Cardinality(L) + 1 /\ Cardinality(L) \in Nat
    BY <2>2, Counting
  <2> QED
    BY <1>1, <2>3, <2>4 DEF Accounts, InFlightAccountsForAll
<1>4. TotalsAreExact' /\ DurationsTrackTotals' /\ SizesAreOfSized'
  <2>1. /\ At({"counted", "timed", "returned"})' = At({"counted", "timed", "returned"})
        /\ At({"counted"})' = At({"counted"}) /\ At({"returned"})' = At({"returned"})
    BY <1>1 DEF At
  <2> QED
    BY <1>1, <2>1, SameTotals, SameDurations, SameSizes
<1> QED
  BY <1>2, <1>3, <1>4 DEF Accounts

\* dec() takes back what call() added for this request: the gauge was positive.
LEMMA ReleaseKeeps == ASSUME IInv, NEW r \in Requests, Release(r) PROVE IInv'
<1> USE DEF IInv, TypeOK
<1>1. pc[r] = "answered" /\ pc' = [pc EXCEPT ![r] = "released"] /\ inFlight' = inFlight - 1
      /\ UNCHANGED <<result, total, dur, size>>
  BY DEF Release, Move
<1>2. InFlightAccountsForAll' /\ inFlight' \in Nat
  <2> DEFINE A == At({"inner", "answered"})
  <2>1. A \subseteq Requests /\ r \in A /\ A' = A \ {r}
    BY <1>1 DEF At
  <2>2. At({"lost"})' = At({"lost"})
    BY <1>1 DEF At
  <2>3. Cardinality(A') = Cardinality(A) - 1 /\ Cardinality(A) \in Nat /\ Cardinality(A) >= 1
    BY <2>1, Counting
  <2>4. Cardinality(At({"lost"})) \in Nat
    BY Counting DEF At
  <2> QED
    BY <1>1, <2>2, <2>3, <2>4 DEF Accounts, InFlightAccountsForAll
<1>3. TypeOK' /\ Answered'
  BY <1>1, <1>2 DEF Answered, Phases
<1>4. TotalsAreExact' /\ DurationsTrackTotals' /\ SizesAreOfSized'
  <2>1. /\ At({"counted", "timed", "returned"})' = At({"counted", "timed", "returned"})
        /\ At({"counted"})' = At({"counted"}) /\ At({"returned"})' = At({"returned"})
    BY <1>1 DEF At
  <2> QED
    BY <1>1, <2>1, SameTotals, SameDurations, SameSizes
<1> QED
  BY <1>2, <1>3, <1>4 DEF Accounts

\* Counting a request adds it to the one series its labels name, and opens a gap
\* of one between that series and its durations.
LEMMA CountKeeps == ASSUME IInv, NEW r \in Requests, Count(r) PROVE IInv'
<1> USE DEF IInv, TypeOK
<1>1. pc[r] = "released" /\ pc' = [pc EXCEPT ![r] = "counted"]
      /\ total' = [total EXCEPT ![Key(r)] = @ + 1]
      /\ UNCHANGED <<result, inFlight, dur, size>>
  BY DEF Count, Move
<1>2. result[r] \in Outcomes /\ PathLabel(r) \in Paths /\ StatusLabel(r) \in Statuses
      /\ Key(r) \in Series
  BY <1>1, KeyInSeries DEF Answered
<1>3. TypeOK' /\ Answered'
  BY <1>1, <1>2 DEF Answered, Phases
<1>4. TotalsAreExact'
  <2> SUFFICES ASSUME NEW p \in Paths, NEW s \in Statuses
               PROVE  total'[<<p, s>>] = Cardinality(ExpectedIn(p, s)')
    BY DEF TotalsAreExact
  <2> DEFINE E == ExpectedIn(p, s)
  <2>1. E \subseteq Requests /\ r \notin E /\ <<p, s>> \in Series
    BY <1>1 DEF ExpectedIn, At, Series
  <2>2. total[<<p, s>>] = Cardinality(E) /\ Cardinality(E) \in Nat
    BY <2>1, Counting DEF Accounts, TotalsAreExact
  <2>3. CASE p = PathLabel(r) /\ s = StatusLabel(r)
    <3>1. E' = E \cup {r}
      BY <1>1, <2>3, HttpAssumption
         DEF ExpectedIn, At, PathLabel, StatusLabel, HttpAssumption
    <3>2. Cardinality(E') = Cardinality(E) + 1
      BY <2>1, <3>1, Counting
    <3> QED
      BY <1>1, <2>1, <2>2, <2>3, <3>2 DEF Key
  <2>4. CASE ~(p = PathLabel(r) /\ s = StatusLabel(r))
    <3>1. E' = E
      BY <1>1, <2>4, HttpAssumption
         DEF ExpectedIn, At, PathLabel, StatusLabel, HttpAssumption
    <3>2. Key(r) # <<p, s>>
      BY <2>4 DEF Key
    <3> QED
      BY <1>1, <2>1, <2>2, <3>1, <3>2
  <2> QED
    BY <2>3, <2>4
<1>5. DurationsTrackTotals'
  <2> SUFFICES ASSUME NEW k \in Series
               PROVE  total'[k] = dur'[k] + Cardinality({q \in At({"counted"}) : Key(q) = k}')
    BY DEF DurationsTrackTotals
  <2> DEFINE G == {q \in At({"counted"}) : Key(q) = k}
  <2>1. G \subseteq Requests /\ r \notin G
    BY <1>1 DEF At
  <2>2. total[k] = dur[k] + Cardinality(G) /\ Cardinality(G) \in Nat
    BY <2>1, Counting DEF Accounts, DurationsTrackTotals
  <2>3. \A q \in Requests : Key(q)' = Key(q)
    BY <1>1 DEF Key, PathLabel, StatusLabel
  <2>4. CASE k = Key(r)
    <3>1. G' = G \cup {r}
      BY <1>1, <2>3, <2>4 DEF At
    <3>2. Cardinality(G') = Cardinality(G) + 1
      BY <2>1, <3>1, Counting
    <3> QED
      BY <1>1, <2>2, <2>4, <3>2
  <2>5. CASE k # Key(r)
    <3>1. G' = G
      BY <1>1, <2>3, <2>5 DEF At
    <3> QED
      BY <1>1, <2>2, <2>5, <3>1
  <2> QED
    BY <2>4, <2>5
<1>6. InFlightAccountsForAll' /\ SizesAreOfSized'
  <2>1. /\ At({"inner", "answered"})' = At({"inner", "answered"})
        /\ At({"lost"})' = At({"lost"}) /\ At({"returned"})' = At({"returned"})
    BY <1>1 DEF At
  <2> QED
    BY <1>1, <2>1, SameGauge, SameSizes
<1> QED
  BY <1>3, <1>4, <1>5, <1>6 DEF Accounts

\* Observing the duration closes the gap its own count opened, in the same series.
LEMMA TimeKeeps == ASSUME IInv, NEW r \in Requests, Time(r) PROVE IInv'
<1> USE DEF IInv, TypeOK
<1>1. pc[r] = "counted" /\ pc' = [pc EXCEPT ![r] = "timed"]
      /\ dur' = [dur EXCEPT ![Key(r)] = @ + 1]
      /\ UNCHANGED <<result, inFlight, total, size>>
  BY DEF Time, Move
<1>2. result[r] \in Outcomes /\ Key(r) \in Series
  BY <1>1, KeyInSeries DEF Answered
<1>3. TypeOK' /\ Answered'
  BY <1>1, <1>2 DEF Answered, Phases
<1>4. DurationsTrackTotals'
  <2> SUFFICES ASSUME NEW k \in Series
               PROVE  total'[k] = dur'[k] + Cardinality({q \in At({"counted"}) : Key(q) = k}')
    BY DEF DurationsTrackTotals
  <2> DEFINE G == {q \in At({"counted"}) : Key(q) = k}
  <2>1. G \subseteq Requests
    BY DEF At
  <2>2. total[k] = dur[k] + Cardinality(G) /\ Cardinality(G) \in Nat
    BY <2>1, Counting DEF Accounts, DurationsTrackTotals
  <2>3. \A q \in Requests : Key(q)' = Key(q)
    BY <1>1 DEF Key, PathLabel, StatusLabel
  <2>4. CASE k = Key(r)
    <3>1. r \in G /\ G' = G \ {r}
      BY <1>1, <2>3, <2>4 DEF At
    <3>2. Cardinality(G') = Cardinality(G) - 1
      BY <2>1, <3>1, Counting
    <3> QED
      BY <1>1, <2>2, <2>4, <3>2
  <2>5. CASE k # Key(r)
    <3>1. G' = G
      BY <1>1, <2>3, <2>5 DEF At
    <3> QED
      BY <1>1, <2>2, <2>5, <3>1
  <2> QED
    BY <2>4, <2>5
<1>5. InFlightAccountsForAll' /\ TotalsAreExact' /\ SizesAreOfSized'
  <2>1. /\ At({"inner", "answered"})' = At({"inner", "answered"})
        /\ At({"counted", "timed", "returned"})' = At({"counted", "timed", "returned"})
        /\ At({"lost"})' = At({"lost"}) /\ At({"returned"})' = At({"returned"})
    BY <1>1 DEF At
  <2> QED
    BY <1>1, <2>1, SameGauge, SameTotals, SameSizes
<1> QED
  BY <1>3, <1>4, <1>5 DEF Accounts

\* A sized response adds one sample to its own path; any other adds none.
LEMMA ReturnKeeps == ASSUME IInv, NEW r \in Requests, Return(r) PROVE IInv'
<1> USE DEF IInv, TypeOK
<1>1. pc[r] = "timed" /\ pc' = [pc EXCEPT ![r] = "returned"]
      /\ size' = (IF result[r].ok /\ result[r].sized
                    THEN [size EXCEPT ![PathLabel(r)] = @ + 1] ELSE size)
      /\ UNCHANGED <<result, inFlight, total, dur>>
  BY DEF Return, Move
<1>2. result[r] \in Outcomes /\ PathLabel(r) \in Paths
  BY <1>1, KeyInSeries DEF Answered
<1>3. TypeOK' /\ Answered'
  BY <1>1, <1>2 DEF Answered, Phases
<1>4. SizesAreOfSized'
  <2> SUFFICES ASSUME NEW p \in Paths
               PROVE  size'[p] = Cardinality({q \in At({"returned"}) :
                          PathLabel(q) = p /\ result[q].ok /\ result[q].sized}')
    BY DEF SizesAreOfSized
  <2> DEFINE Z == {q \in At({"returned"}) :
                      PathLabel(q) = p /\ result[q].ok /\ result[q].sized}
  <2>1. Z \subseteq Requests /\ r \notin Z
    BY <1>1 DEF At
  <2>2. size[p] = Cardinality(Z) /\ Cardinality(Z) \in Nat
    BY <2>1, Counting DEF Accounts, SizesAreOfSized
  <2>3. CASE PathLabel(r) = p /\ result[r].ok /\ result[r].sized
    <3>1. Z' = Z \cup {r}
      BY <1>1, <2>3 DEF At, PathLabel
    <3>2. Cardinality(Z') = Cardinality(Z) + 1
      BY <2>1, <3>1, Counting
    <3> QED
      BY <1>1, <2>2, <2>3, <3>2
  <2>4. CASE ~(PathLabel(r) = p /\ result[r].ok /\ result[r].sized)
    <3>1. Z' = Z
      BY <1>1, <2>4 DEF At, PathLabel
    <3> QED
      BY <1>1, <1>2, <2>2, <2>4, <3>1
  <2> QED
    BY <2>3, <2>4
<1>5. InFlightAccountsForAll' /\ TotalsAreExact' /\ DurationsTrackTotals'
  <2>1. /\ At({"inner", "answered"})' = At({"inner", "answered"})
        /\ At({"counted", "timed", "returned"})' = At({"counted", "timed", "returned"})
        /\ At({"lost"})' = At({"lost"}) /\ At({"counted"})' = At({"counted"})
    BY <1>1 DEF At
  <2> QED
    BY <1>1, <2>1, SameGauge, SameTotals, SameDurations
<1> QED
  BY <1>3, <1>4, <1>5 DEF Accounts

-----------------------------------------------------------------------------
(* The theorems *)

\* The invariant holds in every reachable state.
THEOREM Invariance == Spec => []IInv
<1>1. IInv /\ [Next]_vars => IInv'
  <2>1. IInv /\ UNCHANGED vars => IInv'
    <3> SUFFICES ASSUME IInv, UNCHANGED vars PROVE IInv'
      OBVIOUS
    <3>1. TypeOK' /\ Answered'
      BY DEF vars, IInv, TypeOK, Answered
    <3>2. /\ At({"inner", "answered"})' = At({"inner", "answered"})
          /\ At({"counted", "timed", "returned"})' = At({"counted", "timed", "returned"})
          /\ At({"lost"})' = At({"lost"}) /\ At({"counted"})' = At({"counted"})
          /\ At({"returned"})' = At({"returned"})
      BY DEF vars, At
    <3> QED
      BY <3>1, <3>2, SameGauge, SameTotals, SameDurations, SameSizes DEF vars, IInv, Accounts
  <2> QED
    BY <2>1, CallKeeps, AnswerKeeps, LoseKeeps, ReleaseKeeps, CountKeeps, TimeKeeps, ReturnKeeps
       DEF Next, Inner, Record
<1> QED
  BY <1>1, InitIInv, PTL DEF Spec

\* The gauge is never negative, whatever is cancelled or panics, and every cell
\* keeps its type (layer.rs:82-91).
THEOREM SpecTypeOK == Spec => []TypeOK
<1>1. IInv => TypeOK
  BY DEF IInv
<1> QED
  BY <1>1, Invariance, PTL

\* requests_in_flight is the number of requests under way plus those lost for good.
THEOREM SpecInFlightAccountsForAll == Spec => []InFlightAccountsForAll
<1>1. IInv => InFlightAccountsForAll
  BY DEF IInv, Accounts
<1> QED
  BY <1>1, Invariance, PTL

\* Every answered request is in requests_total once, in its own series.
THEOREM SpecTotalsAreExact == Spec => []TotalsAreExact
<1>1. IInv => TotalsAreExact
  BY DEF IInv, Accounts
<1> QED
  BY <1>1, Invariance, PTL

\* Durations trail totals by exactly the requests between the two updates.
THEOREM SpecDurationsTrackTotals == Spec => []DurationsTrackTotals
<1>1. IInv => DurationsTrackTotals
  BY DEF IInv, Accounts
<1> QED
  BY <1>1, Invariance, PTL

\* response_size_bytes samples exactly the sized responses of each path.
THEOREM SpecSizesAreOfSized == Spec => []SizesAreOfSized
<1>1. IInv => SizesAreOfSized
  BY DEF IInv, Accounts
<1> QED
  BY <1>1, Invariance, PTL
=============================================================================
