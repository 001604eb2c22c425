------------------------- MODULE MongoCollect_proofs -------------------------
(***************************************************************************)
(* Proofs about MongoCollect, for any fields, sections and values, and any *)
(* number of answers.                                                      *)
(***************************************************************************)
EXTENDS MongoCollect, Integers, SequenceTheorems, TLAPS

-----------------------------------------------------------------------------
(* The inductive invariant *)

\* Between two answers the next field is the first.
Shape ==
    /\ at # "writing" => next = 1
    /\ at = "writing" => Len(seen) >= 1

Unset(f) == IF f \in Labelled THEN Absent ELSE 0

\* How many answers the gauge of the i-th field has met.
Met(i) == IF at = "writing" /\ i >= next THEN Len(seen) - 1 ELSE Len(seen)

\* The gauge of f is from answer k, the last of the first m with its section.
IsFrom(f, k, m) ==
    /\ k \in 0..m
    /\ \A j \in 1..m : SectionOf[f] \in seen[j].sections => j <= k
    /\ k = 0 => cell[f] = Unset(f)
    /\ k > 0 => SectionOf[f] \in seen[k].sections /\ cell[f] = Published(f, seen[k])

CellsAreFromAnswers ==
    \A i \in 1..Len(Fields) : \E k \in 0..Met(i) : IsFrom(Fields[i], k, Met(i))

IInv == TypeOK /\ Shape /\ CellsAreFromAnswers

-----------------------------------------------------------------------------
(* Lemmas about fields, numbers and LastTelling *)

LEMMA FieldsTyped ==
    /\ Len(Fields) \in Nat \ {0} /\ MB \in Nat /\ MaxAnswers \in Nat
    /\ \A i \in 1..Len(Fields) : Fields[i] \in FieldSet
    /\ \A f \in FieldSet : \E i \in 1..Len(Fields) : f = Fields[i]
<1>1. Fields \in Seq(FieldSet) /\ Fields # <<>> /\ MB \in Nat /\ MaxAnswers \in Nat
  BY MongoAssumption DEF MongoAssumption
<1>2. Len(Fields) \in Nat \ {0}
  BY <1>1, EmptySeq, LenProperties
<1> QED
  BY <1>1, <1>2 DEF FieldSet

\* No field of an answer is published as a negative number.
LEMMA PublishedTyped ==
    ASSUME NEW f \in FieldSet, NEW a \in Answers
    PROVE  Published(f, a) \in Nat
<1> DEFINE x == GetI64(a.value[f])
           y == IF f \in InMB THEN MB ELSE 1
<1>1. a.value[f] \in Values \cup {Missing}
  BY DEF Answers
<1>2. x \in Nat
  BY <1>1, MongoAssumption DEF MongoAssumption, GetI64
<1>3. y \in Nat
  BY FieldsTyped
<1> HIDE DEF x, y
<1>4. x * y \in Nat
  BY <1>2, <1>3
<1> QED
  BY <1>4 DEF Published, x, y

\* The answers that were received are a function on 1..Len(seen).
LEMMA AnswersTyped ==
    ASSUME TypeOK
    PROVE  Len(seen) \in Nat /\ \A k \in 1..Len(seen) : seen[k] \in Answers
BY ElementOfSeq, LenProperties DEF TypeOK

\* LastTelling chooses the only number that IsFrom describes.
LEMMA LastIsUnique ==
    ASSUME NEW f, NEW m \in Int, NEW k, IsFrom(f, k, m)
    PROVE  LastTelling(f, m) = k
<1> DEFINE telling == {j \in 1..m : SectionOf[f] \in seen[j].sections}
<1>1. k \in 0..m /\ (k > 0 => k \in telling) /\ \A j \in telling : j <= k
  BY DEF IsFrom
<1>2. CASE telling = {}
  BY <1>1, <1>2 DEF LastTelling
<1>3. CASE telling # {}
  <2>1. k \in telling
    BY <1>1, <1>3
  <2>2. \A x \in telling : (\A j \in telling : j <= x) => x = k
    BY <1>1, <2>1
  <2>3. k = CHOOSE x \in telling : \A j \in telling : j <= x
    BY <1>1, <2>1, <2>2
  <2> QED
    BY <1>3, <2>3 DEF LastTelling
<1> QED
  BY <1>2, <1>3

-----------------------------------------------------------------------------
(* One lemma per action *)

LEMMA InitIInv == Init => IInv
<1> SUFFICES ASSUME Init PROVE IInv
  OBVIOUS
<1>1. /\ at = "idle" /\ next = 1 /\ seen = <<>> /\ Len(seen) = 0 /\ seen \in Seq(Answers)
      /\ cell = [f \in FieldSet |-> Unset(f)]
  BY DEF Init, Unset
<1>2. TypeOK /\ Shape
  BY <1>1, FieldsTyped DEF TypeOK, Shape, Unset
<1>3. ASSUME NEW i \in 1..Len(Fields) PROVE IsFrom(Fields[i], 0, 0) /\ Met(i) = 0
  <2>1. cell[Fields[i]] = Unset(Fields[i])
    BY <1>1, FieldsTyped
  <2>2. Met(i) = 0
    BY <1>1 DEF Met
  <2> QED
    BY <2>1, <2>2 DEF IsFrom
<1> QED
  BY <1>2, <1>3 DEF IInv, CellsAreFromAnswers

\* Steps that publish nothing and receive nothing.
LEMMA QuietKeeps == ASSUME IInv, Begin \/ StatusErr \/ Abort \/ UNCHANGED vars PROVE IInv'
<1>1. /\ UNCHANGED <<next, cell, seen>>
      /\ \/ at # "writing" /\ at' \in {"idle", "asking", "ended"}
         \/ UNCHANGED at
  BY DEF Begin, StatusErr, Abort, vars
<1>2. TypeOK' /\ Shape'
  BY <1>1 DEF IInv, TypeOK, Shape
<1>3. \A i \in 1..Len(Fields) : Met(i)' = Met(i)
  BY <1>1 DEF Met
<1>4. \A f, k, m : IsFrom(f, k, m)' <=> IsFrom(f, k, m)
  BY <1>1 DEF IsFrom
<1> QED
  BY <1>2, <1>3, <1>4 DEF IInv, CellsAreFromAnswers

\* A new answer is met by no gauge yet.
LEMMA StatusOkKeeps ==
    ASSUME IInv, NEW answer \in Answers, StatusOk(answer) PROVE IInv'
<1>1. /\ at = "asking" /\ at' = "writing" /\ next = 1 /\ UNCHANGED <<next, cell>>
      /\ Len(seen) < MaxAnswers /\ seen' = Append(seen, answer)
  BY DEF IInv, Shape, StatusOk
<1>2. /\ seen \in Seq(Answers) /\ seen' \in Seq(Answers)
      /\ Len(seen) \in Nat /\ Len(seen') = Len(seen) + 1
      /\ \A k \in 1..Len(seen) : seen'[k] = seen[k]
  BY <1>1, AppendProperties, LenProperties DEF IInv, TypeOK
<1>3. TypeOK' /\ Shape'
  BY <1>1, <1>2, FieldsTyped DEF IInv, TypeOK, Shape
<1>4. ASSUME NEW i \in 1..Len(Fields)
      PROVE  \E k \in 0..Met(i)' : IsFrom(Fields[i], k, Met(i))'
  <2>1. Met(i) = Len(seen) /\ Met(i)' = Len(seen)
    BY <1>1, <1>2, FieldsTyped DEF Met
  <2>2. PICK k \in 0..Len(seen) : IsFrom(Fields[i], k, Len(seen))
    BY <2>1 DEF IInv, CellsAreFromAnswers
  <2>3. IsFrom(Fields[i], k, Met(i))'
    BY <1>1, <1>2, <2>1, <2>2 DEF IsFrom
  <2> QED
    BY <2>1, <2>3
<1> QED
  BY <1>3, <1>4 DEF IInv, CellsAreFromAnswers

\* Publishing a field makes its gauge meet the latest answer, and no other gauge.
LEMMA SetNextKeeps == ASSUME IInv, SetNext PROVE IInv'
<1> DEFINE f == Fields[next]
<1>1. /\ at = "writing" /\ next \in 1..Len(Fields) /\ f \in FieldSet
      /\ Len(seen) \in Nat \ {0} /\ Latest \in Answers /\ Latest = seen[Len(seen)]
      /\ UNCHANGED seen
  BY FieldsTyped, AnswersTyped DEF IInv, TypeOK, Shape, SetNext, Latest
<1>2. cell' = IF SectionOf[f] \in Latest.sections
                THEN [cell EXCEPT ![f] = Published(f, Latest)] ELSE cell
  BY DEF SetNext
<1>3. \/ next = Len(Fields) /\ next' = 1 /\ at' = "idle"
      \/ next < Len(Fields) /\ next' = next + 1 /\ at' = "writing"
  BY <1>1, FieldsTyped DEF SetNext
<1>4. TypeOK'
  <2>1. Published(f, Latest) \in Nat
    BY <1>1, PublishedTyped
  <2>2. cell' \in [FieldSet -> Nat \cup {Absent}]
    BY <1>1, <1>2, <2>1 DEF IInv, TypeOK
  <2> QED
    BY <1>1, <1>3, <2>2, FieldsTyped DEF IInv, TypeOK
<1>5. Shape'
  BY <1>1, <1>3 DEF Shape
<1>6. ASSUME NEW i \in 1..Len(Fields)
      PROVE  \E k \in 0..Met(i)' : IsFrom(Fields[i], k, Met(i))'
  <2>1. PICK k \in 0..Met(i) : IsFrom(Fields[i], k, Met(i))
    BY DEF IInv, CellsAreFromAnswers
  <2>2. CASE i = next
    <3>1. Met(i) = Len(seen) - 1 /\ Met(i)' = Len(seen)
      BY <1>1, <1>3, <2>2, FieldsTyped DEF Met
    <3>2. CASE SectionOf[f] \in Latest.sections
      <4>1. cell'[f] = Published(f, Latest)
        BY <1>1, <1>2, <3>2 DEF IInv, TypeOK
      <4>2. IsFrom(Fields[i], Len(seen), Met(i))'
        BY <1>1, <2>2, <3>1, <3>2, <4>1 DEF IsFrom
      <4> QED
        BY <1>1, <3>1, <4>2
    <3>3. CASE SectionOf[f] \notin Latest.sections
      <4>1. IsFrom(Fields[i], k, Met(i))'
        BY <1>1, <1>2, <2>1, <2>2, <3>1, <3>3 DEF IsFrom
      <4> QED
        BY <1>1, <2>1, <3>1, <4>1
    <3> QED
      BY <3>2, <3>3
  <2>3. CASE i # next
    <3>1. Met(i)' = Met(i)
      BY <1>1, <1>3, <2>3, FieldsTyped DEF Met
    <3>2. Fields[i] # f
      BY <1>1, <2>3, MongoAssumption DEF MongoAssumption
    <3>3. cell'[Fields[i]] = cell[Fields[i]]
      BY <1>1, <1>2, <3>2, FieldsTyped DEF IInv, TypeOK
    <3>4. IsFrom(Fields[i], k, Met(i))'
      BY <1>1, <2>1, <3>1, <3>3 DEF IsFrom
    <3> QED
      BY <2>1, <3>1, <3>4
  <2> QED
    BY <2>2, <2>3
<1> QED
  BY <1>4, <1>5, <1>6 DEF IInv, CellsAreFromAnswers

-----------------------------------------------------------------------------
(* The theorems *)

\* The invariant holds in every reachable state.
THEOREM Invariance == Spec => []IInv
<1>1. IInv /\ [Next]_vars => IInv'
  BY QuietKeeps, StatusOkKeeps, SetNextKeeps DEF Next
<1> QED
  BY <1>1, InitIInv, PTL DEF Spec

\* Every gauge is a natural number, absent only while its label was never set.
THEOREM SpecTypeOK == Spec => []TypeOK
<1>1. IInv => TypeOK
  BY DEF IInv
<1> QED
  BY <1>1, Invariance, PTL

\* A gauge shows the last answer that had its section, or, while it waits, the one
\* before (metrics.rs:151-209).
THEOREM SpecGaugesCarryLastStatus == Spec => []GaugesCarryLastStatus
<1>1. IInv => GaugesCarryLastStatus
  <2> SUFFICES ASSUME IInv, NEW i \in 1..Len(Fields), NEW k, k = LastTelling(Fields[i], Met(i))
               PROVE  LET v == IF k = 0 THEN Missing ELSE seen[k].value[Fields[i]]
                          n == IF v = Missing \/ v.type # "Int64" THEN 0 ELSE v.num
                      IN  cell[Fields[i]] = IF k = 0 /\ Fields[i] \in Labelled THEN Absent
                                            ELSE IF Fields[i] \in InMB THEN n * MB ELSE n
    BY DEF GaugesCarryLastStatus, Met
  <2>1. Len(seen) \in Nat /\ Met(i) \in Int
    BY AnswersTyped DEF IInv, Met
  <2>2. IsFrom(Fields[i], k, Met(i))
    <3>1. PICK j \in 0..Met(i) : IsFrom(Fields[i], j, Met(i))
      BY DEF IInv, CellsAreFromAnswers
    <3>2. k = j
      BY <2>1, <3>1, LastIsUnique
    <3> QED
      BY <3>1, <3>2
  <2>3. CASE k = 0
    BY <2>2, <2>3, FieldsTyped DEF IsFrom, Unset
  <2>4. CASE k # 0
    <3>1. k \in 1..Len(seen) /\ cell[Fields[i]] = Published(Fields[i], seen[k])
      BY <2>1, <2>2, <2>4 DEF IsFrom, Met
    <3> DEFINE v == seen[k].value[Fields[i]]
    <3>2. v \in Values \cup {Missing}
      BY <3>1, AnswersTyped, FieldsTyped DEF IInv, Answers
    <3>3. GetI64(v) = IF v = Missing \/ v.type # "Int64" THEN 0 ELSE v.num
      BY DEF GetI64
    <3>4. GetI64(v) \in Nat /\ GetI64(v) * 1 = GetI64(v)
      BY <3>2, MongoAssumption DEF MongoAssumption, GetI64
    <3> QED
      BY <2>4, <3>1, <3>3, <3>4 DEF Published
  <2> QED
    BY <2>3, <2>4
<1> QED
  BY <1>1, Invariance, PTL

\* The Int32 is all that comes between the comments (metrics.rs:82, :182) and the code:
\* from a server that sends only 64-bit integers, every number is published.
THEOREM Int64sArePublished ==
    ASSUME \A v \in Values : v.type = "Int64"
    PROVE  Spec => []NumbersArePublished
<1>1. IInv => NumbersArePublished
  <2> SUFFICES ASSUME IInv, at = "idle", seen # <<>>, NEW f \in FieldSet,
                      SectionOf[f] \in Latest.sections, Latest.value[f] # Missing
               PROVE  cell[f] = Latest.value[f].num * (IF f \in InMB THEN MB ELSE 1)
    BY DEF NumbersArePublished
  <2>1. Len(seen) \in Nat /\ Len(seen) >= 1 /\ Latest \in Answers
    <3>1. Len(seen) \in Nat \ {0}
      BY EmptySeq DEF IInv, TypeOK
    <3> QED
      BY <3>1, AnswersTyped DEF IInv, Latest
  <2>2. PICK i \in 1..Len(Fields) : f = Fields[i]
    BY FieldsTyped
  <2>3. PICK k \in 0..Len(seen) : IsFrom(f, k, Len(seen))
    BY <2>2 DEF IInv, CellsAreFromAnswers, Met
  <2>4. k = Len(seen)
    BY <2>1, <2>3 DEF IsFrom, Latest
  <2>5. cell[f] = Published(f, Latest)
    BY <2>1, <2>3, <2>4 DEF IsFrom, Latest
  <2>6. Latest.value[f] \in Values
    BY <2>1 DEF Answers
  <2> QED
    BY <2>5, <2>6 DEF Published, GetI64
<1> QED
  BY <1>1, Invariance, PTL
=============================================================================
