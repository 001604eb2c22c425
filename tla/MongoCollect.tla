---------------------------- MODULE MongoCollect ----------------------------
(***************************************************************************)
(* MongoMetrics::collect (dr-metrix-mongo/src/metrics.rs): one             *)
(* serverStatus command, then a set() for each field of the sections it    *)
(* has, over several collects that succeed, fail or are aborted.           *)
(*                                                                         *)
(* BSON keeps the type of a number: Document::get_i64 returns an error for *)
(* an Int32, and unwrap_or(0) makes 0 of every error.                      *)
(***************************************************************************)
EXTENDS Naturals, Sequences

CONSTANTS
    Fields,      \* the fields collect() reads, in that order, section by section
    SectionOf,   \* SectionOf[f]: the sub-document that holds f
    Labelled,    \* fields of opcounters: series of one IntGaugeVec
    InMB,        \* fields reported in MB and published in bytes
    MB,          \* 1024 * 1024; the products are taken to fit in an i64
    Values,      \* BSON integers a field may hold
    Missing,     \* no such field, or a value that is not an integer
    Absent,      \* of a labelled gauge that was never set
    MaxAnswers   \* bound on the answers of one behaviour

FieldSet == {Fields[i] : i \in 1..Len(Fields)}
Sections == {SectionOf[f] : f \in FieldSet}

ASSUME MongoAssumption ==
    /\ Fields \in Seq(FieldSet) /\ Fields # <<>>
    /\ \A i, j \in 1..Len(Fields) : Fields[i] = Fields[j] => i = j
    /\ DOMAIN SectionOf = FieldSet
    /\ Labelled \subseteq FieldSet /\ InMB \subseteq FieldSet
    /\ MB \in Nat /\ MaxAnswers \in Nat
    /\ Values \subseteq [type : {"Int32", "Int64"}, num : Nat]
    /\ Missing \notin Values /\ Absent \notin Nat

VARIABLES
    at,      \* where the collect is
    next,    \* index of the field it is at
    cell,    \* the gauges
    seen     \* history: the answers received

vars == <<at, next, cell, seen>>

Answers == [sections : SUBSET Sections, value : [FieldSet -> Values \cup {Missing}]]

\* The document being published.
Latest == seen[Len(seen)]

\* Mutation: unwrap_or(-1), for unknown.
GetI64Minus(v) == IF v # Missing /\ v.type = "Int64" THEN v.num ELSE 0 - 1

\* get_i64(..).unwrap_or(0)
GetI64(v) == IF v # Missing /\ v.type = "Int64" THEN v.num ELSE 0

Published(f, answer) == GetI64(answer.value[f]) * (IF f \in InMB THEN MB ELSE 1)

TypeOK ==
    /\ at \in {"idle", "asking", "writing", "ended"}
    /\ next \in 1..Len(Fields)
    /\ cell \in [FieldSet -> Nat \cup {Absent}]
    /\ seen \in Seq(Answers) /\ Len(seen) <= MaxAnswers

Init ==
    /\ at = "idle" /\ next = 1 /\ seen = <<>>
    /\ cell = [f \in FieldSet |-> IF f \in Labelled THEN Absent ELSE 0]

Begin ==
    /\ at = "idle"
    /\ at' = "asking"
    /\ UNCHANGED <<next, cell, seen>>

StatusOk(answer) ==
    /\ at = "asking" /\ Len(seen) < MaxAnswers
    /\ at' = "writing"
    /\ seen' = Append(seen, answer)
    /\ UNCHANGED <<next, cell>>

StatusErr ==
    /\ at = "asking"
    /\ at' = "idle"
    /\ UNCHANGED <<next, cell, seen>>

\* The loop is aborted: at its tick, or at the await of serverStatus.
Abort ==
    /\ at \in {"idle", "asking"}
    /\ at' = "ended"
    /\ UNCHANGED <<next, cell, seen>>

\* The next field: set if its section is there.  After the last, collect() is Ok.
\* Mutation: a section that is missing sets its gauges to 0.
SetNextZeroing ==
    /\ at = "writing"
    /\ LET f == Fields[next]  answer == Latest
       IN  cell' = [cell EXCEPT ![f] = IF SectionOf[f] \in answer.sections
                                         THEN Published(f, answer) ELSE 0]
    /\ IF next = Len(Fields) THEN next' = 1 /\ at' = "idle"
                             ELSE next' = next + 1 /\ UNCHANGED at
    /\ UNCHANGED seen

SetNext ==
    /\ at = "writing"
    /\ LET f == Fields[next]  answer == Latest
       IN  IF SectionOf[f] \in answer.sections
           THEN cell' = [cell EXCEPT ![f] = Published(f, answer)]
           ELSE UNCHANGED cell
    /\ IF next = Len(Fields) THEN next' = 1 /\ at' = "idle"
                             ELSE next' = next + 1 /\ UNCHANGED at
    /\ UNCHANGED seen

Next == Begin \/ (\E answer \in Answers : StatusOk(answer)) \/ StatusErr \/ Abort \/ SetNext

Spec == Init /\ [][Next]_vars

-----------------------------------------------------------------------------
(* Safety *)

\* The last of the first m answers that had the section of f, 0 if none had.
LastTelling(f, m) ==
    LET telling == {k \in 1..m : SectionOf[f] \in seen[k].sections}
    IN  IF telling = {} THEN 0 ELSE CHOOSE k \in telling : \A j \in telling : j <= k

\* What is in the gauges at any moment: each shows what the last answer with its
\* section says of it (0 if the field is missing or of another type), or, while it
\* waits to be written, the one before: failed and aborted collects and sections that
\* come and go leave nothing else (metrics.rs:151-209).
GaugesCarryLastStatus ==
    \A i \in 1..Len(Fields) :
        LET f     == Fields[i]
            waits == at = "writing" /\ i >= next
            k     == LastTelling(f, IF waits THEN Len(seen) - 1 ELSE Len(seen))
            v     == IF k = 0 THEN Missing ELSE seen[k].value[f]
            n     == IF v = Missing \/ v.type # "Int64" THEN 0 ELSE v.num
        IN  cell[f] = IF k = 0 /\ f \in Labelled THEN Absent
                      ELSE IF f \in InMB THEN n * MB ELSE n

-----------------------------------------------------------------------------
(* What the comments claim and the code does not do *)

\* metrics.rs:82 "Current MongoDB connections", metrics.rs:182 "MongoDB reports in
\* MB": after a collect, a gauge shows the number the server has just reported.
NumbersArePublished ==
    at = "idle" /\ seen # <<>> => \A f \in FieldSet :
        SectionOf[f] \in Latest.sections /\ Latest.value[f] # Missing =>
            cell[f] = Latest.value[f].num * (IF f \in InMB THEN MB ELSE 1)
=============================================================================
