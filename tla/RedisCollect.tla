--------------------------- MODULE RedisCollect ---------------------------
(***************************************************************************)
(* RedisMetrics::collect (dr-metrix-redis/src/metrics.rs) with the parser  *)
(* of INFO (dr-metrix-redis/src/info_parser.rs), over several collects     *)
(* that succeed, fail or are aborted: what a scrape finds in the gauges    *)
(* between any two set() calls.                                            *)
(***************************************************************************)
EXTENDS Naturals, Sequences

CONSTANTS
    Scalars,    \* keys of INFO that become gauges, in the order collect() sets them
    Databases,
    Numbers,
    Bad,        \* a text that does not parse as a number, or a field that is missing
    Noise,      \* a line the parser skips: header, blank, no colon, another key
    Absent,     \* of a labelled gauge that was never set
    MaxLines,   \* bound on the lines of an answer
    MaxInfos    \* bound on the answers of one behaviour

ScalarSet == {Scalars[i] : i \in 1..Len(Scalars)}
DbCells   == {"keys", "expires"} \X Databases
Cells     == ScalarSet \cup DbCells

ASSUME RedisAssumption ==
    /\ Scalars \in Seq(ScalarSet) /\ Scalars # <<>>
    /\ ScalarSet \cap DbCells = {}
    /\ Numbers \subseteq Nat
    /\ Bad \notin Numbers /\ Absent \notin Nat
    /\ MaxLines \in Nat /\ MaxInfos \in Nat

VARIABLES
    at,      \* where the collect is
    todo,    \* the set() calls it has still to make
    cell,    \* the gauges
    seen     \* history: the answers received

vars == <<at, todo, cell, seen>>

\* "keyspace_hits:7", and "db0:keys=15,expires=3", with either field missing or bad.
Texts    == Numbers \cup {Bad}
KeyLines == [key : ScalarSet, val : Texts]
DbLines  == [db : Databases, keys : Texts, expires : Texts]
Lines    == KeyLines \cup DbLines \cup {Noise}
Answers  == UNION {[1..n -> Lines] : n \in 0..MaxLines}

-----------------------------------------------------------------------------
(* parse_info *)

\* parse().unwrap_or(0); a missing field of a database line keeps its 0.
Number(text) == IF text = Bad THEN 0 ELSE text

Entry(line) == <<line.db, Number(line.keys), Number(line.expires)>>

RedisInfo == [scalar : [ScalarSet -> Nat], keyspace : Seq(Databases \X Nat \X Nat)]

Default == [scalar |-> [k \in ScalarSet |-> 0], keyspace |-> <<>>]

\* Mutation: a key that is repeated keeps its first value.
ParseLineFirst(info, line) ==
    IF line \in KeyLines /\ info.scalar[line.key] = 0
    THEN [info EXCEPT !.scalar[line.key] = Number(line.val)]
    ELSE IF line \in DbLines
    THEN [info EXCEPT !.keyspace = Append(@, Entry(line))]
    ELSE info

ParseLine(info, line) ==
    CASE line \in KeyLines -> [info EXCEPT !.scalar[line.key] = Number(line.val)]
      [] line \in DbLines  -> [info EXCEPT !.keyspace = Append(@, Entry(line))]
      [] OTHER             -> info

ParseInfo(raw) ==
    LET info[i \in 0..Len(raw)] == IF i = 0 THEN Default ELSE ParseLine(info[i - 1], raw[i])
    IN  info[Len(raw)]

\* The set() calls that publish it: the scalars, then two gauges for each database.
Publication(info) ==
    [i \in 1..Len(Scalars) |-> <<Scalars[i], info.scalar[Scalars[i]]>>]
    \o [i \in 1..(2 * Len(info.keyspace)) |->
           LET e == info.keyspace[(i + 1) \div 2]
           IN  IF i % 2 = 1 THEN << <<"keys", e[1]>>, e[2] >>
                            ELSE << <<"expires", e[1]>>, e[3] >>]

-----------------------------------------------------------------------------
(* collect *)

TypeOK ==
    /\ at \in {"idle", "asking", "writing", "ended"}
    /\ todo \in Seq(Cells \X Nat)
    /\ at = "writing" <=> todo # <<>>
    /\ cell \in [Cells -> Nat \cup {Absent}]
    /\ seen \in Seq(Answers) /\ Len(seen) <= MaxInfos

Init ==
    /\ at = "idle" /\ todo = <<>> /\ seen = <<>>
    /\ cell = [c \in Cells |-> IF c \in ScalarSet THEN 0 ELSE Absent]

\* pool_connections is set to the size of the pool, which is fixed: left out.
Begin ==
    /\ at = "idle"
    /\ at' = "asking"
    /\ UNCHANGED <<todo, cell, seen>>

InfoOk(raw) ==
    /\ at = "asking" /\ Len(seen) < MaxInfos
    /\ at' = "writing"
    /\ seen' = Append(seen, raw)
    /\ todo' = Publication(ParseInfo(raw))
    /\ UNCHANGED cell

\* Mutation: a failed INFO publishes the default RedisInfo.
InfoErrDefault ==
    /\ at = "asking"
    /\ at' = "writing"
    /\ todo' = Publication(Default)
    /\ UNCHANGED <<cell, seen>>

InfoErr ==
    /\ at = "asking"
    /\ at' = "idle"
    /\ UNCHANGED <<todo, cell, seen>>

\* The loop is aborted: at its tick, or at the await of INFO.
Abort ==
    /\ at \in {"idle", "asking"}
    /\ at' = "ended"
    /\ UNCHANGED <<todo, cell, seen>>

\* Mutation: collect() does not return after its last set().
SetNextStays ==
    /\ at = "writing" /\ todo # <<>>
    /\ cell' = [cell EXCEPT ![Head(todo)[1]] = Head(todo)[2]]
    /\ todo' = Tail(todo)
    /\ UNCHANGED <<at, seen>>

SetNext ==
    /\ at = "writing"
    /\ cell' = [cell EXCEPT ![Head(todo)[1]] = Head(todo)[2]]
    /\ todo' = Tail(todo)
    /\ at' = IF todo' = <<>> THEN "idle" ELSE "writing"
    /\ UNCHANGED seen

Next == Begin \/ (\E raw \in Answers : InfoOk(raw)) \/ InfoErr \/ Abort \/ SetNext

Spec == Init /\ [][Next]_vars

-----------------------------------------------------------------------------
(* Safety *)

\* The lines of an answer that say something of gauge c, and what a line says.
LinesAbout(c, raw) ==
    {i \in 1..Len(raw) :
        IF c \in ScalarSet THEN raw[i] \in KeyLines /\ raw[i].key = c
                           ELSE raw[i] \in DbLines /\ raw[i].db = c[2]}

SaidOf(c, line) ==
    LET text == IF c \in ScalarSet THEN line.val
                ELSE IF c[1] = "keys" THEN line.keys ELSE line.expires
    IN  IF text \in Numbers THEN text ELSE 0

LastOf(S) == CHOOSE i \in S : \A j \in S : j <= i

\* The reference, after the first m answers: a scalar is what the last of them says
\* last, 0 if it says nothing; a database gauge is what was said last of it, however
\* long ago.
Reported(c, m) ==
    LET telling == {k \in 1..m : LinesAbout(c, seen[k]) # {}}
        k       == LastOf(telling)
    IN  IF telling # {} /\ (c \in ScalarSet => k = m)
        THEN SaidOf(c, seen[k][LastOf(LinesAbout(c, seen[k]))])
        ELSE IF c \in ScalarSet THEN 0 ELSE Absent

\* Whatever collects failed or were aborted, the gauges at rest carry the last INFO:
\* parsed line by line, the last of repeated lines counting (info_parser.rs:23-73),
\* and with the databases it lists no more left as they were (metrics.rs:191-199).
GaugesCarryLastInfo ==
    at # "writing" => \A c \in Cells : cell[c] = Reported(c, Len(seen))

\* Between two set() calls a gauge shows what the last answer or the one before it
\* says: values of older answers are gone for all it mentions.  Of each gauge at a
\* moment: a scrape reads them one after the other and may mix moments as well.
ScrapeMixesTwoInfos ==
    at = "writing" => \A c \in Cells :
        LET raw == seen[Len(seen)]
        IN  \/ cell[c] = Reported(c, Len(seen) - 1)
            \/ c \in ScalarSet /\ LinesAbout(c, raw) = {} /\ cell[c] = 0
            \/ \E i \in LinesAbout(c, raw) : cell[c] = SaidOf(c, raw[i])
=============================================================================
