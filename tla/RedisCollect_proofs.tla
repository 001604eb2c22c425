------------------------- MODULE RedisCollect_proofs -------------------------
(***************************************************************************)
(* Proofs about RedisCollect, for any keys, databases and numbers, answers *)
(* of any length and any number of them.  That the parser is correct is an *)
(* induction over the lines of an answer; the induction on the natural     *)
(* numbers is stated about a set, so that it is first-order.               *)
(***************************************************************************)
EXTENDS RedisCollect, Integers, SequenceTheorems, WellFoundedInduction, TLAPS

-----------------------------------------------------------------------------
(* Induction and the parser's recursion *)

\* A set with 0 that is closed under successor has every natural number: otherwise
\* the least one it misses has a predecessor in it.
LEMMA SetInduction ==
    ASSUME NEW S, 0 \in S, \A n \in Nat : n \in S => n + 1 \in S
    PROVE  Nat \subseteq S
<1> DEFINE T == Nat \ S
           R == OpToRel(<, Nat)
<1> SUFFICES ASSUME T # {} PROVE FALSE
  OBVIOUS
<1>1. IsWellFoundedOn(R, Nat)
  BY NatLessThanWellFounded
<1>2. T \subseteq Nat
  OBVIOUS
<1>3. PICK x \in T : \A y \in T : ~(<<y, x>> \in R)
  <2> HIDE DEF T, R
  <2> QED
    BY <1>1, <1>2, WFMin
<1>4. \A y \in T : ~(y < x)
  BY <1>3 DEF OpToRel
<1>5. x # 0 /\ x - 1 \in Nat /\ x - 1 \in S
  BY <1>4
<1> QED
  BY <1>5

\* What parse_info has built after each line of raw.
IsParse(f, raw, n) ==
    f = [i \in 0..n |-> IF i = 0 THEN Default ELSE ParseLine(f[i - 1], raw[i])]

Parsed(raw) == CHOOSE f : IsParse(f, raw, Len(raw))

\* The recursion of parse_info defines a function, whatever the answer.
LEMMA ParseExists == ASSUME NEW raw PROVE \A n \in Nat : \E f : IsParse(f, raw, n)
<1> DEFINE S == {n \in Nat : \E f : IsParse(f, raw, n)}
<1>1. 0 \in S
  <2>1. IsParse([i \in 0..0 |-> Default], raw, 0)
    BY DEF IsParse
  <2> QED
    BY <2>1
<1>2. ASSUME NEW n \in Nat, n \in S PROVE n + 1 \in S
  <2>1. PICK f : IsParse(f, raw, n)
    BY <1>2
  <2> DEFINE g == [i \in 0..(n + 1) |-> IF i <= n THEN f[i] ELSE ParseLine(f[n], raw[n + 1])]
  <2>2. \A i \in 0..n : f[i] = IF i = 0 THEN Default ELSE ParseLine(f[i - 1], raw[i])
    BY <2>1 DEF IsParse
  <2>3. ASSUME NEW i \in 0..(n + 1)
        PROVE  g[i] = IF i = 0 THEN Default ELSE ParseLine(g[i - 1], raw[i])
    <3>1. CASE i <= n
      BY <2>2, <3>1
    <3>2. CASE i = n + 1
      <4>1. g[i] = ParseLine(f[n], raw[n + 1]) /\ g[i - 1] = f[n] /\ i # 0
        BY <3>2
      <4> QED
        BY <3>2, <4>1
    <3> QED
      BY <3>1, <3>2
  <2>4. IsParse(g, raw, n + 1)
    BY <2>3 DEF IsParse
  <2> QED
    BY <2>4
<1> HIDE DEF S
<1>3. Nat \subseteq S
  BY <1>1, <1>2, SetInduction
<1> QED
  BY <1>3 DEF S

\* ParseInfo is the last of the steps, and each step parses one line.
LEMMA ParseSteps ==
    ASSUME NEW raw, Len(raw) \in Nat
    PROVE  /\ ParseInfo(raw) = Parsed(raw)[Len(raw)]
           /\ Parsed(raw)[0] = Default
           /\ \A i \in 1..Len(raw) : Parsed(raw)[i] = ParseLine(Parsed(raw)[i - 1], raw[i])
<1>1. ParseInfo(raw) = Parsed(raw)[Len(raw)]
  BY DEF ParseInfo, Parsed, IsParse
<1>2. IsParse(Parsed(raw), raw, Len(raw))
  <2>1. \E f : IsParse(f, raw, Len(raw))
    BY ParseExists
  <2> QED
    BY <2>1, Zenon DEF Parsed
<1> QED
  BY <1>1, <1>2 DEF IsParse

-----------------------------------------------------------------------------
(* The last of a set of positions *)

LEMMA LastOfIs ==
    ASSUME NEW m \in Nat, NEW S, S \subseteq 1..m, S # {}
    PROVE  LastOf(S) \in S /\ \A j \in S : j <= LastOf(S)
<1> DEFINE T == {m - y : y \in S}
           R == OpToRel(<, Nat)
<1>1. T \subseteq Nat /\ T # {}
  <2>1. \A y \in S : m - y \in Nat
    OBVIOUS
  <2> QED
    BY <2>1
<1>2. IsWellFoundedOn(R, Nat)
  BY NatLessThanWellFounded
<1>3. PICK t \in T : \A u \in T : ~(<<u, t>> \in R)
  <2> HIDE DEF T, R
  <2> QED
    BY <1>1, <1>2, WFMin
<1>4. \A u \in T : ~(u < t)
  BY <1>1, <1>3 DEF OpToRel
<1>5. PICK i \in S : t = m - i
  OBVIOUS
<1>6. \A j \in S : j <= i
  <2> SUFFICES ASSUME NEW j \in S PROVE j <= i
    OBVIOUS
  <2>1. m - j \in T
    OBVIOUS
  <2> QED
    BY <1>4, <1>5, <2>1
<1> HIDE DEF T, R
<1> QED
  BY <1>6, Zenon DEF LastOf

LEMMA LastOfUnique ==
    ASSUME NEW m \in Nat, NEW S, S \subseteq 1..m, NEW i \in S, \A j \in S : j <= i
    PROVE  LastOf(S) = i
<1>1. LastOf(S) \in S /\ i <= LastOf(S)
  BY LastOfIs
<1>2. LastOf(S) \in 1..m /\ i \in 1..m
  BY <1>1
<1>3. LastOf(S) <= i
  BY <1>1, Zenon
<1> QED
  BY <1>1, <1>2, <1>3

-----------------------------------------------------------------------------
(* What the parser has learnt from the first n lines *)

KeyLinesOf(s, raw) == {i \in 1..Len(raw) : raw[i] \in KeyLines /\ raw[i].key = s}
DbLinesOf(d, raw)  == {i \in 1..Len(raw) : raw[i] \in DbLines /\ raw[i].db = d}

NoneUpTo(S, n)    == \A x \in S : x > n
LastUpTo(S, n, j) == j \in S /\ j <= n /\ \A x \in S : x <= n => x <= j

ScalarsParsed(info, raw, n) ==
    \A s \in ScalarSet :
        \/ NoneUpTo(KeyLinesOf(s, raw), n) /\ info.scalar[s] = 0
        \/ \E j \in 1..n : /\ LastUpTo(KeyLinesOf(s, raw), n, j)
                           /\ info.scalar[s] = Number(raw[j].val)

EntriesAreLines(info, raw, n) ==
    \A e \in 1..Len(info.keyspace) :
        \E j \in 1..n : raw[j] \in DbLines /\ info.keyspace[e] = Entry(raw[j])

LastEntriesParsed(info, raw, n) ==
    \A d \in Databases :
        \/ /\ NoneUpTo(DbLinesOf(d, raw), n)
           /\ \A e \in 1..Len(info.keyspace) : info.keyspace[e][1] # d
        \/ \E j \in 1..n, e \in 1..Len(info.keyspace) :
              /\ LastUpTo(DbLinesOf(d, raw), n, j) /\ info.keyspace[e] = Entry(raw[j])
              /\ \A x \in 1..Len(info.keyspace) : info.keyspace[x][1] = d => x <= e

ParsedUpTo(info, raw, n) ==
    /\ info \in RedisInfo
    /\ ScalarsParsed(info, raw, n)
    /\ EntriesAreLines(info, raw, n)
    /\ LastEntriesParsed(info, raw, n)

LEMMA AnswerTyped ==
    ASSUME NEW raw \in Answers
    PROVE  Len(raw) \in Nat /\ \A i \in 1..Len(raw) : raw[i] \in Lines
<1>1. PICK n \in 0..MaxLines : raw \in [1..n -> Lines]
  BY DEF Answers
<1>2. n \in Nat /\ raw \in Seq(Lines) /\ Len(raw) = n
  BY <1>1, RedisAssumption, LenProperties DEF RedisAssumption
<1> QED
  BY <1>1, <1>2

\* A text is a number or bad; the reference reads it as parse_info does.
LEMMA TextTyped ==
    ASSUME NEW text \in Texts
    PROVE  Number(text) \in Nat /\ Number(text) = (IF text \in Numbers THEN text ELSE 0)
BY RedisAssumption DEF RedisAssumption, Texts, Number

\* A line is about a key, about a database, or skipped.
LEMMA LineKinds ==
    ASSUME NEW line
    PROVE  /\ line \in KeyLines => /\ line.key \in ScalarSet /\ line.val \in Texts
                                   /\ Number(line.val) \in Nat /\ line \notin DbLines
           /\ line \in DbLines => /\ line.db \in Databases
                                  /\ line.keys \in Texts /\ line.expires \in Texts
                                  /\ Entry(line) \in Databases \X Nat \X Nat
<1>1. ASSUME line \in KeyLines
      PROVE  /\ line.key \in ScalarSet /\ line.val \in Texts
             /\ Number(line.val) \in Nat /\ line \notin DbLines
  <2>1. line.key \in ScalarSet /\ line.val \in Texts /\ DOMAIN line = {"key", "val"}
    BY <1>1 DEF KeyLines
  <2>2. line \in DbLines => DOMAIN line = {"db", "keys", "expires"}
    BY DEF DbLines
  <2> QED
    BY <2>1, <2>2, TextTyped
<1>2. ASSUME line \in DbLines
      PROVE  /\ line.db \in Databases /\ line.keys \in Texts /\ line.expires \in Texts
             /\ Entry(line) \in Databases \X Nat \X Nat
  <2>1. line.db \in Databases /\ line.keys \in Texts /\ line.expires \in Texts
    BY <1>2 DEF DbLines
  <2>2. Number(line.keys) \in Nat /\ Number(line.expires) \in Nat
    BY <2>1, TextTyped
  <2> QED
    BY <2>1, <2>2 DEF Entry
<1> QED
  BY <1>1, <1>2

\* What a line says of a gauge is what the parser makes of it.
LEMMA SaidIsParsed ==
    ASSUME NEW line, NEW c
    PROVE  /\ c \in ScalarSet /\ line \in KeyLines => SaidOf(c, line) = Number(line.val)
           /\ c \notin ScalarSet /\ line \in DbLines =>
                 SaidOf(c, line) = IF c[1] = "keys" THEN Entry(line)[2] ELSE Entry(line)[3]
<1>1. CASE c \in ScalarSet /\ line \in KeyLines
  <2>1. line.val \in Texts
    BY <1>1, LineKinds
  <2> QED
    BY <1>1, <2>1, TextTyped DEF SaidOf
<1>2. CASE c \notin ScalarSet /\ line \in DbLines
  <2>1. line.keys \in Texts /\ line.expires \in Texts
    BY <1>2, LineKinds
  <2>2. Entry(line)[2] = Number(line.keys) /\ Entry(line)[3] = Number(line.expires)
    BY DEF Entry
  <2> QED
    BY <1>2, <2>1, <2>2, TextTyped DEF SaidOf
<1> QED
  BY <1>1, <1>2

\* What one line changes.
LineEffect(info, line, p) ==
    /\ p \in RedisInfo
    /\ line \in KeyLines =>
          /\ p.scalar = [info.scalar EXCEPT ![line.key] = Number(line.val)]
          /\ p.keyspace = info.keyspace
    /\ line \in DbLines =>
          /\ p.scalar = info.scalar
          /\ p.keyspace = Append(info.keyspace, Entry(line))
    /\ line \notin KeyLines /\ line \notin DbLines => p = info

LEMMA ParseLineEffect ==
    ASSUME NEW info \in RedisInfo, NEW line
    PROVE  LineEffect(info, line, ParseLine(info, line))
<1> DEFINE p == ParseLine(info, line)
<1> USE DEF LineEffect
<1>1. /\ info.scalar \in [ScalarSet -> Nat] /\ info.keyspace \in Seq(Databases \X Nat \X Nat)
      /\ info = [scalar |-> info.scalar, keyspace |-> info.keyspace]
  BY DEF RedisInfo
<1>2. CASE line \in KeyLines
  <2>1. p = [info EXCEPT !.scalar[line.key] = Number(line.val)] /\ line \notin DbLines
    BY <1>2, LineKinds DEF ParseLine
  <2>2. /\ p.scalar = [info.scalar EXCEPT ![line.key] = Number(line.val)]
        /\ p.keyspace = info.keyspace
        /\ p = [scalar |-> p.scalar, keyspace |-> p.keyspace]
    BY <1>1, <2>1
  <2>3. p.scalar \in [ScalarSet -> Nat]
    BY <1>1, <1>2, <2>2, LineKinds
  <2>4. p \in RedisInfo
    BY <1>1, <2>2, <2>3 DEF RedisInfo
  <2> QED
    BY <1>2, <2>1, <2>2, <2>4
<1>3. CASE line \in DbLines
  <2>1. /\ line \notin KeyLines
        /\ p = [info EXCEPT !.keyspace = Append(info.keyspace, Entry(line))]
    BY <1>3, LineKinds DEF ParseLine
  <2>2. /\ p.scalar = info.scalar /\ p.keyspace = Append(info.keyspace, Entry(line))
        /\ p = [scalar |-> p.scalar, keyspace |-> p.keyspace]
    BY <1>1, <2>1
  <2>3. Entry(line) \in Databases \X Nat \X Nat
    BY <1>3, LineKinds
  <2>4. p.keyspace \in Seq(Databases \X Nat \X Nat)
    BY <1>1, <2>2, <2>3, AppendProperties
  <2>5. p \in RedisInfo
    BY <1>1, <2>2, <2>4 DEF RedisInfo
  <2> QED
    BY <1>3, <2>1, <2>2, <2>5
<1>4. CASE line \notin KeyLines /\ line \notin DbLines
  BY <1>4 DEF ParseLine
<1> QED
  BY <1>2, <1>3, <1>4

\* One more line keeps what was learnt and adds what it says.
LEMMA ParseStep ==
    ASSUME NEW raw \in Answers, NEW n \in 0..(Len(raw) - 1), NEW info,
           ParsedUpTo(info, raw, n)
    PROVE  ParsedUpTo(ParseLine(info, raw[n + 1]), raw, n + 1)
<1> DEFINE line == raw[n + 1]
           p == ParseLine(info, line)
           K == info.keyspace
<1>1. /\ Len(raw) \in Nat /\ n \in Nat /\ n + 1 \in 1..Len(raw) /\ line \in Lines
      /\ info \in RedisInfo
      /\ info.scalar \in [ScalarSet -> Nat] /\ K \in Seq(Databases \X Nat \X Nat)
      /\ Len(K) \in Nat
  BY AnswerTyped, LenProperties DEF ParsedUpTo, RedisInfo
<1>2. /\ p \in RedisInfo
      /\ line \in KeyLines => /\ p.scalar = [info.scalar EXCEPT ![line.key] = Number(line.val)]
                              /\ p.keyspace = K
      /\ line \in DbLines => p.scalar = info.scalar /\ p.keyspace = Append(K, Entry(line))
      /\ line \notin KeyLines /\ line \notin DbLines => p.scalar = info.scalar /\ p.keyspace = K
  <2>1. LineEffect(info, line, p)
    BY <1>1, ParseLineEffect
  <2> HIDE DEF p, line
  <2> QED
    BY <2>1 DEF LineEffect
<1> HIDE DEF p
<1>3. \A S : (n + 1 \notin S /\ S \subseteq Int) =>
          /\ NoneUpTo(S, n) => NoneUpTo(S, n + 1)
          /\ \A j \in 1..n : LastUpTo(S, n, j) => LastUpTo(S, n + 1, j)
  BY <1>1 DEF NoneUpTo, LastUpTo
<1>4. \A S : (n + 1 \in S /\ S \subseteq Int) => LastUpTo(S, n + 1, n + 1)
  BY <1>1 DEF LastUpTo
<1>5. ScalarsParsed(p, raw, n + 1)
  <2> SUFFICES ASSUME NEW s \in ScalarSet
               PROVE  \/ NoneUpTo(KeyLinesOf(s, raw), n + 1) /\ p.scalar[s] = 0
                      \/ \E j \in 1..(n + 1) : /\ LastUpTo(KeyLinesOf(s, raw), n + 1, j)
                                               /\ p.scalar[s] = Number(raw[j].val)
    BY DEF ScalarsParsed
  <2> DEFINE S == KeyLinesOf(s, raw)
  <2>1. S \subseteq Int
    BY <1>1 DEF KeyLinesOf
  <2>2. CASE line \in KeyLines /\ line.key = s
    <3>1. n + 1 \in S
      BY <1>1, <2>2 DEF KeyLinesOf
    <3>2. p.scalar[s] = Number(line.val)
      BY <1>1, <1>2, <2>2
    <3> QED
      BY <1>1, <1>4, <2>1, <3>1, <3>2
  <2>3. CASE ~(line \in KeyLines /\ line.key = s)
    <3>1. n + 1 \notin S
      BY <2>3 DEF KeyLinesOf
    <3>2. p.scalar[s] = info.scalar[s]
      BY <1>1, <1>2, <2>3
    <3>3. \/ NoneUpTo(S, n) /\ info.scalar[s] = 0
          \/ \E j \in 1..n : LastUpTo(S, n, j) /\ info.scalar[s] = Number(raw[j].val)
      BY DEF ParsedUpTo, ScalarsParsed
    <3> HIDE DEF S
    <3> QED
      BY <1>1, <1>3, <2>1, <3>1, <3>2, <3>3 DEF S
  <2> QED
    BY <2>2, <2>3
<1>6. CASE line \in DbLines
  <2>1. /\ p.keyspace = Append(K, Entry(line)) /\ Entry(line) \in Databases \X Nat \X Nat
        /\ Entry(line)[1] = line.db
    BY <1>2, <1>6, LineKinds DEF Entry
  <2>2. /\ Len(p.keyspace) = Len(K) + 1 /\ p.keyspace[Len(K) + 1] = Entry(line)
        /\ \A e \in 1..Len(K) : p.keyspace[e] = K[e]
    BY <1>1, <2>1, AppendProperties
  <2> HIDE DEF K
  <2>3. EntriesAreLines(p, raw, n + 1)
    <3> SUFFICES ASSUME NEW e \in 1..Len(p.keyspace)
                 PROVE  \E j \in 1..(n + 1) : raw[j] \in DbLines /\ p.keyspace[e] = Entry(raw[j])
      BY DEF EntriesAreLines
    <3>1. CASE e = Len(K) + 1
      BY <1>1, <1>6, <2>2, <3>1
    <3>2. CASE e # Len(K) + 1
      <4>1. e \in 1..Len(K)
        BY <1>1, <2>2, <3>2
      <4>2. PICK j \in 1..n : raw[j] \in DbLines /\ K[e] = Entry(raw[j])
        BY <4>1 DEF ParsedUpTo, EntriesAreLines, K
      <4> QED
        BY <1>1, <2>2, <4>1, <4>2
    <3> QED
      BY <3>1, <3>2
  <2>4. LastEntriesParsed(p, raw, n + 1)
    <3> SUFFICES ASSUME NEW d \in Databases
                 PROVE  \/ /\ NoneUpTo(DbLinesOf(d, raw), n + 1)
                           /\ \A e \in 1..Len(p.keyspace) : p.keyspace[e][1] # d
                        \/ \E j \in 1..(n + 1), e \in 1..Len(p.keyspace) :
                              /\ LastUpTo(DbLinesOf(d, raw), n + 1, j)
                              /\ p.keyspace[e] = Entry(raw[j])
                              /\ \A x \in 1..Len(p.keyspace) : p.keyspace[x][1] = d => x <= e
      BY DEF LastEntriesParsed
    <3> DEFINE S == DbLinesOf(d, raw)
    <3>1. S \subseteq Int
      BY <1>1 DEF DbLinesOf
    <3>2. CASE line.db = d
      <4>1. n + 1 \in S
        BY <1>1, <1>6, <3>2 DEF DbLinesOf
      <4>2. LastUpTo(S, n + 1, n + 1)
        BY <1>4, <3>1, <4>1
      <4>3. \A x \in 1..Len(p.keyspace) : x <= Len(K) + 1
        BY <1>1, <2>2
      <4>4. n + 1 \in 1..(n + 1) /\ Len(K) + 1 \in 1..Len(p.keyspace)
        BY <1>1, <2>2
      <4> QED
        BY <2>2, <4>2, <4>3, <4>4
    <3>3. CASE line.db # d
      <4>1. n + 1 \notin S
        BY <3>3 DEF DbLinesOf
      <4>2. \/ NoneUpTo(S, n) /\ \A e \in 1..Len(K) : K[e][1] # d
            \/ \E j \in 1..n, e \in 1..Len(K) :
                  /\ LastUpTo(S, n, j) /\ K[e] = Entry(raw[j])
                  /\ \A x \in 1..Len(K) : K[x][1] = d => x <= e
        BY DEF ParsedUpTo, LastEntriesParsed, K
      <4>3. \A x \in 1..Len(p.keyspace) :
                p.keyspace[x][1] = d => x \in 1..Len(K) /\ K[x][1] = d
        BY <1>1, <2>1, <2>2, <3>3
      <4> HIDE DEF S
      <4>4. CASE NoneUpTo(S, n) /\ \A e \in 1..Len(K) : K[e][1] # d
        BY <1>3, <3>1, <4>1, <4>3, <4>4 DEF S
      <4>5. ASSUME NEW j \in 1..n, NEW e \in 1..Len(K), LastUpTo(S, n, j), K[e] = Entry(raw[j]),
                   \A x \in 1..Len(K) : K[x][1] = d => x <= e
            PROVE  \E jj \in 1..(n + 1), ee \in 1..Len(p.keyspace) :
                      /\ LastUpTo(S, n + 1, jj) /\ p.keyspace[ee] = Entry(raw[jj])
                      /\ \A x \in 1..Len(p.keyspace) : p.keyspace[x][1] = d => x <= ee
        <5>1. j \in 1..(n + 1) /\ e \in 1..Len(p.keyspace)
          BY <1>1, <2>2
        <5>2. LastUpTo(S, n + 1, j)
          BY <1>3, <3>1, <4>1, <4>5
        <5>3. p.keyspace[e] = Entry(raw[j])
          BY <2>2, <4>5
        <5>4. \A x \in 1..Len(p.keyspace) : p.keyspace[x][1] = d => x <= e
          BY <4>3, <4>5
        <5> QED
          BY <5>1, <5>2, <5>3, <5>4
      <4> QED
        BY <4>2, <4>4, <4>5 DEF S
    <3> QED
      BY <3>2, <3>3
  <2> QED
    BY <1>2, <1>5, <2>3, <2>4 DEF ParsedUpTo, p
<1>7. CASE line \notin DbLines
  <2>1. p.keyspace = K
    BY <1>2, <1>7
  <2> HIDE DEF K
  <2>2. EntriesAreLines(p, raw, n + 1)
    <3> SUFFICES ASSUME NEW e \in 1..Len(K)
                 PROVE  \E j \in 1..(n + 1) : raw[j] \in DbLines /\ K[e] = Entry(raw[j])
      BY <2>1 DEF EntriesAreLines
    <3>1. PICK j \in 1..n : raw[j] \in DbLines /\ K[e] = Entry(raw[j])
      BY DEF ParsedUpTo, EntriesAreLines, K
    <3>2. j \in 1..(n + 1)
      BY <1>1
    <3> QED
      BY <3>1, <3>2
  <2>3. LastEntriesParsed(p, raw, n + 1)
    <3> SUFFICES ASSUME NEW d \in Databases
                 PROVE  \/ /\ NoneUpTo(DbLinesOf(d, raw), n + 1)
                           /\ \A e \in 1..Len(K) : K[e][1] # d
                        \/ \E j \in 1..(n + 1), e \in 1..Len(K) :
                              /\ LastUpTo(DbLinesOf(d, raw), n + 1, j)
                              /\ K[e] = Entry(raw[j])
                              /\ \A x \in 1..Len(K) : K[x][1] = d => x <= e
      BY <2>1 DEF LastEntriesParsed
    <3> DEFINE S == DbLinesOf(d, raw)
    <3>1. S \subseteq Int /\ n + 1 \notin S
      BY <1>1, <1>7 DEF DbLinesOf
    <3>2. \/ NoneUpTo(S, n) /\ \A e \in 1..Len(K) : K[e][1] # d
          \/ \E j \in 1..n, e \in 1..Len(K) :
                /\ LastUpTo(S, n, j) /\ K[e] = Entry(raw[j])
                /\ \A x \in 1..Len(K) : K[x][1] = d => x <= e
      BY DEF ParsedUpTo, LastEntriesParsed, K
    <3>3. \A j \in 1..n : j \in 1..(n + 1)
      BY <1>1
    <3> HIDE DEF S
    <3> QED
      BY <1>3, <3>1, <3>2, <3>3 DEF S
  <2> QED
    BY <1>2, <1>5, <2>2, <2>3 DEF ParsedUpTo, p
<1> QED
  BY <1>6, <1>7

\* parse_info learns what the whole answer says, whatever its lines are.
THEOREM ParseInfoIsExact ==
    ASSUME NEW raw \in Answers
    PROVE  ParsedUpTo(ParseInfo(raw), raw, Len(raw))
<1> DEFINE S == {n \in Nat : n <= Len(raw) => ParsedUpTo(Parsed(raw)[n], raw, n)}
<1>1. /\ Len(raw) \in Nat /\ ParseInfo(raw) = Parsed(raw)[Len(raw)]
      /\ Parsed(raw)[0] = Default
      /\ \A i \in 1..Len(raw) : Parsed(raw)[i] = ParseLine(Parsed(raw)[i - 1], raw[i])
  BY AnswerTyped, ParseSteps
<1>2. 0 \in S
  <2>1. Default \in RedisInfo /\ Len(Default.keyspace) = 0
        /\ \A s \in ScalarSet : Default.scalar[s] = 0
    BY DEF Default, RedisInfo
  <2>2. \A s : NoneUpTo(KeyLinesOf(s, raw), 0) /\ NoneUpTo(DbLinesOf(s, raw), 0)
    BY <1>1 DEF NoneUpTo, KeyLinesOf, DbLinesOf
  <2>3. ParsedUpTo(Default, raw, 0)
    BY <2>1, <2>2 DEF ParsedUpTo, ScalarsParsed, EntriesAreLines, LastEntriesParsed
  <2> QED
    BY <1>1, <2>3
<1>3. ASSUME NEW n \in Nat, n \in S PROVE n + 1 \in S
  <2> SUFFICES ASSUME n + 1 <= Len(raw) PROVE ParsedUpTo(Parsed(raw)[n + 1], raw, n + 1)
    OBVIOUS
  <2>1. n \in 0..(Len(raw) - 1) /\ ParsedUpTo(Parsed(raw)[n], raw, n)
    BY <1>1, <1>3
  <2>2. Parsed(raw)[n + 1] = ParseLine(Parsed(raw)[n], raw[n + 1])
    BY <1>1, <2>1
  <2> QED
    BY <2>1, <2>2, ParseStep
<1> HIDE DEF S
<1>4. Nat \subseteq S
  BY <1>2, <1>3, SetInduction
<1> QED
  BY <1>1, <1>4 DEF S

-----------------------------------------------------------------------------
(* The inductive invariant of collect() *)

\* The set() calls of the answer that is being written, and how many were made.
Pub  == Publication(ParseInfo(seen[Len(seen)]))
Made == Len(Pub) - Len(todo)

TodoIsSuffix ==
    at = "writing" =>
        /\ Len(seen) >= 1 /\ Len(todo) <= Len(Pub)
        /\ \A i \in 1..Len(todo) : todo[i] = Pub[Made + i]

\* i is the last of the first p set() calls that is one of gauge c.
LastSet(pub, c, p, i) == pub[i][1] = c /\ \A j \in 1..p : pub[j][1] = c => j <= i

\* v is what gauge c shows after p of the set() calls of pub, when it showed what the
\* first m answers said before them.
Shows(v, c, pub, p, m) ==
    \/ (\A i \in 1..p : pub[i][1] # c) /\ v = Reported(c, m)
    \/ \E i \in 1..p : LastSet(pub, c, p, i) /\ v = pub[i][2]

\* A gauge that was not set since the answer came shows what the answers before it
\* said; one that was shows the last value it was set to.
CellsFollow ==
    \A c \in Cells : IF at = "writing" THEN Shows(cell[c], c, Pub, Made, Len(seen) - 1)
                                       ELSE cell[c] = Reported(c, Len(seen))

IInv == TypeOK /\ TodoIsSuffix /\ CellsFollow

-----------------------------------------------------------------------------
(* What the set() calls of one answer say *)

\* The calls, by position: the scalars, then a pair for each entry of the keyspace.
Laid(pub, info) ==
    /\ pub \in Seq(Cells \X Nat)
    /\ Len(pub) = Len(Scalars) + 2 * Len(info.keyspace)
    /\ \A i \in 1..Len(Scalars) : pub[i] = <<Scalars[i], info.scalar[Scalars[i]]>>
    /\ \A n \in 1..Len(info.keyspace) :
          /\ pub[Len(Scalars) + 2 * n - 1] =
                 << <<"keys", info.keyspace[n][1]>>, info.keyspace[n][2] >>
          /\ pub[Len(Scalars) + 2 * n] =
                 << <<"expires", info.keyspace[n][1]>>, info.keyspace[n][3] >>
    /\ \A i \in 1..Len(pub) : i > Len(Scalars) =>
          \E n \in 1..Len(info.keyspace) :
              i = Len(Scalars) + 2 * n - 1 \/ i = Len(Scalars) + 2 * n

LEMMA PublicationLaid ==
    ASSUME NEW info \in RedisInfo
    PROVE  Laid(Publication(info), info)
<1> DEFINE L == Len(Scalars)
           K == info.keyspace
           A == [i \in 1..L |-> <<Scalars[i], info.scalar[Scalars[i]]>>]
           B == [i \in 1..(2 * Len(K)) |->
                    LET e == K[(i + 1) \div 2]
                    IN  IF i % 2 = 1 THEN << <<"keys", e[1]>>, e[2] >>
                                     ELSE << <<"expires", e[1]>>, e[3] >>]
<1>1. /\ L \in Nat /\ \A i \in 1..L : Scalars[i] \in ScalarSet
      /\ info.scalar \in [ScalarSet -> Nat]
      /\ K \in Seq(Databases \X Nat \X Nat) /\ Len(K) \in Nat
      /\ \A n \in 1..Len(K) : K[n] \in Databases \X Nat \X Nat
  BY RedisAssumption, ElementOfSeq, LenProperties DEF RedisAssumption, RedisInfo
<1>2. \A n \in 1..Len(K) : K[n][1] \in Databases /\ K[n][2] \in Nat /\ K[n][3] \in Nat
  BY <1>1
<1>3. \A i \in 1..L : A[i] \in Cells \X Nat
  BY <1>1 DEF Cells
<1>4. A \in Seq(Cells \X Nat) /\ Len(A) = L
  <2> HIDE DEF A
  <2>1. A = [i \in 1..L |-> A[i]]
    BY DEF A
  <2> QED
    BY <1>1, <1>3, <2>1, IsASeq, LenProperties
<1>5. \A i \in 1..(2 * Len(K)) :
          \E n \in 1..Len(K) : \/ i = 2 * n - 1 /\ (i + 1) \div 2 = n /\ i % 2 = 1
                               \/ i = 2 * n /\ (i + 1) \div 2 = n /\ i % 2 = 0
  <2> SUFFICES ASSUME NEW i \in 1..(2 * Len(K))
               PROVE  \E n \in 1..Len(K) : \/ i = 2 * n - 1 /\ (i + 1) \div 2 = n /\ i % 2 = 1
                                           \/ i = 2 * n /\ (i + 1) \div 2 = n /\ i % 2 = 0
    OBVIOUS
  <2>1. (i + 1) \div 2 \in 1..Len(K)
    BY <1>1
  <2>2. \/ i = 2 * ((i + 1) \div 2) - 1 /\ i % 2 = 1
        \/ i = 2 * ((i + 1) \div 2) /\ i % 2 = 0
    <3>1. i \in Int
      BY <1>1
    <3>2. i = 2 * (i \div 2) + (i % 2) /\ i % 2 \in {0, 1} /\ i \div 2 \in Int
      BY ONLY <3>1
    <3>3. \A k \in Int : (2 * k + 1) \div 2 = k /\ (2 * k + 2) \div 2 = k + 1
      OBVIOUS
    <3>4. CASE i % 2 = 0
      <4>1. (i + 1) \div 2 = i \div 2
        BY ONLY <3>1, <3>2, <3>4
      <4> QED
        BY <3>2, <3>4, <4>1
    <3>5. CASE i % 2 = 1
      <4>1. (i + 1) \div 2 = i \div 2 + 1
        BY ONLY <3>1, <3>2, <3>5
      <4> QED
        BY <3>2, <3>5, <4>1
    <3> QED
      BY <3>2, <3>4, <3>5
  <2> QED
    BY <2>1, <2>2
<1>6. \A n \in 1..Len(K) : /\ 2 * n - 1 \in 1..(2 * Len(K)) /\ 2 * n \in 1..(2 * Len(K))
                           /\ ((2 * n - 1) + 1) \div 2 = n /\ (2 * n - 1) % 2 = 1
                           /\ (2 * n + 1) \div 2 = n /\ (2 * n) % 2 = 0
  BY <1>1
<1>7. \A n \in 1..Len(K) : /\ B[2 * n - 1] = << <<"keys", K[n][1]>>, K[n][2] >>
                           /\ B[2 * n] = << <<"expires", K[n][1]>>, K[n][3] >>
  <2> HIDE DEF K
  <2> QED
    BY <1>6
<1>8. \A n \in 1..Len(K) : << <<"keys", K[n][1]>>, K[n][2] >> \in Cells \X Nat
                           /\ << <<"expires", K[n][1]>>, K[n][3] >> \in Cells \X Nat
  BY <1>2 DEF Cells, DbCells
<1>9. \A i \in 1..(2 * Len(K)) : B[i] \in Cells \X Nat
  <2> HIDE DEF B, K
  <2> QED
    BY <1>5, <1>7, <1>8
<1>10. B \in Seq(Cells \X Nat) /\ Len(B) = 2 * Len(K)
  <2>1. B = [i \in 1..(2 * Len(K)) |-> B[i]] /\ 2 * Len(K) \in Nat
    BY <1>1
  <2> HIDE DEF B, K
  <2> QED
    BY <1>9, <2>1, IsASeq, LenProperties
<1>11. Publication(info) = A \o B
  BY DEF Publication
<1> HIDE DEF A, B, K
<1>12. /\ A \o B \in Seq(Cells \X Nat) /\ Len(A \o B) = L + 2 * Len(K)
       /\ \A i \in 1..L : (A \o B)[i] = A[i]
       /\ \A i \in 1..(2 * Len(K)) : (A \o B)[L + i] = B[i]
  <2> USE <1>1, <1>4, <1>10
  <2> DEFINE C == Cells \X Nat
  <2> HIDE DEF C
  <2>4. A \in Seq(C) /\ B \in Seq(C)
    BY DEF C
  <2>5. /\ A \o B \in Seq(C) /\ Len(A \o B) = Len(A) + Len(B)
        /\ \A i \in 1..(Len(A) + Len(B)) :
              (A \o B)[i] = IF i <= Len(A) THEN A[i] ELSE B[i - Len(A)]
    BY ONLY <2>4, ConcatProperties, Zenon
  <2>1. /\ A \o B \in Seq(Cells \X Nat) /\ Len(A \o B) = Len(A) + Len(B)
        /\ \A i \in 1..(Len(A) + Len(B)) :
              (A \o B)[i] = IF i <= Len(A) THEN A[i] ELSE B[i - Len(A)]
    BY <2>5 DEF C
  <2>2. \A i \in 1..L : (A \o B)[i] = A[i]
    BY <2>1
  <2>3. ASSUME NEW i \in 1..(2 * Len(K)) PROVE (A \o B)[L + i] = B[i]
    <3>1. L + i \in 1..(Len(A) + Len(B)) /\ ~(L + i <= Len(A)) /\ (L + i) - Len(A) = i
      OBVIOUS
    <3> QED
      BY <2>1, <3>1
  <2> QED
    BY <2>1, <2>2, <2>3
<1>13. \A i \in 1..L : (A \o B)[i] = <<Scalars[i], info.scalar[Scalars[i]]>>
  BY <1>12 DEF A
<1>14. \A n \in 1..Len(K) : /\ (A \o B)[L + 2 * n - 1] = << <<"keys", K[n][1]>>, K[n][2] >>
                            /\ (A \o B)[L + 2 * n] = << <<"expires", K[n][1]>>, K[n][3] >>
  <2> SUFFICES ASSUME NEW n \in 1..Len(K)
               PROVE  /\ (A \o B)[L + 2 * n - 1] = << <<"keys", K[n][1]>>, K[n][2] >>
                      /\ (A \o B)[L + 2 * n] = << <<"expires", K[n][1]>>, K[n][3] >>
    OBVIOUS
  <2>1. L + 2 * n - 1 = L + (2 * n - 1)
    BY <1>1
  <2> QED
    BY <1>6, <1>7, <1>12, <2>1
<1>15. \A i \in 1..(L + 2 * Len(K)) : i > L =>
          \E n \in 1..Len(K) : i = L + 2 * n - 1 \/ i = L + 2 * n
  <2> SUFFICES ASSUME NEW i \in 1..(L + 2 * Len(K)), i > L
               PROVE  \E n \in 1..Len(K) : i = L + 2 * n - 1 \/ i = L + 2 * n
    OBVIOUS
  <2>1. i - L \in 1..(2 * Len(K))
    BY <1>1
  <2>2. PICK n \in 1..Len(K) : i - L = 2 * n - 1 \/ i - L = 2 * n
    BY <1>5, <2>1
  <2> QED
    BY <1>1, <2>2
<1> QED
  BY <1>11, <1>12, <1>13, <1>14, <1>15, Zenon DEF Laid, K

\* Nothing is said of a scalar and it is set to 0, or a line says what is set.
SaidOnce(c, raw, v) ==
    \/ c \in ScalarSet /\ LinesAbout(c, raw) = {} /\ v = 0
    \/ \E x \in LinesAbout(c, raw) : v = SaidOf(c, raw[x])

SaidLast(c, raw, v) ==
    \/ c \in ScalarSet /\ LinesAbout(c, raw) = {} /\ v = 0
    \/ LinesAbout(c, raw) # {} /\ v = SaidOf(c, raw[LastOf(LinesAbout(c, raw))])

\* Every call sets what some line says, the last call of a gauge sets what the last line
\* about it says, and a gauge that is never set is one of a database without a line.
PubSays(pub, raw, c) ==
    /\ \A i \in 1..Len(pub) : pub[i][1] = c => SaidOnce(c, raw, pub[i][2])
    /\ \A i \in 1..Len(pub) : LastSet(pub, c, Len(pub), i) => SaidLast(c, raw, pub[i][2])
    /\ (\A i \in 1..Len(pub) : pub[i][1] # c) => c \notin ScalarSet /\ LinesAbout(c, raw) = {}

LEMMA LinesAboutTyped ==
    ASSUME NEW c, NEW raw \in Answers
    PROVE  /\ Len(raw) \in Nat /\ LinesAbout(c, raw) \subseteq 1..Len(raw)
           /\ c \in ScalarSet => LinesAbout(c, raw) = KeyLinesOf(c, raw)
           /\ c \notin ScalarSet => LinesAbout(c, raw) = DbLinesOf(c[2], raw)
BY AnswerTyped DEF LinesAbout, KeyLinesOf, DbLinesOf

LEMMA CellKinds ==
    ASSUME NEW c \in Cells
    PROVE  \/ c \in ScalarSet /\ c \notin DbCells
           \/ /\ c \notin ScalarSet /\ c[2] \in Databases
              /\ c = <<"keys", c[2]>> \/ c = <<"expires", c[2]>>
BY RedisAssumption DEF RedisAssumption, Cells, DbCells

\* The scalars are set once each key, to what its last line says.
LEMMA ScalarsSaid ==
    ASSUME NEW raw \in Answers, NEW c \in ScalarSet, NEW pub, NEW info,
           ParsedUpTo(info, raw, Len(raw)), Laid(pub, info)
    PROVE  PubSays(pub, raw, c)
<1> DEFINE L == Len(Scalars)
           K == info.keyspace
           S == LinesAbout(c, raw)
<1>1. /\ L \in Nat /\ \A i \in 1..L : Scalars[i] \in ScalarSet
      /\ info \in RedisInfo
      /\ K \in Seq(Databases \X Nat \X Nat) /\ Len(K) \in Nat
      /\ \A n \in 1..Len(K) : K[n][1] \in Databases
      /\ S \subseteq 1..Len(raw) /\ S = KeyLinesOf(c, raw) /\ Len(raw) \in Nat
  BY RedisAssumption, ElementOfSeq, LenProperties, LinesAboutTyped
     DEF RedisAssumption, RedisInfo, ParsedUpTo
<1>2. \A d \in Databases : <<"keys", d>> # c /\ <<"expires", d>> # c
  BY RedisAssumption DEF RedisAssumption, DbCells
<1>3. SaidLast(c, raw, info.scalar[c])
  <2>1. \/ NoneUpTo(S, Len(raw)) /\ info.scalar[c] = 0
        \/ \E j \in 1..Len(raw) : /\ LastUpTo(S, Len(raw), j)
                                  /\ info.scalar[c] = Number(raw[j].val)
    BY <1>1 DEF ParsedUpTo, ScalarsParsed
  <2>2. CASE NoneUpTo(S, Len(raw)) /\ info.scalar[c] = 0
    <3>1. S = {}
      BY <1>1, <2>2 DEF NoneUpTo
    <3> QED
      BY <2>2, <3>1 DEF SaidLast
  <2>3. CASE \E j \in 1..Len(raw) : /\ LastUpTo(S, Len(raw), j)
                                    /\ info.scalar[c] = Number(raw[j].val)
    <3>1. PICK j \in 1..Len(raw) : /\ LastUpTo(S, Len(raw), j)
                                   /\ info.scalar[c] = Number(raw[j].val)
      BY <2>3
    <3>2. j \in S /\ \A x \in S : x <= j
      BY <1>1, <3>1 DEF LastUpTo
    <3>3. LastOf(S) = j
      <4> HIDE DEF S
      <4> QED
        BY <1>1, <3>2, LastOfUnique
    <3>4. raw[j] \in KeyLines
      BY <1>1, <3>2 DEF KeyLinesOf
    <3>5. info.scalar[c] = SaidOf(c, raw[j])
      BY <3>1, <3>4, SaidIsParsed
    <3> QED
      BY <3>2, <3>3, <3>5 DEF SaidLast
  <2> QED
    BY <2>1, <2>2, <2>3
<1>4. SaidOnce(c, raw, info.scalar[c])
  <2> HIDE DEF S
  <2>1. S # {} => LastOf(S) \in S
    BY <1>1, LastOfIs
  <2> QED
    BY <1>3, <2>1 DEF SaidLast, SaidOnce, S
<1>5. \A i \in 1..Len(pub) : pub[i][1] = c => pub[i][2] = info.scalar[c]
  <2> SUFFICES ASSUME NEW i \in 1..Len(pub), pub[i][1] = c PROVE pub[i][2] = info.scalar[c]
    OBVIOUS
  <2>1. CASE i <= L
    <3>1. pub[i] = <<Scalars[i], info.scalar[Scalars[i]]>>
      BY <1>1, <2>1 DEF Laid
    <3> QED
      BY <3>1
  <2>2. CASE i > L
    <3>1. PICK n \in 1..Len(K) : i = L + 2 * n - 1 \/ i = L + 2 * n
      BY <2>2 DEF Laid
    <3>2. /\ pub[L + 2 * n - 1] = << <<"keys", K[n][1]>>, K[n][2] >>
          /\ pub[L + 2 * n] = << <<"expires", K[n][1]>>, K[n][3] >>
      BY Zenon DEF Laid
    <3>3. pub[i][1] = <<"keys", K[n][1]>> \/ pub[i][1] = <<"expires", K[n][1]>>
      <4> HIDE DEF K, L
      <4>1. CASE i = L + 2 * n - 1
        <5>1. pub[i] = << <<"keys", K[n][1]>>, K[n][2] >>
          BY <3>2, <4>1, Zenon
        <5> QED
          BY <5>1
      <4>2. CASE i = L + 2 * n
        <5>1. pub[i] = << <<"expires", K[n][1]>>, K[n][3] >>
          BY <3>2, <4>2, Zenon
        <5> QED
          BY <5>1
      <4> QED
        BY <3>1, <4>1, <4>2
    <3> QED
      BY <1>1, <1>2, <3>3
  <2> QED
    BY <1>1, <2>1, <2>2 DEF Laid
<1>6. \E i \in 1..Len(pub) : pub[i][1] = c
  <2>1. PICK i \in 1..L : c = Scalars[i]
    BY DEF ScalarSet
  <2>2. pub[i][1] = c /\ Len(pub) = L + 2 * Len(K)
    BY <2>1 DEF Laid
  <2>3. i \in 1..Len(pub)
    BY <1>1, <2>2
  <2> QED
    BY <2>2, <2>3
<1> QED
  BY <1>3, <1>4, <1>5, <1>6 DEF PubSays, LastSet

\* A database gauge is set once for each of its lines, in their order.
LEMMA DatabasesSaid ==
    ASSUME NEW raw \in Answers, NEW c \in Cells, c \notin ScalarSet, NEW pub, NEW info,
           ParsedUpTo(info, raw, Len(raw)), Laid(pub, info)
    PROVE  PubSays(pub, raw, c)
<1> DEFINE L == Len(Scalars)
           K == info.keyspace
           S == LinesAbout(c, raw)
           d == c[2]
           Pos(n) == IF c[1] = "keys" THEN L + 2 * n - 1 ELSE L + 2 * n
           Val(e) == IF c[1] = "keys" THEN e[2] ELSE e[3]
<1>1. /\ L \in Nat /\ \A i \in 1..L : Scalars[i] \in ScalarSet
      /\ K \in Seq(Databases \X Nat \X Nat) /\ Len(K) \in Nat
      /\ Len(pub) = L + 2 * Len(K)
      /\ S \subseteq 1..Len(raw) /\ S = DbLinesOf(d, raw) /\ Len(raw) \in Nat
  BY RedisAssumption, ElementOfSeq, LenProperties, LinesAboutTyped
     DEF RedisAssumption, RedisInfo, ParsedUpTo, Laid
<1>2. d \in Databases /\ (c = <<"keys", d>> \/ c = <<"expires", d>>)
  BY CellKinds
<1>3. \A n \in 1..Len(K) : /\ pub[L + 2 * n - 1] = << <<"keys", K[n][1]>>, K[n][2] >>
                           /\ pub[L + 2 * n] = << <<"expires", K[n][1]>>, K[n][3] >>
  BY Zenon DEF Laid
<1>4. \A n \in 1..Len(K) :
          /\ Pos(n) \in 1..Len(pub) /\ pub[Pos(n)][2] = Val(K[n])
          /\ K[n][1] = d => pub[Pos(n)][1] = c
  <2> SUFFICES ASSUME NEW n \in 1..Len(K)
               PROVE  /\ Pos(n) \in 1..Len(pub) /\ pub[Pos(n)][2] = Val(K[n])
                      /\ K[n][1] = d => pub[Pos(n)][1] = c
    OBVIOUS
  <2>3. /\ pub[L + 2 * n - 1][1] = <<"keys", K[n][1]>> /\ pub[L + 2 * n - 1][2] = K[n][2]
        /\ pub[L + 2 * n][1] = <<"expires", K[n][1]>> /\ pub[L + 2 * n][2] = K[n][3]
        /\ L + 2 * n - 1 \in 1..Len(pub) /\ L + 2 * n \in 1..Len(pub)
    <3>1. L + 2 * n - 1 \in 1..Len(pub) /\ L + 2 * n \in 1..Len(pub)
      BY <1>1
    <3>2. /\ pub[L + 2 * n - 1] = << <<"keys", K[n][1]>>, K[n][2] >>
          /\ pub[L + 2 * n] = << <<"expires", K[n][1]>>, K[n][3] >>
      BY <1>3, Zenon
    <3> QED
      BY <3>1, <3>2
  <2>1. CASE c[1] = "keys"
    <3>1. c = <<"keys", d>>
      BY <1>2, <2>1
    <3> HIDE DEF d
    <3> QED
      BY <2>1, <2>3, <3>1
  <2>2. CASE c[1] # "keys"
    <3>1. c = <<"expires", d>>
      BY <1>2, <2>2
    <3> HIDE DEF d
    <3> QED
      BY <2>2, <2>3, <3>1
  <2> QED
    BY <2>1, <2>2
<1>5. \A i \in 1..Len(pub) : pub[i][1] = c =>
          \E n \in 1..Len(K) : i = Pos(n) /\ K[n][1] = d
  <2> SUFFICES ASSUME NEW i \in 1..Len(pub), pub[i][1] = c
               PROVE  \E n \in 1..Len(K) : i = Pos(n) /\ K[n][1] = d
    OBVIOUS
  <2>1. i > L
    <3> SUFFICES ASSUME i <= L PROVE FALSE
      BY <1>1
    <3>1. pub[i] = <<Scalars[i], info.scalar[Scalars[i]]>>
      BY <1>1 DEF Laid
    <3> QED
      BY <1>1, <3>1
  <2>2. PICK n \in 1..Len(K) : i = L + 2 * n - 1 \/ i = L + 2 * n
    BY <2>1 DEF Laid
  <2>3. CASE i = L + 2 * n - 1
    <3>1. c = <<"keys", K[n][1]>>
      BY <1>3, <2>3
    <3> QED
      BY <2>3, <3>1
  <2>4. CASE i = L + 2 * n
    <3>1. c = <<"expires", K[n][1]>>
      BY <1>3, <2>4
    <3> QED
      BY <2>4, <3>1
  <2> QED
    BY <2>2, <2>3, <2>4
<1>6. \A n \in 1..Len(K) : K[n][1] = d =>
          \E x \in S : K[n] = Entry(raw[x])
  <2> SUFFICES ASSUME NEW n \in 1..Len(K), K[n][1] = d PROVE \E x \in S : K[n] = Entry(raw[x])
    OBVIOUS
  <2>1. PICK x \in 1..Len(raw) : raw[x] \in DbLines /\ K[n] = Entry(raw[x])
    BY DEF ParsedUpTo, EntriesAreLines
  <2>2. raw[x].db = d
    BY <2>1 DEF Entry
  <2> QED
    BY <1>1, <2>1, <2>2 DEF DbLinesOf
<1>7. \A x \in S : Val(Entry(raw[x])) = SaidOf(c, raw[x])
  <2> SUFFICES ASSUME NEW x \in S PROVE Val(Entry(raw[x])) = SaidOf(c, raw[x])
    OBVIOUS
  <2>1. raw[x] \in DbLines
    BY <1>1 DEF DbLinesOf
  <2> QED
    BY <2>1, SaidIsParsed
<1>8. \A i \in 1..Len(pub) : pub[i][1] = c => SaidOnce(c, raw, pub[i][2])
  <2> SUFFICES ASSUME NEW i \in 1..Len(pub), pub[i][1] = c
               PROVE  \E x \in S : pub[i][2] = SaidOf(c, raw[x])
    BY DEF SaidOnce
  <2>1. PICK n \in 1..Len(K) : i = Pos(n) /\ K[n][1] = d
    BY <1>5
  <2>2. PICK x \in S : K[n] = Entry(raw[x])
    BY <1>6, <2>1
  <2> HIDE DEF Pos, Val, S, K, L
  <2> QED
    BY <1>4, <1>7, <2>1, <2>2
<1>9. \/ S = {} /\ \A n \in 1..Len(K) : K[n][1] # d
      \/ \E n \in 1..Len(K) : /\ S # {} /\ K[n] = Entry(raw[LastOf(S)]) /\ K[n][1] = d
                              /\ \A x \in 1..Len(K) : K[x][1] = d => x <= n
  <2>1. \/ NoneUpTo(S, Len(raw)) /\ \A n \in 1..Len(K) : K[n][1] # d
        \/ \E j \in 1..Len(raw), n \in 1..Len(K) :
              /\ LastUpTo(S, Len(raw), j) /\ K[n] = Entry(raw[j])
              /\ \A x \in 1..Len(K) : K[x][1] = d => x <= n
    <3> HIDE DEF d
    <3>1. LastEntriesParsed(info, raw, Len(raw))
      BY DEF ParsedUpTo
    <3>2. \/ NoneUpTo(DbLinesOf(d, raw), Len(raw)) /\ \A n \in 1..Len(K) : K[n][1] # d
          \/ \E j \in 1..Len(raw), n \in 1..Len(K) :
                /\ LastUpTo(DbLinesOf(d, raw), Len(raw), j) /\ K[n] = Entry(raw[j])
                /\ \A x \in 1..Len(K) : K[x][1] = d => x <= n
      BY <1>2, <3>1, Zenon DEF LastEntriesParsed
    <3> HIDE DEF S, K
    <3> QED
      BY <1>1, <3>2
  <2>2. CASE NoneUpTo(S, Len(raw)) /\ \A n \in 1..Len(K) : K[n][1] # d
    <3>1. S = {}
      BY <1>1, <2>2 DEF NoneUpTo
    <3> QED
      BY <2>2, <3>1
  <2>3. ASSUME NEW j \in 1..Len(raw), NEW n \in 1..Len(K),
               LastUpTo(S, Len(raw), j), K[n] = Entry(raw[j]),
               \A x \in 1..Len(K) : K[x][1] = d => x <= n
        PROVE  S # {} /\ K[n] = Entry(raw[LastOf(S)]) /\ K[n][1] = d
    <3>1. j \in S /\ \A x \in S : x <= j
      BY <1>1, <2>3 DEF LastUpTo
    <3>2. LastOf(S) = j
      <4> HIDE DEF S
      <4> QED
        BY <1>1, <3>1, LastOfUnique
    <3>3. K[n][1] = d
      BY <1>1, <2>3, <3>1 DEF DbLinesOf, Entry
    <3> QED
      BY <2>3, <3>1, <3>2, <3>3
  <2> HIDE DEF S, K
  <2> QED
    BY <2>1, <2>2, <2>3
<1>10. \A i \in 1..Len(pub) : LastSet(pub, c, Len(pub), i) => SaidLast(c, raw, pub[i][2])
  <2> SUFFICES ASSUME NEW i \in 1..Len(pub), LastSet(pub, c, Len(pub), i)
               PROVE  S # {} /\ pub[i][2] = SaidOf(c, raw[LastOf(S)])
    BY DEF SaidLast
  <2>1. PICK n \in 1..Len(K) : i = Pos(n) /\ K[n][1] = d
    BY <1>5 DEF LastSet
  <2>2. PICK m \in 1..Len(K) : /\ S # {} /\ K[m] = Entry(raw[LastOf(S)]) /\ K[m][1] = d
                               /\ \A x \in 1..Len(K) : K[x][1] = d => x <= m
    BY <1>9, <2>1
  <2>3. Pos(m) <= Pos(n) /\ n <= m
    <3> HIDE DEF Pos, K, L
    <3> QED
      BY <1>4, <2>1, <2>2 DEF LastSet
  <2>4. n = m
    BY <1>1, <2>3
  <2>5. LastOf(S) \in S
    <3> HIDE DEF S
    <3> QED
      BY <1>1, <2>2, LastOfIs
  <2> HIDE DEF Pos, Val, S, K, L
  <2>6. Val(K[n]) = SaidOf(c, raw[LastOf(S)])
    BY <1>7, <2>2, <2>4, <2>5
  <2> QED
    BY <1>4, <2>1, <2>2, <2>6
<1>11. (\A i \in 1..Len(pub) : pub[i][1] # c) => LinesAbout(c, raw) = {}
  <2> HIDE DEF Pos, Val, K, L
  <2> QED
    BY <1>4, <1>9
<1> QED
  BY <1>8, <1>10, <1>11 DEF PubSays

\* What the set() calls of an answer say of a gauge, whatever the answer.
LEMMA PublicationSays ==
    ASSUME NEW raw \in Answers, NEW c \in Cells
    PROVE  PubSays(Publication(ParseInfo(raw)), raw, c)
<1> DEFINE info == ParseInfo(raw)
<1>1. ParsedUpTo(info, raw, Len(raw))
  BY ParseInfoIsExact
<1>2. info \in RedisInfo
  BY <1>1 DEF ParsedUpTo
<1> HIDE DEF info
<1>3. Laid(Publication(info), info)
  BY <1>2, PublicationLaid
<1>4. PubSays(Publication(info), raw, c)
  BY <1>1, <1>3, ScalarsSaid, DatabasesSaid, Zenon
<1> QED
  BY <1>4 DEF info

-----------------------------------------------------------------------------
(* What the answers report *)

\* The reference, told by the last answer alone or with the answers before it.
LEMMA ReportedIs ==
    ASSUME NEW c \in Cells, NEW m \in Nat, m >= 1, NEW v,
           \A k \in 1..m : seen[k] \in Answers
    PROVE  /\ SaidLast(c, seen[m], v) => v = Reported(c, m)
           /\ c \notin ScalarSet /\ LinesAbout(c, seen[m]) = {} => Reported(c, m) = Reported(c, m - 1)
<1> DEFINE T(n) == {k \in 1..n : LinesAbout(c, seen[k]) # {}}
<1>1. ASSUME LinesAbout(c, seen[m]) # {}
      PROVE  Reported(c, m) = SaidOf(c, seen[m][LastOf(LinesAbout(c, seen[m]))])
  <2>1. T(m) \subseteq 1..m /\ m \in T(m) /\ \A k \in T(m) : k <= m
    BY <1>1
  <2>2. LastOf(T(m)) = m
    <3> HIDE DEF T
    <3> QED
      BY <2>1, LastOfUnique
  <2>3. T(m) # {}
    BY <2>1
  <2> QED
    BY <2>2, <2>3 DEF Reported
<1>2. ASSUME LinesAbout(c, seen[m]) = {}, c \in ScalarSet PROVE Reported(c, m) = 0
  <2>1. T(m) # {} => LastOf(T(m)) # m
    <3>1. T(m) \subseteq 1..m /\ m \notin T(m)
      BY <1>2
    <3> HIDE DEF T
    <3> QED
      BY <3>1, LastOfIs
  <2> QED
    BY <1>2, <2>1 DEF Reported
<1>3. ASSUME LinesAbout(c, seen[m]) = {}, c \notin ScalarSet
      PROVE  Reported(c, m) = Reported(c, m - 1)
  <2>1. T(m) = T(m - 1)
    BY <1>3
  <2> QED
    BY <1>3, <2>1, Zenon DEF Reported
<1> QED
  BY <1>1, <1>2, <1>3 DEF SaidLast

\* A new answer changes nothing of what was reported before it.
LEMMA ReportedStays ==
    ASSUME NEW c, NEW m \in Nat, \A k \in 1..m : seen'[k] = seen[k]
    PROVE  Reported(c, m)' = Reported(c, m)
<1> DEFINE T == {k \in 1..m : LinesAbout(c, seen[k]) # {}}
<1>1. T' = T
  OBVIOUS
<1>2. T # {} => LastOf(T) \in 1..m
  <2>1. T \subseteq 1..m
    OBVIOUS
  <2> HIDE DEF T
  <2> QED
    BY <2>1, LastOfIs
<1>3. T # {} => seen'[LastOf(T)] = seen[LastOf(T)]
  BY <1>2
<1> QED
  BY <1>1, <1>3 DEF Reported

\* One more set() call.
LEMMA ShowsStep ==
    ASSUME NEW c, NEW v, NEW pub, NEW p \in Nat, NEW m, Shows(v, c, pub, p, m)
    PROVE  Shows(IF pub[p + 1][1] = c THEN pub[p + 1][2] ELSE v, c, pub, p + 1, m)
<1>1. CASE pub[p + 1][1] = c
  <2>1. LastSet(pub, c, p + 1, p + 1)
    BY <1>1 DEF LastSet
  <2> QED
    BY <1>1, <2>1 DEF Shows
<1>2. CASE pub[p + 1][1] # c
  <2>1. (\A i \in 1..p : pub[i][1] # c) => \A i \in 1..(p + 1) : pub[i][1] # c
    BY <1>2
  <2>2. \A i \in 1..p : i \in 1..(p + 1) /\ (LastSet(pub, c, p, i) => LastSet(pub, c, p + 1, i))
    BY <1>2 DEF LastSet
  <2> QED
    BY <1>2, <2>1, <2>2 DEF Shows
<1> QED
  BY <1>1, <1>2

\* After the last one every gauge shows what the answers report.
LEMMA AllShown ==
    ASSUME NEW c \in Cells, NEW v, NEW m \in Nat, m >= 1, \A k \in 1..m : seen[k] \in Answers,
           Shows(v, c, Publication(ParseInfo(seen[m])), Len(Publication(ParseInfo(seen[m]))), m - 1)
    PROVE  v = Reported(c, m)
<1> DEFINE pub == Publication(ParseInfo(seen[m]))
<1>1. PubSays(pub, seen[m], c)
  BY PublicationSays
<1> HIDE DEF pub
<1>2. Shows(v, c, pub, Len(pub), m - 1)
  BY DEF pub
<1>3. CASE (\A i \in 1..Len(pub) : pub[i][1] # c) /\ v = Reported(c, m - 1)
  BY <1>1, <1>3, ReportedIs DEF PubSays
<1>4. CASE \E i \in 1..Len(pub) : LastSet(pub, c, Len(pub), i) /\ v = pub[i][2]
  BY <1>1, <1>4, ReportedIs DEF PubSays
<1> QED
  BY <1>2, <1>3, <1>4 DEF Shows

-----------------------------------------------------------------------------
(* The invariant is inductive *)

LEMMA SeenTyped ==
    ASSUME TypeOK
    PROVE  /\ Len(seen) \in Nat /\ \A k \in 1..Len(seen) : seen[k] \in Answers
           /\ todo \in Seq(Cells \X Nat) /\ Len(todo) \in Nat
BY LenProperties, ElementOfSeq DEF TypeOK

\* The set() calls of an answer begin with a scalar.
LEMMA PubTyped ==
    ASSUME NEW raw \in Answers
    PROVE  /\ Publication(ParseInfo(raw)) \in Seq(Cells \X Nat)
           /\ Publication(ParseInfo(raw)) # <<>>
           /\ Len(Publication(ParseInfo(raw))) \in Nat
<1> DEFINE info == ParseInfo(raw)
           pub == Publication(info)
<1>1. info \in RedisInfo
  BY ParseInfoIsExact DEF ParsedUpTo
<1>2. info.keyspace \in Seq(Databases \X Nat \X Nat) /\ Len(info.keyspace) \in Nat
  BY <1>1, LenProperties DEF RedisInfo
<1>3. Len(Scalars) \in Nat /\ Len(Scalars) # 0
  BY RedisAssumption, LenProperties, EmptySeq DEF RedisAssumption
<1>4. Laid(pub, info)
  BY <1>1, PublicationLaid
<1> HIDE DEF pub, info
<1>5. /\ pub \in Seq(Cells \X Nat) /\ Len(pub) = Len(Scalars) + 2 * Len(info.keyspace)
  BY <1>4 DEF Laid
<1>6. Len(pub) \in Nat /\ Len(pub) # 0
  BY <1>2, <1>3, <1>5
<1> QED
  BY <1>5, <1>6 DEF pub, info

LEMMA InitIInv == Init => IInv
<1> SUFFICES ASSUME Init PROVE IInv
  OBVIOUS
<1>1. at = "idle" /\ todo = <<>> /\ seen = <<>>
  BY DEF Init
<1>2. seen \in Seq(Answers) /\ Len(seen) = 0 /\ todo \in Seq(Cells \X Nat)
  BY <1>1
<1>3. cell \in [Cells -> Nat \cup {Absent}]
  BY DEF Init
<1>4. TypeOK
  <2>1. MaxInfos \in Nat
    BY RedisAssumption DEF RedisAssumption
  <2> QED
    BY <1>1, <1>2, <1>3, <2>1 DEF TypeOK
<1>5. \A c \in Cells : cell[c] = Reported(c, 0)
  <2>1. \A c \in Cells : cell[c] = IF c \in ScalarSet THEN 0 ELSE Absent
    BY DEF Init
  <2>2. \A c : Reported(c, 0) = IF c \in ScalarSet THEN 0 ELSE Absent
    BY DEF Reported
  <2> QED
    BY <2>1, <2>2
<1> QED
  BY <1>1, <1>2, <1>4, <1>5 DEF IInv, TodoIsSuffix, CellsFollow

\* Begin, a failed INFO and an abort: nothing is being written before or after.
LEMMA Quiet ==
    ASSUME IInv, at # "writing", at' \in {"idle", "asking", "ended"},
           UNCHANGED <<todo, cell, seen>>
    PROVE  IInv'
<1>1. TypeOK'
  BY DEF IInv, TypeOK
<1>2. TodoIsSuffix'
  BY DEF TodoIsSuffix
<1>3. \A c, m : Reported(c, m)' = Reported(c, m)
  BY DEF Reported, LinesAbout
<1>4. CellsFollow'
  BY <1>3 DEF IInv, CellsFollow
<1> QED
  BY <1>1, <1>2, <1>4 DEF IInv

LEMMA InfoOkStep ==
    ASSUME IInv, NEW raw \in Answers, InfoOk(raw)
    PROVE  IInv'
<1> DEFINE pub == Publication(ParseInfo(raw))
<1>0. PICK n \in Nat : n = Len(seen)
  BY SeenTyped DEF IInv
<1>1. TypeOK /\ (\A k \in 1..n : seen[k] \in Answers)
  BY <1>0, SeenTyped DEF IInv
<1>2. pub \in Seq(Cells \X Nat) /\ pub # <<>> /\ Len(pub) \in Nat
  BY PubTyped
<1>3. /\ seen' \in Seq(Answers) /\ Len(seen') = n + 1 /\ seen'[n + 1] = raw
      /\ \A k \in 1..n : seen'[k] = seen[k]
  <2>1. seen' = Append(seen, raw) /\ seen \in Seq(Answers)
    BY <1>1 DEF InfoOk, TypeOK
  <2> QED
    BY <1>0, <2>1, AppendProperties
<1>4. todo' = pub /\ at = "asking" /\ at' = "writing" /\ cell' = cell /\ n < MaxInfos
  BY <1>0 DEF InfoOk
<1>5. Pub' = pub /\ Made' = 0
  <2>1. Pub' = pub
    BY <1>3, <1>1 DEF Pub
  <2> HIDE DEF pub
  <2> QED
    BY <1>2, <1>4, <2>1 DEF Made
<1> HIDE DEF pub
<1>6. TypeOK'
  <2>1. MaxInfos \in Nat
    BY RedisAssumption DEF RedisAssumption
  <2> QED
    BY <1>1, <1>2, <1>3, <1>4, <2>1 DEF TypeOK
<1>7. TodoIsSuffix'
  BY <1>1, <1>2, <1>3, <1>4, <1>5 DEF TodoIsSuffix
<1>8. ASSUME NEW c \in Cells PROVE Shows(cell[c], c, Pub, Made, Len(seen) - 1)'
  <2>1. cell[c] = Reported(c, n)
    BY <1>0, <1>4 DEF IInv, CellsFollow
  <2>2. Reported(c, n)' = Reported(c, n)
    <3>1. \A m \in Nat : (\A k \in 1..m : seen'[k] = seen[k]) => Reported(c, m)' = Reported(c, m)
      BY ReportedStays
    <3> QED
      BY <1>1, <1>3, <3>1
  <2>3. Len(seen') - 1 = n
    BY <1>0, <1>1, <1>3, LenProperties
  <2>4. Reported(c, Len(seen) - 1)' = Reported(c, n)'
    BY <2>3 DEF Reported
  <2>5. cell'[c] = Reported(c, Len(seen) - 1)'
    BY <1>4, <2>1, <2>2, <2>4
  <2> QED
    BY <1>5, <2>5 DEF Shows
<1>9. CellsFollow'
  BY <1>4, <1>8 DEF CellsFollow
<1> QED
  BY <1>6, <1>7, <1>9 DEF IInv

LEMMA SetNextStep ==
    ASSUME IInv, SetNext
    PROVE  IInv'
<1>0. PICK n \in Nat : n = Len(seen)
  BY SeenTyped DEF IInv
<1>1. /\ TypeOK /\ TodoIsSuffix /\ CellsFollow
      /\ at = "writing" /\ n >= 1 /\ seen' = seen /\ seen \in Seq(Answers) /\ n <= MaxInfos
      /\ \A k \in 1..n : seen[k] \in Answers
      /\ todo \in Seq(Cells \X Nat) /\ todo # <<>> /\ Len(todo) \in Nat
      /\ cell \in [Cells -> Nat \cup {Absent}]
  BY <1>0, SeenTyped DEF IInv, SetNext, TypeOK, TodoIsSuffix
<1>2. PICK pub : pub = Pub
  OBVIOUS
<1>3. pub \in Seq(Cells \X Nat) /\ Len(pub) \in Nat /\ pub = Publication(ParseInfo(seen[n]))
  BY <1>0, <1>1, <1>2, PubTyped DEF Pub
<1>4. PICK p : p = Made
  OBVIOUS
<1>5. /\ p \in Nat /\ p + 1 \in 1..Len(pub) /\ Len(todo) = Len(pub) - p /\ todo[1] = pub[p + 1]
      /\ \A i \in 1..Len(todo) : todo[i] = pub[p + i]
  <2>1. /\ Len(todo) <= Len(pub) /\ p = Len(pub) - Len(todo)
        /\ \A i \in 1..Len(todo) : todo[i] = pub[p + i]
    BY <1>1, <1>2, <1>4 DEF TodoIsSuffix, Made
  <2>2. Len(todo) >= 1
    BY <1>1, EmptySeq, LenProperties
  <2> QED
    BY <1>1, <1>3, <2>1, <2>2
<1>6. PICK c0 \in Cells, v0 \in Nat : Head(todo) = <<c0, v0>> /\ pub[p + 1] = <<c0, v0>>
  <2>1. 1 \in 1..Len(todo)
    BY <1>5
  <2>2. todo[1] \in Cells \X Nat
    <3> DEFINE C == Cells \X Nat
    <3>1. todo \in Seq(C)
      BY <1>1
    <3> HIDE DEF C
    <3>2. todo[1] \in C
      BY ONLY <2>1, <3>1, ElementOfSeq
    <3> QED
      BY <3>2 DEF C
  <2>3. Head(todo) = todo[1]
    BY <1>1, HeadTailProperties
  <2> QED
    BY <1>5, <2>2, <2>3
<1>7. /\ cell' = [cell EXCEPT ![c0] = v0] /\ todo' = Tail(todo)
      /\ at' = IF todo' = <<>> THEN "idle" ELSE "writing"
  <2>1. Head(todo)[1] = c0 /\ Head(todo)[2] = v0
    BY <1>6
  <2> QED
    BY <2>1, Zenon DEF SetNext
<1>8. /\ todo' \in Seq(Cells \X Nat) /\ Len(todo') = Len(pub) - (p + 1)
      /\ \A i \in 1..Len(todo') : todo'[i] = pub[(p + 1) + i]
  <2>1. /\ todo' \in Seq(Cells \X Nat) /\ Len(todo') = Len(todo) - 1
        /\ \A i \in 1..Len(todo') : todo'[i] = todo[i + 1]
    BY <1>1, <1>7, HeadTailProperties
  <2>2. ASSUME NEW i \in 1..Len(todo') PROVE todo'[i] = pub[(p + 1) + i]
    <3>1. i + 1 \in 1..Len(todo) /\ p + (i + 1) = (p + 1) + i
      BY <1>1, <1>5, <2>1
    <3> QED
      BY <1>5, <2>1, <3>1
  <2>3. Len(todo') = Len(pub) - (p + 1)
    BY <1>1, <1>3, <1>5, <2>1
  <2> QED
    BY <2>1, <2>2, <2>3
<1>9. Pub' = pub /\ Made' = p + 1
  <2>1. Pub' = pub
    BY <1>1, <1>2 DEF Pub
  <2> QED
    BY <1>3, <1>5, <1>8, <2>1 DEF Made
<1>10. TypeOK'
  <2>1. cell' \in [Cells -> Nat \cup {Absent}]
    BY <1>1, <1>6, <1>7
  <2> QED
    BY <1>0, <1>1, <1>7, <1>8, <2>1 DEF TypeOK
<1>11. TodoIsSuffix'
  BY <1>0, <1>1, <1>3, <1>5, <1>8, <1>9 DEF TodoIsSuffix
<1>12. ASSUME NEW c \in Cells PROVE Shows(cell'[c], c, pub, p + 1, n - 1)
  <2>1. Shows(cell[c], c, pub, p, n - 1)
    BY <1>0, <1>1, <1>2, <1>4 DEF CellsFollow
  <2>2. cell'[c] = IF pub[p + 1][1] = c THEN pub[p + 1][2] ELSE cell[c]
    BY <1>1, <1>6, <1>7
  <2> QED
    BY <1>5, <2>1, <2>2, ShowsStep
<1>13. \A c, m : Reported(c, m)' = Reported(c, m)
  BY <1>1 DEF Reported
<1>14. CellsFollow'
  <2>1. CASE todo' = <<>>
    <3>1. at' = "idle" /\ p + 1 = Len(pub)
      <4>1. Len(todo') = 0
        BY <2>1
      <4>2. p + 1 = Len(pub)
        BY <1>3, <1>5, <1>8, <4>1
      <4>3. at' = "idle"
        BY <1>7, <2>1, Zenon
      <4> QED
        BY <4>2, <4>3
    <3>2. ASSUME NEW c \in Cells PROVE cell'[c] = Reported(c, n)
      <4>1. Shows(cell'[c], c, pub, Len(pub), n - 1)
        BY <1>12, <3>1
      <4>2. Shows(cell'[c], c, Publication(ParseInfo(seen[n])),
                  Len(Publication(ParseInfo(seen[n]))), n - 1)
        BY <1>3, <4>1
      <4> QED
        BY <1>1, <4>2, AllShown
    <3>3. \A c \in Cells : cell'[c] = Reported(c, Len(seen))'
      BY <1>0, <1>1, <1>13, <3>2
    <3> QED
      BY <3>1, <3>3 DEF CellsFollow
  <2>2. CASE todo' # <<>>
    <3>1. at' = "writing"
      BY <1>7, <2>2
    <3>2. ASSUME NEW c \in Cells PROVE Shows(cell[c], c, Pub, Made, Len(seen) - 1)'
      BY <1>0, <1>1, <1>9, <1>12, <1>13 DEF Shows
    <3> QED
      BY <3>1, <3>2 DEF CellsFollow
  <2> QED
    BY <2>1, <2>2
<1> QED
  BY <1>10, <1>11, <1>14 DEF IInv

\* The invariant of collect(), for any keys, databases and bounds.
THEOREM Invariance == Spec => []IInv
<1>1. Init => IInv
  BY InitIInv
<1>2. IInv /\ [Next]_vars => IInv'
  <2> SUFFICES ASSUME IInv, [Next]_vars PROVE IInv'
    OBVIOUS
  <2>1. CASE Begin
    BY <2>1, Quiet DEF Begin
  <2>2. ASSUME NEW raw \in Answers, InfoOk(raw) PROVE IInv'
    BY <2>2, InfoOkStep
  <2>3. CASE InfoErr
    BY <2>3, Quiet DEF InfoErr
  <2>4. CASE Abort
    BY <2>4, Quiet DEF Abort
  <2>5. CASE SetNext
    BY <2>5, SetNextStep
  <2>6. CASE UNCHANGED vars
    <3> USE <2>6 DEF vars
    <3>1. TypeOK' /\ TodoIsSuffix'
      BY DEF IInv, TypeOK, TodoIsSuffix, Made, Pub
    <3>2. \A c, m : Reported(c, m)' = Reported(c, m)
      BY DEF Reported
    <3>3. Pub' = Pub /\ Made' = Made
      BY DEF Made, Pub
    <3>4. ASSUME NEW c \in Cells
          PROVE  /\ Shows(cell[c], c, Pub, Made, Len(seen) - 1)
                        => Shows(cell[c], c, Pub, Made, Len(seen) - 1)'
                 /\ cell[c] = Reported(c, Len(seen)) => (cell[c] = Reported(c, Len(seen)))'
      BY <3>2, <3>3 DEF Shows
    <3>5. CellsFollow'
      BY <3>4 DEF IInv, CellsFollow
    <3> QED
      BY <3>1, <3>5 DEF IInv
  <2> QED
    BY <2>1, <2>2, <2>3, <2>4, <2>5, <2>6 DEF Next
<1> QED
  BY <1>1, <1>2, PTL DEF Spec

\* RedisCollect.TypeOK.
THEOREM SpecTypeOK == Spec => []TypeOK
<1>1. IInv => TypeOK
  BY DEF IInv
<1> QED
  BY <1>1, Invariance, PTL

\* Whatever collects failed or were aborted, the gauges at rest carry the last INFO
\* (metrics.rs:170-199).
THEOREM SpecGaugesCarryLastInfo == Spec => []GaugesCarryLastInfo
<1>1. IInv => GaugesCarryLastInfo
  BY DEF IInv, CellsFollow, GaugesCarryLastInfo
<1> QED
  BY <1>1, Invariance, PTL

\* A scrape between two set() calls mixes two answers and no more (metrics.rs:170-199).
THEOREM SpecScrapeMixesTwoInfos == Spec => []ScrapeMixesTwoInfos
<1>1. IInv => ScrapeMixesTwoInfos
  <2> SUFFICES ASSUME IInv, at = "writing", NEW c \in Cells
               PROVE  \/ cell[c] = Reported(c, Len(seen) - 1)
                      \/ SaidOnce(c, seen[Len(seen)], cell[c])
    BY DEF ScrapeMixesTwoInfos, SaidOnce
  <2>1. /\ seen[Len(seen)] \in Answers
        /\ Len(Pub) \in Nat /\ Made <= Len(Pub) /\ Made \in Int
    <3>1. Len(seen) >= 1 /\ Len(todo) <= Len(Pub)
      BY DEF IInv, TodoIsSuffix
    <3>2. seen[Len(seen)] \in Answers
      BY <3>1, SeenTyped DEF IInv
    <3>3. Len(Pub) \in Nat
      BY <3>2, PubTyped DEF Pub
    <3>4. Len(todo) \in Nat
      BY SeenTyped DEF IInv
    <3> QED
      BY <3>2, <3>3, <3>4 DEF Made
  <2>2. PubSays(Pub, seen[Len(seen)], c)
    BY <2>1, PublicationSays DEF Pub
  <2>3. Shows(cell[c], c, Pub, Made, Len(seen) - 1)
    BY DEF IInv, CellsFollow
  <2>4. ASSUME NEW i \in 1..Made, LastSet(Pub, c, Made, i), cell[c] = Pub[i][2]
        PROVE  SaidOnce(c, seen[Len(seen)], cell[c])
    <3>1. i \in 1..Len(Pub) /\ Pub[i][1] = c
      BY <2>1, <2>4 DEF LastSet
    <3> QED
      BY <2>2, <2>4, <3>1 DEF PubSays
  <2> QED
    BY <2>3, <2>4 DEF Shows
<1> QED
  BY <1>1, Invariance, PTL
=============================================================================
