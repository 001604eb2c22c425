------------------------- MODULE CollectLoop_proofs -------------------------
(***************************************************************************)
(* Proofs about CollectLoop, for every period, slack and lag, and a clock  *)
(* that runs as long as one likes.                                         *)
(***************************************************************************)
EXTENDS CollectLoop, Integers, SequenceTheorems, TLAPS

\* The history has its type, and Collecting says which end of it is open.
Typed ==
    /\ now \in Nat /\ due \in Nat
    /\ starts \in Seq([due : Nat, at : Nat])
    /\ ends \in Seq(Nat)
    /\ Len(starts) \in {Len(ends), Len(ends) + 1}

\* What the entries of the history are.
LEMMA Entries ==
    ASSUME Typed
    PROVE  /\ Len(starts) \in Nat /\ Len(ends) \in Nat
           /\ \A i \in 1..Len(starts) : starts[i].at \in Nat /\ starts[i].due \in Nat
           /\ \A i \in 1..Len(ends) : ends[i] \in Nat
<1>1. Len(starts) \in Nat /\ Len(ends) \in Nat
  BY LenProperties DEF Typed
<1>2. ASSUME NEW i \in 1..Len(starts) PROVE starts[i].at \in Nat /\ starts[i].due \in Nat
  <2>1. starts[i] \in [due : Nat, at : Nat]
    BY ElementOfSeq DEF Typed
  <2> QED
    BY <2>1
<1>3. ASSUME NEW i \in 1..Len(ends) PROVE ends[i] \in Nat
  BY ElementOfSeq DEF Typed
<1> QED
  BY <1>1, <1>2, <1>3

\* The deadline lies a period, less the slack, behind the last start for each collect
\* since: what it is for the one after, NoBurst says of the ones before.
DueSpaced ==
    \A i \in 1..Len(starts) :
        starts[i].at + (Len(starts) + 1 - i) * Period <= due + Slack

\* The deadline is at most a period after the last start, and the workers at most
\* MaxLag behind what they have to poll.
DueSoon ==
    /\ starts # <<>> => due <= starts[Len(starts)].at + Period
    /\ ~Collecting => now <= Ready + MaxLag
    /\ starts = <<>> => due = 0

\* As long as no start was late, deadlines are whole periods from the first start.
OnTime(k) == \A i \in 1..k : starts[i].at <= starts[i].due + Slack

DueOnGrid ==
    OnTime(Len(starts)) /\ starts # <<>>
        => due <= starts[1].at + Len(starts) * Period

IInv == Typed /\ DueSpaced /\ DueSoon /\ DueOnGrid /\ NoBurst /\ NoExtraWait /\ NoDrift

\* Nothing has begun.
LEMMA InitIInv == Init => IInv
BY LoopAssumption
   DEF Init, IInv, Typed, DueSpaced, DueSoon, DueOnGrid, OnTime, NoBurst, NoExtraWait, NoDrift,
       Collecting, Ready, LoopAssumption

\* The passing of time moves no deadline and stops before a worker is too late.
LEMMA ElapseKeepsIInv == IInv /\ Elapse => IInv'
<1> SUFFICES ASSUME IInv, Elapse PROVE IInv'
  OBVIOUS
<1> USE LoopAssumption DEF LoopAssumption
<1>1. now' = now + 1 /\ UNCHANGED <<due, starts, ends>>
  BY DEF Elapse
<1>2. Typed' /\ DueSpaced' /\ DueOnGrid' /\ NoBurst' /\ NoDrift'
  BY <1>1 DEF IInv, Typed, DueSpaced, DueOnGrid, OnTime, NoBurst, NoDrift
<1>3. Ready \in Nat
  BY DEF IInv, Typed, Ready, Larger
<1>4. DueSoon'
  BY <1>1, <1>3 DEF IInv, Typed, DueSoon, Elapse, Ready, Collecting
<1>5. NoExtraWait'
  <2> SUFFICES ASSUME NEW i \in 1..Len(ends)
               PROVE  (IF i < Len(starts) THEN starts[i + 1].at ELSE now + 1)
                          <= Larger(starts[i].at + Period, ends[i]) + MaxLag
    BY <1>1 DEF NoExtraWait
  <2>1. CASE i < Len(starts)
    BY <2>1 DEF IInv, Typed, NoExtraWait
  <2>2. CASE ~(i < Len(starts))
    <3>1. i = Len(starts) /\ i = Len(ends) /\ ~Collecting /\ starts # <<>> /\ ends # <<>>
      BY <2>2 DEF IInv, Typed, Collecting
    <3>2. now + 1 <= Larger(due, ends[i]) + MaxLag
      BY <3>1, <1>3 DEF Elapse, Ready, IInv, Typed
    <3>3. due <= starts[i].at + Period
      BY <3>1 DEF IInv, DueSoon
    <3>4. starts[i].at \in Nat /\ ends[i] \in Nat /\ due \in Nat /\ now \in Nat
      BY <3>1, Entries DEF IInv, Typed
    <3> QED
      BY <2>2, <3>2, <3>3, <3>4 DEF Larger
  <2> QED
    BY <2>1, <2>2
<1> QED
  BY <1>2, <1>4, <1>5 DEF IInv

\* A period more or less, once for each collect.
LEMMA OneMore ==
    ASSUME NEW n \in Int
    PROVE  /\ (n + 1) * Period = n * Period + Period
           /\ n * Period \in Int /\ (n \in Nat => n * Period \in Nat)
BY LoopAssumption DEF LoopAssumption

\* A tick begins a collect at or after its deadline and sets the next deadline at
\* least a period after the old one, at most a period after now, and not more than
\* the slack short of a period from now.
LEMMA TickKeepsIInv == IInv /\ Tick => IInv'
<1> SUFFICES ASSUME IInv, Tick PROVE IInv'
  OBVIOUS
<1> USE LoopAssumption DEF LoopAssumption
<1> DEFINE n == Len(starts)
<1>1. /\ ~Collecting /\ now >= due /\ UNCHANGED <<now, ends>>
      /\ starts' = Append(starts, [due |-> due, at |-> now])
      /\ due' >= due + Period /\ due' <= now + Period /\ now + Period <= due' + Slack
      /\ due' \in Nat
      /\ now <= due + Slack => due' = due + Period
  BY DEF Tick, NextDue, IInv, Typed
<1>2. /\ n \in Nat /\ Len(ends) = n /\ Len(starts') = n + 1
      /\ \A i \in 1..n : starts'[i] = starts[i]
      /\ starts'[n + 1] = [due |-> due, at |-> now]
  BY <1>1 DEF IInv, Typed, Collecting
<1>3. /\ \A i \in 1..n : starts[i].at \in Nat /\ starts[i].due \in Nat
      /\ now \in Nat /\ due \in Nat
  BY Entries DEF IInv, Typed
<1> HIDE DEF n
<1>4. Typed'
  BY <1>1, <1>2 DEF IInv, Typed
<1>5. DueSpaced'
  <2> SUFFICES ASSUME NEW i \in 1..(n + 1)
               PROVE  starts'[i].at + ((n + 1) + 1 - i) * Period <= due' + Slack
    BY <1>2 DEF DueSpaced
  <2>1. CASE i = n + 1
    BY <1>1, <1>2, <2>1
  <2>2. CASE i \in 1..n
    <3>1. starts[i].at + (n + 1 - i) * Period <= due + Slack
      BY <2>2 DEF IInv, DueSpaced, n
    <3>2. ((n + 1) + 1 - i) * Period = (n + 1 - i) * Period + Period
          /\ (n + 1 - i) * Period \in Int
      <4>1. n + 1 - i \in Int /\ (n + 1) + 1 - i = (n + 1 - i) + 1
        BY <1>2, <2>2
      <4> HIDE DEF n
      <4> QED
        BY <4>1, OneMore
    <3> DEFINE x == (n + 1 - i) * Period
    <3>3. x \in Int /\ starts[i].at + x <= due + Slack
          /\ ((n + 1) + 1 - i) * Period = x + Period
      BY <3>1, <3>2
    <3> HIDE DEF x
    <3>4. starts[i].at + (x + Period) <= due' + Slack
      <4>1. starts[i].at \in Nat /\ due \in Nat /\ due' \in Nat /\ due' >= due + Period
        BY <1>1, <1>3, <2>2
      <4>2. Period \in Nat /\ Slack \in Nat
        OBVIOUS
      <4> QED
        BY ONLY <3>3, <4>1, <4>2
    <3> QED
      BY <1>2, <2>2, <3>3, <3>4
  <2> QED
    BY <1>2, <2>1, <2>2
<1>6. NoBurst'
  <2> SUFFICES ASSUME NEW i \in 1..(n + 1), NEW j \in 1..(n + 1), i < j
               PROVE  starts'[i].at + (j - i) * Period <= starts'[j].at + Slack
    BY <1>2 DEF NoBurst
  <2>1. CASE j = n + 1
    <3>1. starts[i].at + (n + 1 - i) * Period <= due + Slack
      BY <1>2, <2>1 DEF IInv, DueSpaced, n
    <3>2. (n + 1 - i) * Period \in Int
      BY <1>2, OneMore
    <3> QED
      BY <1>1, <1>2, <1>3, <2>1, <3>1, <3>2
  <2>2. CASE j \in 1..n
    BY <1>2, <2>2 DEF IInv, NoBurst, n
  <2> QED
    BY <1>2, <2>1, <2>2
<1>7. DueSoon'
  BY <1>1, <1>2 DEF DueSoon, Collecting
<1>8. NoExtraWait'
  <2> SUFFICES ASSUME NEW i \in 1..n
               PROVE  (IF i < n + 1 THEN starts'[i + 1].at ELSE now)
                          <= Larger(starts[i].at + Period, ends[i]) + MaxLag
    BY <1>1, <1>2 DEF NoExtraWait
  <2>1. starts'[i + 1].at = IF i < n THEN starts[i + 1].at ELSE now
    BY <1>2
  <2> QED
    BY <1>2, <2>1 DEF IInv, NoExtraWait, n
<1> DEFINE OnTimeNext(k) == \A i \in 1..k : starts'[i].at <= starts'[i].due + Slack
<1>9. OnTimeNext(n + 1) => OnTime(n) /\ now <= due + Slack
  BY <1>1, <1>2 DEF OnTime
<1>10. DueOnGrid'
  <2> SUFFICES ASSUME OnTimeNext(n + 1) PROVE due' <= starts'[1].at + (n + 1) * Period
    BY <1>2 DEF DueOnGrid, OnTime, n
  <2>1. CASE n = 0
    BY <1>1, <1>2, <2>1
  <2>2. CASE n # 0
    <3>1. due <= starts[1].at + n * Period
      BY <1>2, <1>9, <2>2 DEF IInv, DueOnGrid, n
    <3>2. (n + 1) * Period = n * Period + Period /\ n * Period \in Int
      BY <1>2, OneMore
    <3> QED
      BY <1>1, <1>2, <1>3, <1>9, <2>2, <3>1, <3>2
  <2> QED
    BY <2>1, <2>2
<1>11. NoDrift'
  <2> SUFFICES ASSUME NEW k \in 1..(n + 1), OnTimeNext(k)
               PROVE  starts'[k].at <= starts'[1].at + (k - 1) * Period + Slack
    BY <1>2 DEF NoDrift, OnTime
  <2>1. CASE k \in 1..n
    BY <1>2, <2>1 DEF IInv, NoDrift, OnTime, n
  <2>2. CASE k = n + 1 /\ n = 0
    <3>1. k = 1 /\ starts'[k].at = now
      BY <1>2, <2>2
    <3>2. (k - 1) * Period = 0
      <4>1. k - 1 = 0
        BY <3>1
      <4>2. 0 * Period = 0
        OBVIOUS
      <4> QED
        BY <4>1, <4>2
    <3> QED
      BY <1>3, <3>1, <3>2
  <2>3. CASE k = n + 1 /\ n # 0
    <3>1. due <= starts[1].at + n * Period /\ now <= due + Slack
      BY <1>2, <1>9, <2>3 DEF IInv, DueOnGrid, n
    <3>2. n * Period \in Int
      BY <1>2, OneMore
    <3> QED
      BY <1>1, <1>2, <1>3, <2>3, <3>1, <3>2
  <2> QED
    BY <1>2, <2>1, <2>2, <2>3
<1> QED
  BY <1>4, <1>5, <1>6, <1>7, <1>8, <1>10, <1>11 DEF IInv

\* The return of a collect moves neither starts nor the deadline.
LEMMA ReturnKeepsIInv == IInv /\ Return => IInv'
<1> SUFFICES ASSUME IInv, Return PROVE IInv'
  OBVIOUS
<1> USE LoopAssumption DEF LoopAssumption
<1>1. Collecting /\ ends' = Append(ends, now) /\ UNCHANGED <<now, due, starts>>
  BY DEF Return
<1>2. /\ Len(starts) = Len(ends) + 1 /\ Len(ends') = Len(starts) /\ ends'[Len(starts)] = now
      /\ \A i \in 1..Len(ends) : ends'[i] = ends[i]
      /\ Len(ends) \in Nat
  BY <1>1 DEF IInv, Typed, Collecting
<1>3. Typed' /\ DueSpaced' /\ DueOnGrid' /\ NoBurst' /\ NoDrift'
  BY <1>1, <1>2 DEF IInv, Typed, DueSpaced, DueOnGrid, OnTime, NoBurst, NoDrift
<1>4. DueSoon'
  <2>1. Ready' >= now
    BY <1>1, <1>2, <1>3 DEF Ready, Larger, Typed
  <2>2. Ready' \in Nat
    BY <1>3 DEF Ready, Larger, Typed
  <2> QED
    BY <1>1, <1>2, <2>1, <2>2 DEF IInv, Typed, DueSoon
<1>5. NoExtraWait'
  <2> SUFFICES ASSUME NEW i \in 1..Len(starts)
               PROVE  (IF i < Len(starts) THEN starts[i + 1].at ELSE now)
                          <= Larger(starts[i].at + Period, ends'[i]) + MaxLag
    BY <1>1, <1>2 DEF NoExtraWait
  <2>1. CASE i < Len(starts)
    BY <1>2, <2>1 DEF IInv, NoExtraWait
  <2>2. CASE i = Len(starts)
    BY <1>2, <2>2, Entries DEF IInv, Typed, Larger
  <2> QED
    BY <1>2, <2>1, <2>2
<1> QED
  BY <1>3, <1>4, <1>5 DEF IInv

\* The inductive invariant.
THEOREM Invariance == Spec => []IInv
<1>1. IInv /\ UNCHANGED vars => IInv'
  BY DEF IInv, Typed, DueSpaced, DueSoon, DueOnGrid, OnTime, NoBurst, NoExtraWait, NoDrift,
         Collecting, Ready, vars
<1>2. IInv /\ [Next]_vars => IInv'
  BY <1>1, ElapseKeepsIInv, TickKeepsIInv, ReturnKeepsIInv DEF Next
<1> QED
  BY <1>2, InitIInv, PTL DEF Spec

\* Missed ticks are never made up for in a burst (collector.rs:46).
THEOREM SpecNoBurst == Spec => []NoBurst
BY Invariance, PTL DEF IInv

\* Delaying them costs no freshness.
THEOREM SpecNoExtraWait == Spec => []NoExtraWait
BY Invariance, PTL DEF IInv

\* Small delays do not add up.
THEOREM SpecNoDrift == Spec => []NoDrift
BY Invariance, PTL DEF IInv

\* CollectLoop.TypeOK: what was recorded lies in the past, and collects alternate with
\* their returns.
THEOREM SpecTypeOK == Spec => []TypeOK
<1> USE LoopAssumption DEF LoopAssumption
<1>1. Init => TypeOK
  BY DEF Init, TypeOK
<1>2. TypeOK /\ [Next]_vars => TypeOK'
  <2> SUFFICES ASSUME TypeOK, [Next]_vars PROVE TypeOK'
    OBVIOUS
  <2>1. CASE Elapse
    <3>1. now' = now + 1 /\ now' \in 0..MaxTime /\ UNCHANGED <<due, starts, ends>>
      BY <2>1 DEF Elapse, TypeOK
    <3>2. 0..now \subseteq 0..now'
      BY <3>1 DEF TypeOK
    <3>3. [due : Nat, at : 0..now] \subseteq [due : Nat, at : 0..now']
      BY <3>2
    <3>4. /\ Seq(0..now) \subseteq Seq(0..now')
          /\ Seq([due : Nat, at : 0..now]) \subseteq Seq([due : Nat, at : 0..now'])
      BY <3>2, <3>3, SeqMonotonic
    <3> QED
      BY <3>1, <3>4 DEF TypeOK
  <2>2. CASE Tick
    <3>1. /\ starts' = Append(starts, [due |-> due, at |-> now]) /\ UNCHANGED <<now, ends>>
          /\ ~Collecting /\ due' = NextDue
      BY <2>2 DEF Tick
    <3>2. [due |-> due, at |-> now] \in [due : Nat, at : 0..now] /\ due' \in Nat
      BY <3>1 DEF TypeOK, NextDue
    <3>3. /\ starts' \in Seq([due : Nat, at : 0..now]) /\ Len(starts') = Len(starts) + 1
      BY <3>1, <3>2, AppendProperties DEF TypeOK
    <3>4. Len(starts) = Len(ends)
      BY <3>1 DEF TypeOK, Collecting
    <3> QED
      BY <3>1, <3>2, <3>3, <3>4 DEF TypeOK
  <2>3. CASE Return
    <3>1. Collecting /\ ends' = Append(ends, now) /\ UNCHANGED <<now, due, starts>>
      BY <2>3 DEF Return
    <3>2. ends' \in Seq(0..now) /\ Len(ends') = Len(ends) + 1
      BY <3>1, AppendProperties DEF TypeOK
    <3>3. Len(starts) = Len(ends) + 1
      BY <3>1 DEF TypeOK, Collecting
    <3> QED
      BY <3>1, <3>2, <3>3 DEF TypeOK
  <2>4. CASE UNCHANGED vars
    BY <2>4 DEF TypeOK, vars
  <2> QED
    BY <2>1, <2>2, <2>3, <2>4 DEF Next
<1> QED
  BY <1>1, <1>2, PTL DEF Spec
=============================================================================
