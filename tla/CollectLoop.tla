---------------------------- MODULE CollectLoop ----------------------------
(***************************************************************************)
(* When the loop of spawn_collect_loop (dr-metrix-core/src/collector.rs)   *)
(* collects: tokio's interval with MissedTickBehavior::Delay, a collect()  *)
(* that may take any time, and workers that may be late.  Time is counted  *)
(* from the first poll of the loop.                                        *)
(***************************************************************************)
EXTENDS Naturals, Sequences

CONSTANTS
    Period,    \* collect_interval; zero panics, see CollectorLifecycle
    Slack,     \* lateness tokio does not count as a missed tick (5 ms)
    MaxLag,    \* how late the workers poll a loop that is ready
    MaxTime    \* bound on the clock

ASSUME LoopAssumption ==
    Period \in Nat \ {0} /\ Slack \in Nat /\ MaxLag \in Nat /\ MaxTime \in Nat

VARIABLES
    now,
    due,      \* deadline of the interval
    starts,   \* history: when each collect() was due and when it began
    ends      \* history: when each collect() returned

vars == <<now, due, starts, ends>>

Collecting == Len(starts) > Len(ends)

TypeOK ==
    /\ now \in 0..MaxTime /\ due \in Nat
    /\ starts \in Seq([due : Nat, at : 0..now])
    /\ ends \in Seq(0..now)
    /\ Len(starts) \in {Len(ends), Len(ends) + 1}

Init == now = 0 /\ due = 0 /\ starts = <<>> /\ ends = <<>>

Larger(a, b) == IF a > b THEN a ELSE b

\* Since when the loop could run: the deadline has passed and collect() has returned.
Ready == IF ends = <<>> THEN due ELSE Larger(due, ends[Len(ends)])

\* The workers take up to MaxLag to poll a loop whose tick is due.
Elapse ==
    /\ now < MaxTime
    /\ Collecting \/ now < Ready + MaxLag
    /\ now' = now + 1
    /\ UNCHANGED <<due, starts, ends>>

\* Mutation: the default MissedTickBehavior, Burst.
NextDueBurst == due + Period

\* Mutation: the deadline is always taken from the clock, as with sleep().
NextDueFromNow == now + Period

\* Interval::poll_tick with MissedTickBehavior::Delay.
NextDue == IF now > due + Slack THEN now + Period ELSE due + Period

Tick ==
    /\ ~Collecting /\ now >= due
    /\ starts' = Append(starts, [due |-> due, at |-> now])
    /\ due' = NextDue
    /\ UNCHANGED <<now, ends>>

\* Mutation: the interval is restarted when collect() returns.
ReturnAndReset ==
    /\ Collecting
    /\ ends' = Append(ends, now)
    /\ due' = now + Period
    /\ UNCHANGED <<now, starts>>

\* Mutation: collects are not awaited.
ReturnTwice ==
    /\ starts # <<>>
    /\ ends' = Append(ends, now)
    /\ Len(ends) <= Len(starts)
    /\ UNCHANGED <<now, due, starts>>

\* collect() returns, Ok or Err alike.
Return ==
    /\ Collecting
    /\ ends' = Append(ends, now)
    /\ UNCHANGED <<now, due, starts>>

Next == Elapse \/ Tick \/ Return

Spec == Init /\ [][Next]_vars

-----------------------------------------------------------------------------
(* Safety *)

\* However long collects take and however late the workers are, missed ticks are
\* never made up for: k+1 collects in a row span at least k periods, less the slack.
\* A backend that has just recovered is not polled in a burst (collector.rs:46).
NoBurst ==
    \A i, j \in 1..Len(starts) :
        i < j => starts[i].at + (j - i) * Period <= starts[j].at + Slack

\* Delaying missed ticks costs no freshness: the next collect begins a period after
\* the last one began or when that one returned, whichever is later, and a lag.
NoExtraWait ==
    \A i \in 1..Len(ends) :
        (IF i < Len(starts) THEN starts[i + 1].at ELSE now)
            <= Larger(starts[i].at + Period, ends[i]) + MaxLag

\* Small delays do not add up: collects that all begin within the slack of their
\* deadline keep to the grid of the first one for ever.
NoDrift ==
    \A k \in 1..Len(starts) :
        (\A i \in 1..k : starts[i].at <= starts[i].due + Slack)
            => starts[k].at <= starts[1].at + (k - 1) * Period + Slack
=============================================================================
