----------------------------- MODULE HttpLayer -----------------------------
(***************************************************************************)
(* HttpMetricsService::call (dr-metrix-axum/src/layer.rs) over the shared  *)
(* cells of HttpMetrics (dr-metrix-axum/src/http_metrics.rs).              *)
(*                                                                         *)
(* Requests interleave at every step: each future is polled by its own     *)
(* connection task and the cells are atomics without a common lock.  The   *)
(* only await is that of the inner service; there, and before the first    *)
(* poll, hyper may drop the future (the client went away) or the inner     *)
(* handler may panic, which unwinds through it.                            *)
(***************************************************************************)
EXTENDS Naturals, FiniteSets

CONSTANTS
    Requests,
    Template,     \* Template[r]: MatchedPath of r, or Unmatched
    RawPath,      \* RawPath[r]: the path of its URI
    Paths,        \* all of these paths
    Statuses,
    S500,         \* the status label given to errors
    Outcomes,     \* what the inner service may return
    Unmatched, Pending

ASSUME HttpAssumption ==
    /\ IsFiniteSet(Requests)
    /\ Unmatched \notin Paths
    /\ Template \in [Requests -> Paths \cup {Unmatched}]
    /\ RawPath \in [Requests -> Paths]
    /\ S500 \in Statuses
    /\ Outcomes \subseteq [ok : BOOLEAN, status : Statuses, sized : BOOLEAN]
    /\ Pending \notin Outcomes

VARIABLES
    pc,        \* where the future of each request is
    result,    \* what the inner service returned
    inFlight,  \* gauge requests_in_flight
    total,     \* counter requests_total, by path and status
    dur,       \* sample count of request_duration_seconds, by path and status
    size       \* sample count of response_size_bytes, by path

vars == <<pc, result, inFlight, total, dur, size>>

\* "answered": the inner service has returned; then the gauge is "released",
\* the request "counted" and "timed", and the result "returned".
\* "lost": the future was dropped or unwound at its await.
Phases == {"idle", "inner", "answered", "released", "counted", "timed", "returned", "lost"}

Series == Paths \X Statuses

\* The method label is fixed by the request as the raw path is, and left out.
PathLabel(r) == IF Template[r] # Unmatched THEN Template[r] ELSE RawPath[r]

StatusLabel(r) == IF result[r].ok THEN result[r].status ELSE S500

Key(r) == <<PathLabel(r), StatusLabel(r)>>

TypeOK ==
    /\ pc \in [Requests -> Phases]
    /\ result \in [Requests -> Outcomes \cup {Pending}]
    /\ inFlight \in Nat
    /\ total \in [Series -> Nat]
    /\ dur \in [Series -> Nat]
    /\ size \in [Paths -> Nat]

Init ==
    /\ pc = [r \in Requests |-> "idle"]
    /\ result = [r \in Requests |-> Pending]
    /\ inFlight = 0
    /\ total = [k \in Series |-> 0]
    /\ dur = [k \in Series |-> 0]
    /\ size = [p \in Paths |-> 0]

Move(r, from, to) == pc[r] = from /\ pc' = [pc EXCEPT ![r] = to]

-----------------------------------------------------------------------------
\* The gauge is raised in call() itself, before the future is first polled.
Call(r) ==
    /\ Move(r, "idle", "inner")
    /\ inFlight' = inFlight + 1
    /\ UNCHANGED <<result, total, dur, size>>

Answer(r, o) ==
    /\ Move(r, "inner", "answered")
    /\ result' = [result EXCEPT ![r] = o]
    /\ UNCHANGED <<inFlight, total, dur, size>>

\* Cancelled by hyper, or unwound by a panic: nothing after the await runs.
Lose(r) ==
    /\ Move(r, "inner", "lost")
    /\ UNCHANGED <<result, inFlight, total, dur, size>>

\* Mutation: the gauge is lowered on the Ok branch only.
ReleaseOk(r) ==
    /\ Move(r, "answered", "released")
    /\ inFlight' = IF result[r].ok THEN inFlight - 1 ELSE inFlight
    /\ UNCHANGED <<result, total, dur, size>>

\* Mutation: an early return on the Err branch lowers the gauge once more.
ReleaseTwice(r) ==
    /\ Move(r, "answered", "released")
    /\ inFlight' = IF result[r].ok THEN inFlight - 1 ELSE inFlight - 2
    /\ UNCHANGED <<result, total, dur, size>>

Release(r) ==
    /\ Move(r, "answered", "released")
    /\ inFlight' = inFlight - 1
    /\ UNCHANGED <<result, total, dur, size>>

\* Mutation: an error is counted under a status of its own, not as 500.
CountLastStatus(r) ==
    /\ Move(r, "released", "counted")
    /\ total' = [total EXCEPT ![<<PathLabel(r), result[r].status>>] = @ + 1]
    /\ UNCHANGED <<result, inFlight, dur, size>>

Count(r) ==
    /\ Move(r, "released", "counted")
    /\ total' = [total EXCEPT ![Key(r)] = @ + 1]
    /\ UNCHANGED <<result, inFlight, dur, size>>

\* Mutation: the Err branch does not observe the duration.
TimeOk(r) ==
    /\ Move(r, "counted", "timed")
    /\ dur' = IF result[r].ok THEN [dur EXCEPT ![Key(r)] = @ + 1] ELSE dur
    /\ UNCHANGED <<result, inFlight, total, size>>

Time(r) ==
    /\ Move(r, "counted", "timed")
    /\ dur' = [dur EXCEPT ![Key(r)] = @ + 1]
    /\ UNCHANGED <<result, inFlight, total, size>>

\* Only an Ok response with a Content-Length that parses is sized.
\* Mutation: a response without the header is observed as 0 bytes.
ReturnUnsized(r) ==
    /\ Move(r, "timed", "returned")
    /\ size' = [size EXCEPT ![PathLabel(r)] = @ + 1]
    /\ UNCHANGED <<result, inFlight, total, dur>>

Return(r) ==
    /\ Move(r, "timed", "returned")
    /\ size' = IF result[r].ok /\ result[r].sized
                 THEN [size EXCEPT ![PathLabel(r)] = @ + 1] ELSE size
    /\ UNCHANGED <<result, inFlight, total, dur>>

\* From the inner service's answer to its own return the future does not yield.
Record(r) == Release(r) \/ Count(r) \/ Time(r) \/ Return(r)

Inner(r) == Lose(r) \/ \E o \in Outcomes : Answer(r, o)

Next == \E r \in Requests : Call(r) \/ Inner(r) \/ Record(r)

Spec == Init /\ [][Next]_vars

-----------------------------------------------------------------------------
(* Safety *)

At(phases) == {r \in Requests : pc[r] \in phases}

\* The gauge counts the requests between call() and dec(), plus every request
\* whose future was dropped at the await and never reached dec() (layer.rs:82-91).
InFlightAccountsForAll ==
    inFlight = Cardinality(At({"inner", "answered"})) + Cardinality(At({"lost"}))

\* However requests interleave, each series of requests_total counts exactly the
\* requests of its path template (its raw path if none matched) that ended with
\* its status, errors as 500; lost requests appear in no series (layer.rs:93-128).
ExpectedIn(p, s) ==
    {r \in At({"counted", "timed", "returned"}) :
        /\ p = Template[r] \/ (Template[r] = Unmatched /\ p = RawPath[r])
        /\ s = IF result[r].ok THEN result[r].status ELSE S500}

TotalsAreExact ==
    \A p \in Paths, s \in Statuses : total[<<p, s>>] = Cardinality(ExpectedIn(p, s))

\* At any moment the cells of a series hold no more durations than requests, and
\* fewer by exactly the requests that stand between the two updates
\* (layer.rs:96-103).  What a scrape makes of them is for Exposition to say.
DurationsTrackTotals ==
    \A k \in Series :
        total[k] = dur[k] + Cardinality({r \in At({"counted"}) : Key(r) = k})

\* A path has one size sample for each request that was answered with a usable
\* Content-Length: errors and streamed responses leave none (layer.rs:105-117).
SizesAreOfSized ==
    \A p \in Paths :
        size[p] = Cardinality({r \in At({"returned"}) :
                                  PathLabel(r) = p /\ result[r].ok /\ result[r].sized})

-----------------------------------------------------------------------------
(* What the comments claim and the code does not do *)

\* http_metrics.rs:13 "Gauge: currently in-flight requests".
InFlightIsCurrent == inFlight = Cardinality(At({"inner", "answered"}))
=============================================================================
