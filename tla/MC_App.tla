------------------------------- MODULE MC_App -------------------------------
(***************************************************************************)
(* The example with PostgreSQL, whose queries run on a blocking thread,    *)
(* and Redis; neither need ever answer.  One request observes the first    *)
(* without waiting for it, the other waits for the second.                 *)
(***************************************************************************)
EXTENDS ExampleApp

CONSTANTS pg, redis, m1, m2, b1, users, counter

MCMetrics == {m1, m2, b1}
MCMetricsOf == [c \in Collectors |-> IF c = pg THEN <<m1>> ELSE <<m2>>]
MCAwaits == [c \in Collectors |-> 1]
MCOrder == <<pg, redis>>
MCUses == [r \in Requests |-> IF r = users THEN pg ELSE redis]
=============================================================================
