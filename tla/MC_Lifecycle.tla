--------------------------- MODULE MC_Lifecycle ---------------------------
(***************************************************************************)
(* Instances of CollectorLifecycle.  p and q are clones (PostgresMetrics   *)
(* is Clone and its clones share cells), r and u export other metrics, x   *)
(* is a collector of the application that reuses a built-in name last.     *)
(***************************************************************************)
EXTENDS CollectorLifecycle

CONSTANTS p, q, r, u, x, m1, m2, m3, m4, m5, b1

MCMetrics == {m1, m2, m3, m4, m5, b1}
MCMetricsOf == [c \in Collectors |->
                    CASE c = r -> <<m3>>
                      [] c = u -> <<m5>>
                      [] c = x -> <<m4, b1>>
                      [] OTHER -> <<m1, m2>>]
MCAwaits == [c \in Collectors |-> 1]
=============================================================================
