---------------------------- MODULE MC_Postgres ----------------------------
(* Instances of PostgresCollect: two databases, one table, one lock mode. *)
EXTENDS PostgresCollect

CONSTANTS d1, d2, t1, l1

MCRows == <<{d1, d2}, {t1}, {l1}>>
MCWidth == <<2, 2, 1>>
=============================================================================
