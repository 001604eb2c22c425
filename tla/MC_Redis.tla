------------------------------ MODULE MC_Redis ------------------------------
(* Instances of RedisCollect: two scalar keys and two databases. *)
EXTENDS RedisCollect

CONSTANTS d1, d2, hits, evicted

MCScalars == <<hits, evicted>>
=============================================================================
