------------------------------ MODULE MC_Mongo ------------------------------
(* Instances of MongoCollect: two counters of opcounters and one field of mem. *)
EXTENDS MongoCollect

CONSTANTS insert, query, resident

MCFields == <<insert, query, resident>>
MCSectionOf == [f \in FieldSet |-> IF f = resident THEN "mem" ELSE "opcounters"]
MCValues == {[type |-> "Int64", num |-> 1], [type |-> "Int64", num |-> 2],
             [type |-> "Int32", num |-> 1]}
=============================================================================
