---------------------------- MODULE MC_HttpLayer ----------------------------
(***************************************************************************)
(* Requests a and b match the template T, c matches nothing: its series is *)
(* named by its own raw path, which is also the raw path of a.             *)
(***************************************************************************)
EXTENDS HttpLayer

CONSTANTS a, b, c, T, U, V, s200

MCPaths == {T, U, V}
MCTemplate == [r \in Requests |-> IF r = c THEN Unmatched ELSE T]
MCRawPath == [r \in Requests |-> IF r = b THEN V ELSE U]
MCOutcomes == {[ok |-> TRUE,  status |-> s200, sized |-> TRUE],
               [ok |-> TRUE,  status |-> S500, sized |-> FALSE],
               [ok |-> FALSE, status |-> s200, sized |-> TRUE]}
=============================================================================
