---------------------------- MODULE MC_Exposition ----------------------------
(***************************************************************************)
(* The requests of MC_HttpLayer, scraped in two orders: the families one   *)
(* way round and the other, the gauge last or first.  V's series never     *)
(* exist.                                                                  *)
(***************************************************************************)
EXTENDS MC_HttpLayer, Exposition

MCSeries == <<<<T, s200>>, <<T, S500>>, <<U, s200>>, <<U, S500>>>>
MCFamily(f) == [i \in 1..Len(MCSeries) |-> <<f, MCSeries[i]>>]
MCGatherOrders == {MCFamily("total") \o MCFamily("duration") \o <<Gauge>>,
                   <<Gauge>> \o MCFamily("duration") \o MCFamily("total")}
=============================================================================
