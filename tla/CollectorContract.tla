------------------------- MODULE CollectorContract -------------------------
(***************************************************************************)
(* What a PrometheusMetrics promises about its background collectors,      *)
(* without threads, locks, program counters or the tokio scheduler.        *)
(*                                                                         *)
(* A collector is "absent" until its loop exists, "running" until someone  *)
(* asks it to stop, "stopping" while the request is under way, "ended"     *)
(* afterwards.  Two collectors in conflict (they export a metric of the    *)
(* same name) never both get a loop, not even one after the other.  Once   *)
(* the object is closed nothing is left running.                           *)
(***************************************************************************)
CONSTANTS Collectors,   \* the values handed to add_collector
          Conflicts     \* pairs of collectors that share a metric name

VARIABLES st, closed

cvars == <<st, closed>>

ContractInit == /\ st = [c \in Collectors |-> "absent"]
                /\ closed = FALSE

Start(c) == /\ ~closed
            /\ st[c] = "absent"
            /\ \A d \in Collectors : st[d] # "absent" => <<c, d>> \notin Conflicts
            /\ st' = [st EXCEPT ![c] = "running"]
            /\ UNCHANGED closed

Stop(c) == /\ st[c] = "running"
           /\ st' = [st EXCEPT ![c] = "stopping"]
           /\ UNCHANGED closed

\* A loop ends when a requested stop takes effect, or of itself by a panic.
End(c) == /\ st[c] \in {"running", "stopping"}
          /\ st' = [st EXCEPT ![c] = "ended"]
          /\ UNCHANGED closed

Close == /\ ~closed
         /\ \A c \in Collectors : st[c] # "running"
         /\ closed' = TRUE
         /\ UNCHANGED st

ContractNext == \/ \E c \in Collectors : Start(c) \/ Stop(c) \/ End(c)
                \/ Close

ContractSpec == ContractInit /\ [][ContractNext]_cvars
=============================================================================
