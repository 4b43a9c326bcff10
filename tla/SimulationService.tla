------------------------- MODULE SimulationService -------------------------
(***************************************************************************)
(* What EpanetSimulationManager promises its clients, with no pool, lock,  *)
(* flag table or event queue in sight: a job is accepted, its cancellation *)
(* may be requested, it ends at most once, and its end is reported at most *)
(* once and only while the service is open.                                *)
(* SimulationManager is shown to implement this module.                    *)
(***************************************************************************)

CONSTANT Jobs

VARIABLES
    phase,    (* phase[j]: how far job j has come                          *)
    reported, (* the jobs whose completion was signalled                   *)
    open      (* FALSE from the first step of the shutdown                 *)

vars == <<phase, reported, open>>

(* A job cancelled before its run starts is "doomed": its run ends without *)
(* computing anything.  One cancelled while it runs is "stopping": it may  *)
(* still finish, because cancellation is cooperative.                      *)
Waiting == {"accepted", "doomed"}
Ended   == {"finished", "cancelled", "dropped"}
Phases  == {"absent", "running", "stopping"} \union Waiting \union Ended

Init ==
    /\ phase = [j \in Jobs |-> "absent"]
    /\ reported = {}
    /\ open = TRUE

Accept(j) ==
    /\ open
    /\ phase[j] = "absent"
    /\ phase' = [phase EXCEPT ![j] = "accepted"]
    /\ UNCHANGED <<reported, open>>

AfterRequest(p) ==
    CASE p = "accepted" -> "doomed"
      [] p = "running"  -> "stopping"
      [] OTHER          -> p

(* cancel(id) asks one job to stop, cancelAll() and the shutdown all of them. *)
RequestCancel(S) ==
    /\ phase' = [j \in Jobs |-> IF j \in S THEN AfterRequest(phase[j]) ELSE phase[j]]
    /\ UNCHANGED <<reported, open>>

Run(j) ==
    /\ open
    /\ phase[j] = "accepted"
    /\ phase' = [phase EXCEPT ![j] = "running"]
    /\ UNCHANGED <<reported, open>>

Finish(j) ==
    /\ phase[j] \in {"running", "stopping"}
    /\ phase' = [phase EXCEPT ![j] = "finished"]
    /\ UNCHANGED <<reported, open>>

(* Nobody's run ends cancelled unless its own cancellation was requested,  *)
(* or the service is closing.                                              *)
EndCancelled(j) ==
    /\ \/ phase[j] \in {"doomed", "stopping"}
       \/ ~open /\ phase[j] \in {"accepted", "running"}
    /\ phase' = [phase EXCEPT ![j] = "cancelled"]
    /\ UNCHANGED <<reported, open>>

Report(j) ==
    /\ open
    /\ phase[j] \in {"finished", "cancelled"}
    /\ j \notin reported
    /\ reported' = reported \union {j}
    /\ UNCHANGED <<phase, open>>

Close ==
    /\ open
    /\ open' = FALSE
    /\ UNCHANGED <<phase, reported>>

(* Jobs that never ran are dropped by the shutdown, without a report.      *)
Drop(S) ==
    /\ ~open
    /\ \A j \in S : phase[j] \in Waiting
    /\ phase' = [j \in Jobs |-> IF j \in S THEN "dropped" ELSE phase[j]]
    /\ UNCHANGED <<reported, open>>

Next ==
    \/ \E j \in Jobs : Accept(j) \/ Run(j) \/ Finish(j) \/ EndCancelled(j) \/ Report(j)
    \/ \E S \in SUBSET Jobs : RequestCancel(S) \/ Drop(S)
    \/ Close

Spec == Init /\ [][Next]_vars

=============================================================================
