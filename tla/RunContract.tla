---------------------------- MODULE RunContract ----------------------------
(***************************************************************************)
(* What one simulation request promises about its parts: one hydraulic     *)
(* simulation, then the water-quality children one after the other, then   *)
(* the multi-species run.  Nothing that follows runs on hydraulics that    *)
(* are not complete, nothing starts once the run is cancelled, a part that *)
(* is settled stays as it is, and in the end every part is settled.        *)
(* EpanetRun is shown to implement this module.                            *)
(***************************************************************************)
EXTENDS Naturals, Sequences

VARIABLES
    solved,    (* the hydraulic results are complete                       *)
    children,  (* the states of the quality children, in order             *)
    msx,       (* "Absent", or the state of the multi-species run          *)
    cancelled,
    over

vars == <<solved, children, msx, cancelled, over>>

Ended   == {"Success", "Warning", "Error"}
Settled == Ended \union {"Cancelled", "Skipped"}

(* Every child before the k-th is settled.                                 *)
SettledBefore(k) == \A i \in 1 .. k - 1 : children[i] \in Settled

AllSettled == SettledBefore(Len(children) + 1)

Init ==
    /\ solved = FALSE
    /\ children \in Seq({"Pending"})
    /\ msx = "Absent"
    /\ cancelled = FALSE
    /\ over = FALSE

PlanMultiSpecies ==
    /\ ~solved /\ ~cancelled
    /\ msx = "Absent"
    /\ msx' = "Pending"
    /\ UNCHANGED <<solved, children, cancelled>>

Solve ==
    /\ ~solved /\ ~cancelled
    /\ \A i \in DOMAIN children : children[i] = "Pending"
    /\ solved' = TRUE
    /\ UNCHANGED <<children, msx, cancelled>>

StartChild(i) ==
    /\ solved /\ ~cancelled
    /\ SettledBefore(i) /\ children[i] = "Pending"
    /\ \E state \in {"Running", "Skipped"} : children' = [children EXCEPT ![i] = state]
    /\ UNCHANGED <<solved, msx, cancelled>>

EndChild(i) ==
    /\ children[i] = "Running"
    /\ \E state \in Ended : children' = [children EXCEPT ![i] = state]
    /\ UNCHANGED <<solved, msx, cancelled>>

(* Without hydraulics that can be used, complete or not, nothing starts.   *)
Fail ==
    /\ ~solved /\ ~cancelled
    /\ solved' \in BOOLEAN
    /\ children' = [i \in DOMAIN children |-> "Skipped"]
    /\ msx' \in {msx} \union (IF msx = "Pending" THEN {"Skipped"} ELSE {})
    /\ UNCHANGED cancelled

StartMultiSpecies ==
    /\ solved /\ ~cancelled
    /\ AllSettled
    /\ msx = "Pending"
    /\ msx' = "Running"
    /\ UNCHANGED <<solved, children, cancelled>>

EndMultiSpecies ==
    /\ msx = "Running"
    /\ \E state \in {"Success", "Error"} : msx' = state
    /\ UNCHANGED <<solved, children, cancelled>>

(* What was running or had not started is cancelled, and nothing else; the *)
(* multi-species run may be settled only later.                            *)
Cancel ==
    /\ ~cancelled
    /\ cancelled' = TRUE
    /\ children' = [i \in DOMAIN children |->
         IF children[i] \in Settled THEN children[i] ELSE "Cancelled"]
    /\ \/ msx' = IF msx \in {"Pending", "Running"} THEN "Cancelled" ELSE msx
       \/ msx = "Pending" /\ UNCHANGED msx
    /\ UNCHANGED <<solved>>

SettleMultiSpecies ==
    /\ AllSettled
    /\ msx = "Pending"
    /\ msx' = IF cancelled THEN "Cancelled" ELSE "Skipped"
    /\ UNCHANGED <<solved, children, cancelled>>

(* The last part's last step ends the run, or one more step after it.      *)
MayEnd ==
    /\ over' \in BOOLEAN
    /\ over' => AllSettled' /\ msx' \in Settled \union {"Absent"}

Next ==
    /\ ~over
    /\ MayEnd
    /\ \/ PlanMultiSpecies \/ Solve \/ Fail \/ Cancel
       \/ \E i \in DOMAIN children : StartChild(i) \/ EndChild(i)
       \/ StartMultiSpecies \/ EndMultiSpecies \/ SettleMultiSpecies
       \/ UNCHANGED <<solved, children, msx, cancelled>>

Spec == Init /\ [][Next]_vars

=============================================================================
