--------------------------- MODULE QualitySolver ---------------------------
(***************************************************************************)
(* EpanetQualitySolver::run: one water-quality analysis stepped over the   *)
(* saved hydraulics.  As in HydraulicSolver the toolkit may answer         *)
(* anything and the cancellation is noticed only where the solver polls;   *)
(* here the end comes with "no time left", and a lost sample is an error   *)
(* that does not stop the analysis.                                        *)
(***************************************************************************)
EXTENDS Integers, Sequences, EpanetResult

CONSTANT MaxTime  (* bounds the times and the time left the toolkit reports *)

ASSUME BoundAssumption == MaxTime \in Nat

VARIABLES
    pc,
    requested,     (* what the cancellation callback answers               *)
    cancelled,
    steady,        (* network.duration_s == 0                              *)
    session,       (* the toolkit's quality session                        *)
    code,          (* what the last EN_runQ returned                       *)
    previous_time,
    current_time,
    times,         (* of timeline.results                                  *)
    failed,        (* ~first_failure.success                               *)
    diags,         (* the timeline's and the project's diagnostics         *)
    missed,        (* history: a sample is missing                         *)
    ended          (* history: the toolkit said no time is left            *)

vars == <<pc, requested, cancelled, steady, session, code, previous_time, current_time,
          times, failed, diags, missed, ended>>

Unset == -1

(* Where the solver polls: where it goes on, and where when cancelled.     *)
PollPoints ==
    [entry   |-> [next |-> "open",  exit |-> "returned"],
     top     |-> [next |-> "run",   exit |-> "close"],
     ran     |-> [next |-> "judge", exit |-> "close"],
     sampled |-> [next |-> "step",  exit |-> "close"]]

Places == DOMAIN PollPoints \union {"open", "init", "run", "judge", "step", "close", "returned"}

Init ==
    /\ pc = "entry"
    /\ requested = FALSE /\ cancelled = FALSE
    /\ steady \in BOOLEAN
    /\ session = "closed"
    /\ code = "ok"
    /\ previous_time = Unset
    /\ current_time = 0
    /\ times = <<>>
    /\ failed = FALSE
    /\ diags = {}
    /\ missed = FALSE /\ ended = FALSE

Diag(severity, stage) == [severity |-> severity, stage |-> stage]

Collect(severity, stage) ==
    /\ diags' = diags \union {Diag(severity, stage)}
    /\ failed' = (failed \/ severity # "Warning")

Quiet == UNCHANGED <<diags, failed>>

RequestCancel ==
    /\ ~requested
    /\ pc # "returned"
    /\ requested' = TRUE
    /\ UNCHANGED <<pc, cancelled, steady, session, code, previous_time, current_time,
                   times, failed, diags, missed, ended>>

(* Mutant of Poll: noticing the request counts as a failure.               *)
PollFails ==
    /\ pc \in DOMAIN PollPoints
    /\ failed' = (failed \/ requested)
    /\ pc' = IF requested THEN PollPoints[pc].exit ELSE PollPoints[pc].next
    /\ UNCHANGED <<requested, cancelled, steady, session, code, previous_time,
                   current_time, times, diags, missed, ended>>

Poll ==
    /\ pc \in DOMAIN PollPoints
    /\ cancelled' = requested
    /\ pc' = IF requested THEN PollPoints[pc].exit ELSE PollPoints[pc].next
    /\ UNCHANGED <<requested, steady, session, code, previous_time, current_time,
                   times, failed, diags, missed, ended>>

OpenQ ==
    /\ pc = "open"
    /\ \/ pc' = "init" /\ session' = "open" /\ (Quiet \/ Collect("Warning", "RunQuality"))
       \/ pc' = "returned" /\ Collect("Fatal", "RunQuality") /\ UNCHANGED session
    /\ UNCHANGED <<requested, cancelled, steady, code, previous_time, current_time,
                   times, missed, ended>>

(* A failed EN_initQ still closes what EN_openQ opened.                    *)
InitQ ==
    /\ pc = "init"
    /\ \/ /\ pc' = "top" /\ session' = "initialised"
          /\ Quiet \/ Collect("Warning", "RunQuality")
       \/ pc' = "close" /\ Collect("Fatal", "RunQuality") /\ UNCHANGED session
    /\ UNCHANGED <<requested, cancelled, steady, code, previous_time, current_time,
                   times, missed, ended>>

RunQ ==
    /\ pc = "run"
    /\ code' \in {"ok", "warning", "error"}
    /\ current_time' \in Unset .. MaxTime
    /\ pc' = "ran"
    /\ UNCHANGED <<requested, cancelled, steady, session, previous_time, times, failed,
                   diags, missed, ended>>

-----------------------------------------------------------------------------
NotAdvanced == previous_time >= 0 /\ current_time <= previous_time

(* Mutant of TimeIsBad: a repeated time is accepted.                       *)
TimeIsNegative == current_time < 0

TimeIsBad == current_time < 0 \/ NotAdvanced

CodeDiags == IF code = "warning" THEN {Diag("Warning", "RunQuality")} ELSE {}

Break ==
    /\ pc = "judge"
    /\ code = "error" \/ TimeIsBad
    /\ pc' = "close"
    /\ diags' = diags \union CodeDiags \union {Diag("Fatal", "RunQuality")}
    /\ failed' = TRUE
    /\ missed' = TRUE
    /\ UNCHANGED <<requested, cancelled, steady, session, code, previous_time,
                   current_time, times, ended>>

Sample ==
    /\ pc = "judge"
    /\ code # "error" /\ ~TimeIsBad
    /\ pc' = "sampled"
    /\ previous_time' = current_time
    /\ \/ /\ times' = Append(times, current_time)
          /\ diags' = diags \union CodeDiags
          /\ UNCHANGED <<failed, missed>>
       \/ /\ diags' = diags \union CodeDiags \union {Diag("Error", "RunQuality")}
          /\ failed' = TRUE
          /\ missed' = TRUE
          /\ UNCHANGED times
    /\ UNCHANGED <<requested, cancelled, steady, session, code, current_time, ended>>

(* A steady-state analysis is finished by EN_nextQ and never stepped.      *)
FinishSteady ==
    /\ pc = "step"
    /\ steady
    /\ pc' = "close"
    /\ \/ ended' = TRUE /\ (Quiet \/ Collect("Warning", "RunQuality"))
       \/ Collect("Fatal", "RunQuality") /\ UNCHANGED ended
    /\ UNCHANGED <<requested, cancelled, steady, session, code, previous_time,
                   current_time, times, missed>>

(* EN_stepQ says how much time is left: none, some, or a negative amount.  *)
StepQ ==
    /\ pc = "step"
    /\ ~steady
    /\ \/ pc' = "top" /\ UNCHANGED ended /\ (Quiet \/ Collect("Warning", "RunQuality"))
       \/ pc' = "close" /\ ended' = TRUE /\ (Quiet \/ Collect("Warning", "RunQuality"))
       \/ pc' = "close" /\ UNCHANGED ended /\ Collect("Fatal", "RunQuality")
       \/ /\ pc' = "close" /\ UNCHANGED ended
          /\ diags' = diags \union {Diag("Warning", "RunQuality"), Diag("Fatal", "RunQuality")}
          /\ failed' = TRUE
    /\ UNCHANGED <<requested, cancelled, steady, session, code, previous_time,
                   current_time, times, missed>>

CloseQ ==
    /\ pc = "close"
    /\ pc' = "returned"
    /\ session' = "closed"
    /\ Quiet \/ Collect("Warning", "CloseQuality") \/ Collect("Error", "CloseQuality")
    /\ UNCHANGED <<requested, cancelled, steady, code, previous_time, current_time,
                   times, missed, ended>>

Solve ==
    \/ Poll \/ OpenQ \/ InitQ \/ RunQ \/ Break \/ Sample \/ FinishSteady \/ StepQ \/ CloseQ

Next == RequestCancel \/ Solve

Spec == Init /\ [][Next]_vars

(* The solver's thread runs; nobody has to cancel.                         *)
FairSpec == Spec /\ WF_vars(Solve)

-----------------------------------------------------------------------------
(* Properties. *)

(* The values the solver's state can take.                                 *)
TypeOK ==
    /\ pc \in Places
    /\ requested \in BOOLEAN /\ cancelled \in BOOLEAN /\ steady \in BOOLEAN
    /\ session \in {"closed", "open", "initialised"}
    /\ code \in {"ok", "warning", "error"}
    /\ previous_time \in Unset .. MaxTime
    /\ current_time \in Unset .. MaxTime
    /\ times \in Seq(0 .. MaxTime)
    /\ failed \in BOOLEAN
    /\ diags \subseteq [severity : Severities, stage : {"RunQuality", "CloseQuality"}]
    /\ missed \in BOOLEAN /\ ended \in BOOLEAN

(* The toolkit is stepped only in an initialised quality session, and no   *)
(* session is left open for the next quality child, however this one ends. *)
SessionBalanced ==
    /\ pc \in {"top", "run", "ran", "judge", "sampled", "step"} => session = "initialised"
    /\ pc = "returned" => session = "closed"

(* The samples' times strictly increase, and a steady-state analysis has   *)
(* at most one.                                                            *)
TimesIncrease ==
    /\ \A i, k \in DOMAIN times : i < k => times[i] < times[k]
    /\ steady => Len(times) <= 1

Outcome ==
    [cancelled |-> cancelled, success |-> cancelled \/ ~failed,
     nonempty |-> times # <<>>, complete |-> ended /\ ~missed,
     unconfigured |-> FALSE, diags |-> diags]

(* The contract EpanetRun relies on, as for the hydraulic solver.          *)
ReturnsWithinContract == pc = "returned" => SolverContract(Outcome, requested)

(* The analysis returns, whatever the toolkit answers.                     *)
Terminates == <>(pc = "returned")

=============================================================================
