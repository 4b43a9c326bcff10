-------------------------- MODULE HydraulicSolver --------------------------
(***************************************************************************)
(* EpanetHydraulicSolver::run: one hydraulic simulation stepped through    *)
(* the EPANET toolkit.  The toolkit is external and may answer any call    *)
(* with success, a warning or an error, and report any time and any step.  *)
(* The caller may raise the cancellation request at any moment; the solver *)
(* notices it only where it polls.                                         *)
(*                                                                         *)
(* One action per poll and per toolkit call with the code up to the next   *)
(* one.                                                                    *)
(***************************************************************************)
EXTENDS Integers, Sequences, EpanetResult

CONSTANTS
    MaxTime,  (* bounds the times EN_runH reports                          *)
    MaxStep   (* bounds the steps EN_nextH reports                         *)

ASSUME BoundsAssumption == MaxTime \in Nat /\ MaxStep \in Nat \ {0}

VARIABLES
    pc,
    requested,     (* what the cancellation callback answers               *)
    cancelled,
    steady,        (* network.duration_s == 0                              *)
    session,       (* the toolkit's hydraulic session                      *)
    code,          (* what the last EN_runH returned                       *)
    previous_time,
    current_time,
    next_step,
    available,     (* result_available                                     *)
    results,       (* timeline.results: the time, and event_next           *)
    covered,       (* seconds the flow balance and pump energy cover       *)
    stored,        (* covered when it was stored in the last result        *)
    failed,        (* ~first_failure.success                               *)
    diags,         (* project diagnostics of this run                      *)
    missed,        (* history: a simulated step has no result              *)
    ended          (* history: EN_nextH said there is no next step         *)

vars == <<pc, requested, cancelled, steady, session, code, previous_time, current_time,
          next_step, available, results, covered, stored, failed, diags, missed, ended>>

(* What changes only in a step of the simulation loop.                     *)
loopVars == <<previous_time, available, results, covered, missed>>

Unset == -1

-----------------------------------------------------------------------------
(* Where the solver polls: where it goes on, and where when cancelled.     *)
PollPoints ==
    [entry    |-> [next |-> "report", exit |-> "returned"],
     ready    |-> [next |-> "open",   exit |-> "returned"],
     begun    |-> [next |-> "top",    exit |-> "close"],
     top      |-> [next |-> "run",    exit |-> "close"],
     ran      |-> [next |-> "judge",  exit |-> "close"],
     sampled  |-> [next |-> "next",   exit |-> "close"],
     advanced |-> [next |-> "again",  exit |-> "close"]]

Places == DOMAIN PollPoints \union
    {"report", "open", "init", "run", "judge", "next", "again", "close", "returned"}

Init ==
    /\ pc = "entry"
    /\ requested = FALSE
    /\ cancelled = FALSE
    /\ steady \in BOOLEAN
    /\ session = "closed"
    /\ code = "ok"
    /\ previous_time = Unset
    /\ current_time = 0
    /\ next_step = 0
    /\ available = FALSE
    /\ results = <<>>
    /\ covered = 0
    /\ stored = Unset
    /\ failed = FALSE
    /\ diags = {}
    /\ missed = FALSE
    /\ ended = FALSE

Diag(severity, stage) == [severity |-> severity, stage |-> stage]

(* processEpanetReturnCode turns a warning into a diagnostic and success.  *)
Collect(severity, stage) ==
    /\ diags' = diags \union {Diag(severity, stage)}
    /\ failed' = (failed \/ severity # "Warning")

Quiet == UNCHANGED <<diags, failed>>

RequestCancel ==
    /\ ~requested
    /\ pc # "returned"
    /\ requested' = TRUE
    /\ UNCHANGED <<pc, cancelled, steady, session, code, current_time, next_step,
                   stored, ended, failed, diags, loopVars>>

Poll ==
    /\ pc \in DOMAIN PollPoints
    /\ cancelled' = requested
    /\ pc' = IF requested THEN PollPoints[pc].exit ELSE PollPoints[pc].next
    /\ UNCHANGED <<requested, steady, session, code, current_time, next_step, stored,
                   ended, failed, diags, loopVars>>

(* configureEpanetReport: its failure is returned without a diagnostic.    *)
ConfigureReport ==
    /\ pc = "report"
    /\ \/ pc' = "ready" /\ Quiet
       \/ pc' = "ready" /\ Collect("Warning", "RunHydraulics")
       \/ pc' = "returned" /\ failed' = TRUE /\ UNCHANGED diags
    /\ UNCHANGED <<requested, cancelled, steady, session, code, current_time, next_step,
                   stored, ended, loopVars>>

OpenH ==
    /\ pc = "open"
    /\ \/ pc' = "init" /\ session' = "open" /\ Quiet
       \/ pc' = "init" /\ session' = "open" /\ Collect("Warning", "RunHydraulics")
       \/ pc' = "returned" /\ Collect("Fatal", "RunHydraulics") /\ UNCHANGED session
    /\ UNCHANGED <<requested, cancelled, steady, code, current_time, next_step, stored,
                   ended, loopVars>>

(* Mutant of InitH: the failure is returned with the session left open.    *)
InitHReturns ==
    /\ pc = "init"
    /\ \/ pc' = "begun" /\ session' = "initialised" /\ Quiet
       \/ pc' = "returned" /\ Collect("Fatal", "RunHydraulics") /\ UNCHANGED session
    /\ UNCHANGED <<requested, cancelled, steady, code, current_time, next_step, stored,
                   ended, loopVars>>

InitH ==
    /\ pc = "init"
    /\ \/ pc' = "begun" /\ session' = "initialised" /\ Quiet
       \/ pc' = "begun" /\ session' = "initialised" /\ Collect("Warning", "RunHydraulics")
       \/ pc' = "close" /\ Collect("Fatal", "RunHydraulics") /\ UNCHANGED session
    /\ UNCHANGED <<requested, cancelled, steady, code, current_time, next_step, stored,
                   ended, loopVars>>

(* EN_runH: its answer is looked at only after the next poll.              *)
RunH ==
    /\ pc = "run"
    /\ code' \in {"ok", "warning", "illConditioned", "fatal"}
    /\ current_time' \in Unset .. MaxTime
    /\ pc' = "ran"
    /\ UNCHANGED <<requested, cancelled, steady, session, next_step, stored, ended,
                   failed, diags, loopVars>>

-----------------------------------------------------------------------------
(* The answer of EN_runH.  Error 110 (an ill-conditioned matrix) costs the *)
(* result of this step, any other error ends the simulation.               *)
canAdvance == code # "fatal"

NotAdvanced == previous_time >= 0 /\ current_time <= previous_time

(* Mutant of TimeIsBad: a repeated time is accepted.                       *)
TimeIsNegative == current_time < 0

TimeIsBad == current_time < 0 \/ NotAdvanced

(* The diagnostics of a return code, before the times are looked at.       *)
CodeDiags ==
    CASE code = "ok"             -> {}
      [] code = "warning"        -> {Diag("Warning", "RunHydraulics")}
      [] code = "illConditioned" -> {Diag("Error", "RunHydraulics")}
      [] code = "fatal"          -> {Diag("Fatal", "RunHydraulics")}

Break ==
    /\ pc = "judge"
    /\ ~canAdvance \/ TimeIsBad
    /\ pc' = "close"
    /\ diags' = diags \union CodeDiags
                \union (IF canAdvance THEN {Diag("Fatal", "RunHydraulics")} ELSE {})
    /\ failed' = TRUE
    /\ available' = (code \in {"ok", "warning"})
    /\ missed' = TRUE
    /\ UNCHANGED <<requested, cancelled, steady, session, code, previous_time,
                   current_time, next_step, results, covered, stored, ended>>

(* The reading of the step's result: every value of it, or none.           *)
ReadResult ==
    /\ pc = "judge"
    /\ canAdvance /\ ~TimeIsBad
    /\ code \in {"ok", "warning"}
    /\ pc' = "sampled"
    /\ previous_time' = current_time
    /\ diags' = diags \union CodeDiags
    /\ available' = TRUE
    /\ results' = Append(results, [time |-> current_time, event_next |-> Unset])
    /\ UNCHANGED <<requested, cancelled, steady, session, code, current_time, next_step,
                   covered, stored, failed, missed, ended>>

(* Mutant of NoResult: the lost step is diagnosed but is not a failure.    *)
NoResultIgnored ==
    /\ pc = "judge"
    /\ canAdvance /\ ~TimeIsBad
    /\ pc' = "sampled"
    /\ previous_time' = current_time
    /\ diags' = diags \union CodeDiags \union {Diag("Error", "RunHydraulics")}
    /\ available' = FALSE
    /\ missed' = TRUE
    /\ UNCHANGED <<requested, cancelled, steady, session, code, current_time, next_step,
                   results, covered, stored, failed, ended>>

(* Error 110, or the reader failed: diagnosed, and the simulation goes on. *)
NoResult ==
    /\ pc = "judge"
    /\ canAdvance /\ ~TimeIsBad
    /\ pc' = "sampled"
    /\ previous_time' = current_time
    /\ diags' = diags \union CodeDiags \union {Diag("Error", "RunHydraulics")}
    /\ failed' = TRUE
    /\ available' = FALSE
    /\ missed' = TRUE
    /\ UNCHANGED <<requested, cancelled, steady, session, code, current_time, next_step,
                   results, covered, stored, ended>>

-----------------------------------------------------------------------------
(* The seconds a step of s adds to the flow balance and the pump energy:   *)
(* a steady-state simulation counts its only result once.                  *)
(* Mutant of Interval: a step without a result is counted too.             *)
IntervalAlways(s) == IF s > 0 THEN s ELSE IF steady THEN 1 ELSE 0

Interval(s) ==
    IF ~available THEN 0
    ELSE IF s > 0 THEN s
    ELSE IF steady THEN 1 ELSE 0

(* EN_nextH: an error or a negative step ends the simulation.              *)
NextH ==
    /\ pc = "next"
    /\ \E s \in Unset .. MaxStep, warned \in SUBSET {Diag("Warning", "RunHydraulics")} :
         /\ next_step' = s
         /\ \/ /\ s >= 0
               /\ pc' = "advanced"
               /\ results' = IF available
                             THEN [results EXCEPT ![Len(results)].event_next = s]
                             ELSE results
               /\ covered' = covered + Interval(s)
               /\ diags' = diags \union warned
               /\ UNCHANGED failed
            \/ /\ s < 0 \/ warned = {}
               /\ pc' = "close"
               /\ diags' = diags \union warned \union {Diag("Fatal", "RunHydraulics")}
               /\ failed' = TRUE
               /\ UNCHANGED <<results, covered>>
    /\ UNCHANGED <<requested, cancelled, steady, session, code, previous_time,
                   current_time, available, stored, missed, ended>>

Again ==
    /\ pc = "again"
    /\ pc' = IF next_step <= 0 THEN "close" ELSE "top"
    /\ ended' = (next_step <= 0)
    /\ UNCHANGED <<requested, cancelled, steady, session, code, current_time, next_step,
                   stored, failed, diags, loopVars>>

CloseH ==
    /\ pc = "close"
    /\ pc' = "returned"
    /\ session' = "closed"
    /\ Quiet \/ Collect("Warning", "CloseHydraulics") \/ Collect("Error", "CloseHydraulics")
    /\ stored' = IF ~cancelled /\ results # <<>> THEN covered ELSE stored
    /\ UNCHANGED <<requested, cancelled, steady, code, current_time, next_step, ended,
                   loopVars>>

Solve ==
    \/ Poll \/ ConfigureReport \/ OpenH \/ InitH \/ RunH
    \/ Break \/ ReadResult \/ NoResult \/ NextH \/ Again \/ CloseH

Next == RequestCancel \/ Solve

Spec == Init /\ [][Next]_vars

(* The solver's thread runs; nobody has to cancel.                         *)
FairSpec == Spec /\ WF_vars(Solve)

-----------------------------------------------------------------------------
(* Properties. *)

Codes == {"ok", "warning", "illConditioned", "fatal"}

(* The values the solver's state can take.                                 *)
TypeOK ==
    /\ pc \in Places
    /\ requested \in BOOLEAN /\ cancelled \in BOOLEAN /\ steady \in BOOLEAN
    /\ session \in {"closed", "open", "initialised"}
    /\ code \in Codes
    /\ previous_time \in Unset .. MaxTime
    /\ current_time \in Unset .. MaxTime
    /\ next_step \in Unset .. MaxStep
    /\ available \in BOOLEAN
    /\ results \in Seq([time : 0 .. MaxTime, event_next : Unset .. MaxStep])
    /\ covered \in Nat
    /\ stored \in Nat \union {Unset}
    /\ failed \in BOOLEAN
    /\ diags \subseteq [severity : Severities, stage : {"RunHydraulics", "CloseHydraulics"}]
    /\ missed \in BOOLEAN /\ ended \in BOOLEAN

(* However the simulation ends (failure, cancellation at any poll, natural *)
(* end), the toolkit is stepped only in an initialised session, and no     *)
(* session is left open behind the solver.                                 *)
SessionBalanced ==
    /\ pc \in {"top", "run", "ran", "judge", "sampled", "next", "advanced", "again"} =>
         session = "initialised"
    /\ pc = "returned" => session = "closed"

(* The timeline is a timeline: the times of its results strictly increase, *)
(* whatever times the toolkit reports.                                     *)
TimesIncrease ==
    \A i, k \in DOMAIN results : i < k => results[i].time < results[k].time

(* The seconds the results account for: each one until the next event, the *)
(* last one of a steady-state simulation for one second.                   *)
Seconds(r, single) ==
    IF r.event_next > 0 THEN r.event_next ELSE IF r.event_next = 0 /\ single THEN 1 ELSE 0

SecondsUpTo(rs, n, single) ==
    LET total[i \in 0 .. n] ==
            IF i = 0 THEN 0 ELSE total[i - 1] + Seconds(rs[i], single)
    IN  total[n]

AccountedSeconds == SecondsUpTo(results, Len(results), steady)

(* The flow balance and the energy usage stored with the last result cover *)
(* exactly the intervals the results report, also when steps were lost in  *)
(* between, and are stored unless the run was cancelled or has no result.  *)
BalanceCoversTimeline ==
    pc = "returned" =>
        /\ stored # Unset <=> ~cancelled /\ results # <<>>
        /\ stored # Unset => stored = AccountedSeconds

(* What run() returns, as the executor sees it.                            *)
Outcome ==
    [cancelled |-> cancelled, success |-> cancelled \/ ~failed,
     nonempty |-> results # <<>>, complete |-> ended /\ ~missed,
     unconfigured |-> failed /\ diags \subseteq {Diag("Warning", "RunHydraulics")},
     diags |-> diags]

(* The contract EpanetRun relies on: success means that every step of a    *)
(* simulation that reached its end has a result; a failure is diagnosed;   *)
(* cancellation is reported only when it was requested, and is no failure. *)
ReturnsWithinContract == pc = "returned" => SolverContract(Outcome, requested)

(* The solver returns, whatever the toolkit answers: a simulation whose    *)
(* time does not advance is given up.                                      *)
Terminates == <>(pc = "returned")

=============================================================================
