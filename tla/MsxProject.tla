----------------------------- MODULE MsxProject -----------------------------
(***************************************************************************)
(* EpanetMsxProject::run: the multi-species stage of several concurrent    *)
(* simulation runs.  EPANET-MSX keeps one project and one reaction model   *)
(* per process, so every run takes one process-wide mutex before its first *)
(* toolkit call and keeps it until it returns.  The toolkit is external:   *)
(* any call may fail, and MSXstep may report any time.  It is assumed that *)
(* a failed open leaves nothing open and that a close closes, whatever it  *)
(* returns.                                                                *)
(***************************************************************************)
EXTENDS Integers, EpanetResult

CONSTANTS
    Runs,     (* the calls of EpanetMsxProject::run in this process        *)
    MaxTime,  (* bounds the times MSXstep reports                          *)
    NoRun

ASSUME RunsAssumption == NoRun \notin Runs /\ MaxTime \in Nat

VARIABLES
    pc,
    requested,     (* what a run's cancellation callback answers           *)
    disabled,      (* the run's request.network has a disabled node or link *)
    holder,        (* of msx_mutex                                         *)
    project,       (* whose EPANET project is open in the process          *)
    loaded,        (* whose reaction model is open in the process          *)
    timeline,      (* what a run returns, see Timelines                    *)
    early,         (* history: the run was cancelled before it had the mutex *)
    fault          (* history: something the run depends on failed         *)

vars == <<pc, requested, disabled, holder, project, loaded, timeline, early, fault>>

toolkit == <<holder, project, loaded>>
history == <<early, fault>>

Unset == -1

(* The poll points: where the run goes on, and where when cancelled.       *)
PollPoints ==
    [entry   |-> [next |-> "prepare", exit |-> "returned"],
     ready   |-> [next |-> "lock",    exit |-> "returned"],
     top     |-> [next |-> "step",    exit |-> "close"],
     sampled |-> [next |-> "again",   exit |-> "close"]]

(* The places where the run holds the mutex, and those with a model.       *)
InSession == {"resolve", "load", "init", "top", "step", "sampled", "again", "close"}
Locked    == InSession \union {"enopen", "open", "enclose", "finish"}
Places    == Locked \union {"entry", "prepare", "ready", "lock", "returned"}

(* previous is the time of the last step, left the time MSXstep said is    *)
(* left, results the number of results; failure is the stage of the first  *)
(* failure, with every stage but that of closing as RunQuality; complete   *)
(* is history: the last step has its result.                               *)
Timelines ==
    [cancelled : BOOLEAN, previous : Unset .. MaxTime, left : 0 .. 1,
     results : 0 .. MaxTime + 1, failure : {"none", "RunQuality", "CloseQuality"},
     diags : SUBSET [severity : Severities, stage : {"RunQuality", "CloseQuality"}],
     success : BOOLEAN, validity : Validities, complete : BOOLEAN]

Init ==
    /\ pc = [r \in Runs |-> "entry"]
    /\ requested = [r \in Runs |-> FALSE]
    /\ disabled \in [Runs -> BOOLEAN]
    /\ holder = NoRun /\ project = NoRun /\ loaded = NoRun
    /\ timeline = [r \in Runs |->
         [cancelled |-> FALSE, previous |-> Unset, left |-> 1, results |-> 0,
          failure |-> "none", diags |-> {}, success |-> TRUE, validity |-> "NotRun",
          complete |-> FALSE]]
    /\ early = [r \in Runs |-> FALSE]
    /\ fault = [r \in Runs |-> FALSE]

Goto(r, place) == pc' = [pc EXCEPT ![r] = place]

(* msx_mutex is released by the destructor of the locker.                  *)
Release(r) == holder' = IF holder = r THEN NoRun ELSE holder

(* appendMsxFailure *)
Failed(t, severity, stage) ==
    [t EXCEPT !.diags = @ \union {[severity |-> severity, stage |-> stage]},
              !.failure = IF @ = "none" THEN stage ELSE @]

Faulty(r) == fault' = [fault EXCEPT ![r] = TRUE]

(* failTimeline, and the return that follows it.                           *)
Abandon(r) ==
    /\ Goto(r, "returned")
    /\ timeline' = [timeline EXCEPT ![r] =
         [Failed(@, "Fatal", "RunQuality") EXCEPT !.success = FALSE, !.validity = "Invalid"]]

RequestCancel(r) ==
    /\ ~requested[r]
    /\ pc[r] # "returned"
    /\ requested' = [requested EXCEPT ![r] = TRUE]
    /\ early' = [early EXCEPT ![r] = pc[r] \in {"entry", "prepare", "ready", "lock"}]
    /\ UNCHANGED <<pc, disabled, toolkit, timeline, fault>>

-----------------------------------------------------------------------------
(* Mutant of Poll: a run with the mutex ignores the request.               *)
PollOutsideSession(r) ==
    /\ pc[r] \in DOMAIN PollPoints
    /\ LET noticed == requested[r] /\ pc[r] \notin InSession IN
         /\ Goto(r, IF noticed THEN PollPoints[pc[r]].exit ELSE PollPoints[pc[r]].next)
         /\ timeline' = [timeline EXCEPT ![r].cancelled = noticed]
    /\ UNCHANGED <<requested, disabled, toolkit, history>>

(* A poll that ends the run before the mutex is taken leaves the timeline  *)
(* as it was reset: successful, nothing run.                               *)
Poll(r) ==
    /\ pc[r] \in DOMAIN PollPoints
    /\ Goto(r, IF requested[r] THEN PollPoints[pc[r]].exit ELSE PollPoints[pc[r]].next)
    /\ timeline' = [timeline EXCEPT ![r].cancelled = requested[r]]
    /\ UNCHANGED <<requested, disabled, toolkit, history>>

(* The hydraulic file, the INP text, the MSX text, the scratch directory   *)
(* and the files in it: any of them may be missing or fail.                *)
Prepare(r) ==
    /\ pc[r] = "prepare"
    /\ \/ Goto(r, "ready") /\ UNCHANGED <<timeline, fault>>
       \/ Abandon(r) /\ Faulty(r)
    /\ UNCHANGED <<requested, disabled, toolkit, early>>

(* Mutant of Lock: one mutex per project object instead of one per process. *)
LockPerProject(r) ==
    /\ pc[r] = "lock"
    /\ holder' = r
    /\ Goto(r, "enopen")
    /\ UNCHANGED <<requested, disabled, project, loaded, timeline, history>>

(* The wait for the mutex does not look at the cancellation request.       *)
Lock(r) ==
    /\ pc[r] = "lock"
    /\ holder = NoRun
    /\ holder' = r
    /\ Goto(r, "enopen")
    /\ UNCHANGED <<requested, disabled, project, loaded, timeline, history>>

(* Mutant of OpenProject: the early return keeps the mutex.                *)
OpenProjectKeepsLock(r) ==
    /\ pc[r] = "enopen"
    /\ \/ /\ Goto(r, "open")
          /\ project' = r
          /\ UNCHANGED <<timeline, fault>>
       \/ Abandon(r) /\ Faulty(r) /\ UNCHANGED project
    /\ UNCHANGED <<requested, disabled, holder, loaded, early>>

(* MSXENopen *)
OpenProject(r) ==
    /\ pc[r] = "enopen"
    /\ \/ /\ Goto(r, "open")
          /\ project' = r
          /\ UNCHANGED <<holder, timeline, fault>>
       \/ Abandon(r) /\ Faulty(r) /\ Release(r) /\ UNCHANGED project
    /\ UNCHANGED <<requested, disabled, loaded, early>>

(* MSXopen; when it fails the project is closed again.                     *)
OpenModel(r) ==
    /\ pc[r] = "open"
    /\ \/ /\ Goto(r, "load")
          /\ loaded' = r
          /\ UNCHANGED <<holder, project, timeline, fault>>
       \/ Abandon(r) /\ Faulty(r) /\ Release(r) /\ project' = NoRun /\ UNCHANGED loaded
    /\ UNCHANGED <<requested, disabled, early>>

(* Mutant of CloseAll: only the reaction model is closed.                  *)
CloseModelOnly == loaded' = NoRun /\ UNCHANGED project

(* MSXclose and MSXENclose on the way out of a failure.                    *)
CloseAll == loaded' = NoRun /\ project' = NoRun

GiveUp(r) == Abandon(r) /\ CloseAll /\ Release(r)

(* MSXusehydfile, MSXgetcount, and the identity of every species.          *)
Load(r) ==
    /\ pc[r] = "load"
    /\ \/ Goto(r, "resolve") /\ UNCHANGED <<toolkit, timeline, fault>>
       \/ GiveUp(r) /\ Faulty(r)
    /\ UNCHANGED <<requested, disabled, early>>

(* The indices of every node and link of request.network, looked up in the *)
(* project opened from the configured INP, which has the enabled ones.     *)
Resolve(r) ==
    /\ pc[r] = "resolve"
    /\ IF disabled[r]
       THEN GiveUp(r)
       ELSE Goto(r, "init") /\ UNCHANGED <<toolkit, timeline>>
    /\ UNCHANGED <<requested, disabled, history>>

(* MSXinit *)
InitMsx(r) ==
    /\ pc[r] = "init"
    /\ \/ Goto(r, "top") /\ UNCHANGED <<toolkit, timeline, fault>>
       \/ GiveUp(r) /\ Faulty(r)
    /\ UNCHANGED <<requested, disabled, early>>

-----------------------------------------------------------------------------
NotAdvanced(r, t) == timeline[r].previous >= 0 /\ t <= timeline[r].previous

(* MSXstep fails, or its answer makes no sense.                            *)
StepFails(r) ==
    /\ pc[r] = "step"
    /\ Goto(r, "close")
    /\ timeline' = [timeline EXCEPT ![r] = Failed(@, "Fatal", "RunQuality")]
    /\ Faulty(r)
    /\ UNCHANGED <<requested, disabled, toolkit, early>>

(* A time that does not advance ends the run; else every result of the     *)
(* step is read, with the mass balance after the last step, or none of it  *)
(* is kept and the run ends.                                               *)
Step(r) ==
    /\ pc[r] = "step"
    /\ \E t \in 0 .. MaxTime, left \in 0 .. 1 :
         LET stepped == [timeline[r] EXCEPT !.previous = t, !.left = left] IN
         \/ /\ NotAdvanced(r, t)
            /\ Goto(r, "close") /\ Faulty(r)
            /\ timeline' = [timeline EXCEPT ![r] = Failed(@, "Fatal", "RunQuality")]
         \/ /\ ~NotAdvanced(r, t)
            /\ Goto(r, "sampled") /\ UNCHANGED fault
            /\ timeline' = [timeline EXCEPT ![r] =
                 [stepped EXCEPT !.results = @ + 1, !.complete = (left = 0)]]
         \/ /\ ~NotAdvanced(r, t)
            /\ Goto(r, "close") /\ Faulty(r)
            /\ timeline' = [timeline EXCEPT ![r] = Failed(stepped, "Error", "RunQuality")]
    /\ UNCHANGED <<requested, disabled, toolkit, early>>

Again(r) ==
    /\ pc[r] = "again"
    /\ Goto(r, IF timeline[r].left > 0 THEN "top" ELSE "close")
    /\ UNCHANGED <<requested, disabled, toolkit, timeline, history>>

(* MSXclose and MSXENclose at the end; their failures are diagnosed.       *)
CloseModel(r) ==
    /\ pc[r] = "close"
    /\ Goto(r, "enclose")
    /\ loaded' = NoRun
    /\ \/ UNCHANGED <<timeline, fault>>
       \/ timeline' = [timeline EXCEPT ![r] = Failed(@, "Error", "CloseQuality")] /\ Faulty(r)
    /\ UNCHANGED <<requested, disabled, holder, project, early>>

CloseProject(r) ==
    /\ pc[r] = "enclose"
    /\ Goto(r, "finish")
    /\ project' = NoRun
    /\ \/ UNCHANGED <<timeline, fault>>
       \/ timeline' = [timeline EXCEPT ![r] = Failed(@, "Error", "CloseQuality")] /\ Faulty(r)
    /\ UNCHANGED <<requested, disabled, holder, loaded, early>>

(* Mutant of FinalTimeline: results exist, so they are taken for all.      *)
FinalIfAny(t) ==
    [t EXCEPT !.success = t.cancelled \/ t.failure = "none",
              !.validity = IF t.results > 0 THEN "Valid" ELSE "Invalid"]

(* The status and the validity the run returns; failedRuntimeValidity      *)
(* forgives a failure to close.                                            *)
FinalTimeline(t) ==
    [t EXCEPT
       !.success = t.cancelled \/ t.failure = "none",
       !.validity = IF t.cancelled THEN (IF t.results = 0 THEN "NotRun" ELSE "Partial")
                    ELSE IF t.failure = "none" THEN "Valid"
                    ELSE IF t.results = 0 THEN "Invalid"
                    ELSE IF t.failure = "CloseQuality" THEN "Valid"
                    ELSE "Partial"]

Finish(r) ==
    /\ pc[r] = "finish"
    /\ Goto(r, "returned")
    /\ timeline' = [timeline EXCEPT ![r] = FinalTimeline(@)]
    /\ Release(r)
    /\ UNCHANGED <<requested, disabled, project, loaded, history>>

Perform(r) ==
    \/ Poll(r) \/ Prepare(r) \/ Lock(r)
    \/ OpenProject(r) \/ OpenModel(r) \/ Load(r) \/ Resolve(r) \/ InitMsx(r)
    \/ StepFails(r) \/ Step(r) \/ Again(r)
    \/ CloseModel(r) \/ CloseProject(r) \/ Finish(r)

Next == \E r \in Runs : RequestCancel(r) \/ Perform(r)

Spec == Init /\ [][Next]_vars

(* Each run's thread is scheduled.  QMutex promises no order among the     *)
(* waiting threads: weak fairness is enough, as every run takes the mutex  *)
(* once.                                                                   *)
FairSpec == Spec /\ \A r \in Runs : WF_vars(Perform(r))

-----------------------------------------------------------------------------
(* Properties. *)

(* The values the state can take; a timeline never has more results than   *)
(* there are times.                                                        *)
TypeOK ==
    /\ pc \in [Runs -> Places]
    /\ requested \in [Runs -> BOOLEAN]
    /\ disabled \in [Runs -> BOOLEAN]
    /\ {holder, project, loaded} \subseteq Runs \union {NoRun}
    /\ timeline \in [Runs -> Timelines]
    /\ early \in [Runs -> BOOLEAN]
    /\ fault \in [Runs -> BOOLEAN]

(* Concurrent runs share the toolkit's global state: a run that steps,     *)
(* reads or closes a reaction model works on the one it opened itself.     *)
OwnModel ==
    \A r \in Runs : pc[r] \in InSession => project = r /\ loaded = r

(* Every way out of the critical section, of which there are a dozen,      *)
(* leaves the toolkit as the next run must find it.                        *)
LeftClean == holder = NoRun => project = NoRun /\ loaded = NoRun

(* What a run returns is what it has: valid results are those of every     *)
(* step up to the end, also when closing failed afterwards, and a failed   *)
(* run says what failed and never passes for a cancelled one.              *)
HonestTimeline ==
    \A r \in Runs : pc[r] = "returned" =>
        LET t == timeline[r] IN
        /\ t.validity = "Valid"   => t.complete /\ ~t.cancelled
        /\ t.validity = "Partial" => t.results > 0
        /\ t.validity \in {"NotRun", "Invalid"} => t.results = 0
        /\ t.validity = "NotRun"  => t.cancelled
        /\ t.cancelled => requested[r] /\ t.success
        /\ t.success /\ ~t.cancelled => t.validity = "Valid" /\ ~HasError(t.diags)
        /\ ~t.success => HasError(t.diags)

(* A run cancelled while it waits for the mutex does not see the request   *)
(* before it has it, but then it never advances the simulation.            *)
CancelledWaiterDoesNothing ==
    \A r \in Runs : early[r] => timeline[r].results = 0

(* Every run returns, however many wait for the mutex and however they     *)
(* fail while they hold it.                                                *)
EveryRunReturns == \A r \in Runs : <>(pc[r] = "returned")

(* What the documents promise: disabled nodes and links are absent from    *)
(* the project, from the results, and otherwise make no difference.  So a  *)
(* run with which nothing interferes, no failure and no cancellation,      *)
(* succeeds.                                                               *)
DisabledMakesNoDifference ==
    \A r \in Runs :
        pc[r] = "returned" /\ ~fault[r] /\ ~requested[r] => timeline[r].success

=============================================================================
