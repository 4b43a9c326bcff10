---------------------------- MODULE EpanetResult ----------------------------
(***************************************************************************)
(* The vocabulary of a run's result: diagnostics, how lists of them grow,  *)
(* what they say about the validity of a timeline and the state of a run,  *)
(* and the contract between a solver and the executor that calls it.       *)
(*                                                                         *)
(* A diagnostic is a record with at least a severity and a stage.  Lists   *)
(* of diagnostics are sets: their order is not observed by anything here.  *)
(***************************************************************************)
EXTENDS Naturals, Sequences, SequencesExt

Severities == {"Warning", "Error", "Fatal"}

(* HydraulicSimulationStatusStage, the stages before the solvers as one.   *)
SolverStages == {"RunHydraulics", "CloseHydraulics", "RunQuality", "CloseQuality"}
StageNames   == SolverStages \union
    {"Configure", "SaveHydraulics", "GenerateReport", "RunMultiSpecies", "CloseMultiSpecies"}
Diagnostics  == [severity : Severities, stage : StageNames]

-----------------------------------------------------------------------------
(* Two diagnostics are equivalent when they say the same thing, whatever   *)
(* severity they were given.  What a diagnostic says is here its stage and *)
(* whether it speaks of a warning: a warning's return code is no error's.  *)
Equivalent(d, e) ==
    /\ d.stage = e.stage
    /\ d.severity = "Warning" <=> e.severity = "Warning"

AppendIfUnique(list, d) ==
    IF \E e \in list : Equivalent(e, d) THEN list ELSE list \union {d}

(* Appends the elements from position begin on, one after the other.       *)
AppendFrom(list, source, begin) ==
    LET grown[i \in begin .. Len(source) + 1] ==
            IF i = begin THEN list ELSE AppendIfUnique(grown[i - 1], source[i - 1])
    IN  IF begin > Len(source) THEN list ELSE grown[Len(source) + 1]

(* All elements, in an order nothing depends on.                           *)
AppendAll(list, source) == AppendFrom(list, SetToSeq(source), 1)

HasError(list)   == \E d \in list : d.severity \in {"Error", "Fatal"}
HasWarning(list) == \E d \in list : d.severity = "Warning"

(* Mutant of Invalidates: trouble at any stage spoils the results.         *)
InvalidatesAnywhere(d) == d.severity \in {"Error", "Fatal"}

(* Trouble in closing, saving or reporting does not spoil the results.     *)
Invalidates(d) ==
    /\ d.severity \in {"Error", "Fatal"}
    /\ d.stage \notin {"CloseHydraulics", "CloseQuality", "SaveHydraulics", "GenerateReport"}

CancelledValidity(nonempty) == IF nonempty THEN "Partial" ELSE "Invalid"

FinalValidity(list, nonempty) ==
    IF ~nonempty THEN "Invalid"
    ELSE IF \E d \in list : Invalidates(d) THEN "Partial"
    ELSE "Valid"

Validities == {"NotRun", "Invalid", "Partial", "Valid"}

-----------------------------------------------------------------------------
RunStates == {"Pending", "Running", "Success", "Warning", "Error", "Cancelled", "Skipped"}

(* completedHydraulicState, and completedQualityState of an analysis that  *)
(* is not None.                                                            *)
CompletedState(success, list) ==
    IF ~success \/ HasError(list) THEN "Error"
    ELSE IF HasWarning(list) THEN "Warning"
    ELSE "Success"

-----------------------------------------------------------------------------
(* How a solver may return: whether it says it was cancelled, whether its  *)
(* status is a success, whether it produced results, whether they are all  *)
(* the steps of a simulation that reached its end, and the severities and  *)
(* stages of what it diagnosed.  "unconfigured" is the one failure that    *)
(* the hydraulic solver reports by its status alone.                       *)
SolverOutcomes(run, close) ==
    [cancelled : BOOLEAN, success : BOOLEAN, nonempty : BOOLEAN, complete : BOOLEAN,
     unconfigured : BOOLEAN,
     diags : SUBSET [severity : Severities, stage : {run, close}]]

(* The status is the first failure, which was diagnosed as well, unless    *)
(* the report could not be configured.                                     *)
Failure(o) ==
    IF o.unconfigured THEN {[severity |-> "Error", stage |-> "Configure"]}
    ELSE {d \in o.diags : d.severity # "Warning"}

SolverContract(o, requested) ==
    /\ o.cancelled => requested /\ o.success
    /\ o.complete => o.nonempty
    /\ ~o.cancelled /\ o.success => o.complete /\ ~HasError(o.diags)
    /\ ~o.success => o.unconfigured \/ HasError(o.diags)
    /\ o.unconfigured => ~o.success /\ ~o.nonempty /\ ~HasError(o.diags)
    /\ ~o.success /\ ~o.unconfigured /\ ~o.complete => \E d \in o.diags : Invalidates(d)

=============================================================================
