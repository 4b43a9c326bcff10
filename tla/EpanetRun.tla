----------------------------- MODULE EpanetRun -----------------------------
(***************************************************************************)
(* EpanetRunner::run and EpanetMultiQualityRunExecutor::run: one request   *)
(* from the preparation of the project through the hydraulic simulation,   *)
(* the quality children and the multi-species run to the result.           *)
(*                                                                         *)
(* Each solver is what its own module shows it to be: it returns within    *)
(* SolverContract (HydraulicSolver, QualitySolver), and the multi-species  *)
(* run as HonestTimeline says (MsxProject).  Builders, configurators and   *)
(* the toolkit's report may fail or warn at will.  The cancellation may be *)
(* requested at any moment.                                                *)
(*                                                                         *)
(* A report is the set of the phases whose lines it has, besides EPANET's  *)
(* header.                                                                 *)
(***************************************************************************)
EXTENDS Integers, Sequences, FiniteSets, SequencesExt, EpanetResult

CONSTANTS
    MaxQuality,   (* bounds the number of quality runs of the request      *)
    MaxEmitted    (* bounds the diagnostics that are not solver outcomes,  *)
                  (* and those of each outcome                             *)

ASSUME BoundsAssumption == MaxQuality \in Nat /\ MaxEmitted \in Nat

VARIABLES
    pc,
    phase,       (* whose turn it is, see Phases; quality_index in a child *)
    request,     (* the analyses of quality_runs, and multi_species_run    *)
    requested,   (* what the cancellation callback answers                 *)
    project,     (* the project's diagnostics                              *)
    checkpoint,  (* the EpanetDiagnosticCheckpoint of the phase            *)
    collector,   (* the lines in the report collector                      *)
    file,        (* the reusable hydraulic file exists                     *)
    prepared,    (* the project was prepared with success                  *)
    hydraulics,  (* result_timeline and report_lines                       *)
    quality,     (* quality_results                                        *)
    msx,         (* the state of multi_species_result, or "Absent"         *)
    result,      (* the rest of EpanetResultRun                            *)
    noticed,     (* history: a poll saw the request                        *)
    emitted      (* history: what was diagnosed during each phase          *)

vars == <<pc, phase, request, requested, project, checkpoint, collector, file,
          prepared, hydraulics, quality, msx, result, noticed, emitted>>

artifacts == <<checkpoint, collector, file, prepared>>

Preparing == -1
Hydraulics == 0
MultiSpecies == MaxQuality + 1
Phases == Preparing .. MultiSpecies

Unreported == {MultiSpecies}  (* report_lines that are still empty         *)

Init ==
    /\ pc = "entry"
    /\ phase = Preparing
    /\ request \in [quality : UNION {[1 .. n -> {"None", "Active"}] : n \in 0 .. MaxQuality},
                    msx : BOOLEAN]
    /\ requested = FALSE
    /\ project = <<>>
    /\ checkpoint = 0
    /\ collector = {}
    /\ file = FALSE
    /\ prepared = FALSE
    /\ hydraulics = [success |-> TRUE, validity |-> "NotRun", nonempty |-> FALSE,
                     complete |-> FALSE, diags |-> {}, report |-> Unreported]
    /\ quality = [i \in DOMAIN request.quality |->
                    [state |-> "Pending", success |-> TRUE, validity |-> "NotRun",
                     nonempty |-> FALSE, complete |-> FALSE, diags |-> {},
                     report |-> Unreported]]
    /\ msx = "Absent"
    /\ result = [state |-> "Pending", cancelled |-> FALSE, success |-> TRUE, diags |-> {}]
    /\ noticed = FALSE
    /\ emitted = [p \in Phases |-> {}]

-----------------------------------------------------------------------------
Diag(severity, stage) == [severity |-> severity, stage |-> stage]

(* What a step that configures, saves or reports may say, with its status. *)
Remarks(success, stage) ==
    {ds \in SUBSET {Diag("Warning", stage), Diag("Error", stage)} :
        success \/ Diag("Error", stage) \in ds}

(* The diagnostics that are there already.                                 *)
Checkpoint == Len(project)

WarningsAt(stage) == SUBSET {Diag("Warning", stage)}

Record(ds) ==
    /\ emitted' = [emitted EXCEPT ![phase] = @ \union ds]
    /\ Cardinality(UNION {emitted'[p] : p \in Phases}) <= MaxEmitted

HydraulicOutcomes ==
    {o \in SolverOutcomes("RunHydraulics", "CloseHydraulics") :
        SolverContract(o, o.cancelled) /\ Cardinality(o.diags) <= MaxEmitted}

QualityOutcomes ==
    {o \in SolverOutcomes("RunQuality", "CloseQuality") :
        /\ SolverContract(o, o.cancelled) /\ Cardinality(o.diags) <= MaxEmitted
        /\ ~o.unconfigured}

(* The entry poll of a solver noticed the request.                         *)
NotStarted == [cancelled |-> TRUE, success |-> TRUE, nonempty |-> FALSE, complete |-> FALSE,
               unconfigured |-> FALSE, diags |-> {}]

MultiSpeciesOutcomes ==
    LET troubles == {Diag("Fatal", "RunMultiSpecies"), Diag("Error", "CloseMultiSpecies")} IN
    {o \in [cancelled : BOOLEAN, success : BOOLEAN, diags : SUBSET troubles] :
        /\ o.cancelled => o.success /\ o.diags \subseteq {Diag("Error", "CloseMultiSpecies")}
        /\ o.success /\ ~o.cancelled => o.diags = {}
        /\ ~o.success => o.diags # {}}

(* Mutant of Settled: children that are over are marked as well.           *)
SettledAll(children, state) == [i \in DOMAIN children |-> [children[i] EXCEPT !.state = state]]

(* markPendingQualityRuns, markPendingMultiSpeciesRun                      *)
Settled(children, state) ==
    [i \in DOMAIN children |->
        IF children[i].state = "Pending" THEN [children[i] EXCEPT !.state = state]
        ELSE children[i]]

SettledMsx(state) == IF msx = "Pending" THEN state ELSE msx

(* recordFailureStatus, for any of the failures the status may be.         *)
Reported(res, failures) ==
    [res EXCEPT !.success = FALSE, !.diags = AppendAll(@, failures)]

RequestCancel ==
    /\ ~requested
    /\ pc # "returned"
    /\ requested' = TRUE
    /\ UNCHANGED <<pc, phase, request, project, artifacts, hydraulics, quality, msx,
                   result, noticed, emitted>>

-----------------------------------------------------------------------------
(* EpanetRunner::run up to the executor. *)

CancelledRun ==
    /\ requested
    /\ pc' = "returned"
    /\ noticed' = TRUE
    /\ quality' = Settled(quality, "Cancelled")
    /\ msx' = SettledMsx("Cancelled")
    /\ result' = [result EXCEPT !.cancelled = TRUE, !.state = "Cancelled",
                                !.diags = AppendFrom(@, project, 1)]
    /\ hydraulics' = [hydraulics EXCEPT !.report = collector]
    /\ UNCHANGED <<phase, request, requested, project, artifacts, emitted>>

(* said is what the status says, and what the lines of the report say.     *)
FailedRun(said) ==
    LET list == AppendAll(AppendFrom(hydraulics.diags, project, 1), said) IN
    /\ Record(said)
    /\ pc' = "returned"
    /\ hydraulics' = [hydraulics EXCEPT !.success = FALSE, !.diags = list,
                        !.validity = FinalValidity(list, FALSE), !.report = collector]
    /\ quality' = Settled(quality, "Skipped")
    /\ msx' = SettledMsx("Skipped")
    /\ result' = [result EXCEPT !.success = FALSE, !.state = "Error",
                                !.diags = AppendAll(@, list)]

EntryPoll ==
    /\ pc = "entry"
    /\ \/ CancelledRun
       \/ /\ ~requested
          /\ pc' = IF request.msx THEN "validateMsx" ELSE "prepare"
          /\ msx' = IF request.msx THEN "Pending" ELSE "Absent"
          /\ UNCHANGED <<phase, request, requested, project, artifacts, hydraulics,
                         quality, result, noticed, emitted>>

ValidateMsx ==
    /\ pc = "validateMsx"
    /\ \/ /\ pc' = "prepare"
          /\ UNCHANGED <<hydraulics, quality, msx, result, emitted>>
       \/ FailedRun({Diag("Error", "Configure")})
    /\ UNCHANGED <<phase, request, requested, project, artifacts, noticed>>

(* EpanetPreparedProject::prepare: validation, advisories, the toolkit's   *)
(* project and the builder.                                                *)
Prepare ==
    /\ pc = "prepare"
    /\ pc' = "prepared"
    /\ \E ds \in SUBSET {Diag("Warning", "Configure"), Diag("Error", "Configure")} :
         /\ prepared' \in IF HasError(ds) THEN {FALSE} ELSE BOOLEAN
         /\ Record(ds)
         /\ project' = project \o SetToSeq(ds)
    /\ UNCHANGED <<phase, request, requested, checkpoint, collector, file, hydraulics,
                   quality, msx, result, noticed>>

(* The poll comes first: a failure to prepare a cancelled run is silent.   *)
Prepared ==
    /\ pc = "prepared"
    /\ \/ CancelledRun
       \/ /\ ~requested /\ ~prepared
          /\ \E lines \in Remarks(TRUE, "GenerateReport") :
               FailedRun({Diag("Error", "Configure")} \union lines)
          /\ UNCHANGED <<phase, request, requested, project, artifacts, noticed>>
       \/ /\ ~requested /\ prepared
          /\ pc' = "configureHydraulics"
          /\ phase' = Hydraulics
          /\ checkpoint' = Checkpoint
          /\ result' = [result EXCEPT !.diags = AppendFrom(@, project, 1), !.state = "Running"]
          /\ UNCHANGED <<request, requested, project, collector, file, prepared, hydraulics,
                         quality, msx, noticed, emitted>>

-----------------------------------------------------------------------------
(* The executor's hydraulic phase. *)

(* finalizeRunState                                                        *)
Finalized(res, hyd, children) ==
    LET state  == CompletedState(hyd.success, hyd.diags)
        states == {children[i].state : i \in DOMAIN children} \union {state}
    IN  [res EXCEPT !.state =
            IF res.cancelled THEN "Cancelled"
            ELSE IF HasError(res.diags) \/ "Error" \in states THEN "Error"
            ELSE IF HasWarning(res.diags) \/ "Warning" \in states THEN "Warning"
            ELSE "Success"]

(* The executor returns; report_lines are the collector's if still empty.  *)
StopExecutor(res, hyd, children) ==
    /\ pc' = "multiSpecies"
    /\ hydraulics' = [hyd EXCEPT !.report = IF @ = Unreported THEN collector' ELSE @]
    /\ quality' = children
    /\ result' = Finalized(res, hyd, children)

(* Mutant of CancelHydraulics: the children are forgotten.                 *)
CancelHydraulicsAlone(hyd) ==
    /\ noticed' = TRUE
    /\ StopExecutor(
         [result EXCEPT !.cancelled = TRUE, !.diags = AppendAll(@, hyd.diags)],
         [hyd EXCEPT !.validity = CancelledValidity(hyd.nonempty)], quality)

CancelHydraulics(hyd) ==
    /\ noticed' = TRUE
    /\ StopExecutor(
         [result EXCEPT !.cancelled = TRUE, !.diags = AppendAll(@, hyd.diags)],
         [hyd EXCEPT !.validity = CancelledValidity(hyd.nonempty)],
         Settled(quality, "Cancelled"))

FailHydraulics(hyd, failures) ==
    LET list == AppendAll(hyd.diags, failures) IN
    /\ UNCHANGED noticed
    /\ StopExecutor(
         Reported([result EXCEPT !.diags = AppendAll(@, list)], failures),
         [hyd EXCEPT !.success = FALSE, !.diags = list,
                     !.validity = FinalValidity(list, hyd.nonempty)],
         Settled(quality, "Skipped"))

(* hydraulic_diagnostics.appendSince, on the diagnostics as they are then. *)
SinceCheckpoint(list) == AppendFrom(list, project', checkpoint + 1)

ConfigureHydraulics ==
    /\ pc = "configureHydraulics"
    /\ UNCHANGED <<phase, request, requested, artifacts, msx>>
    /\ \E success \in BOOLEAN : \E ds \in Remarks(success, "Configure") :
         /\ success => ~HasError(ds)
         /\ Record(ds)
         /\ project' = project \o SetToSeq(ds)
         /\ LET hyd == [hydraulics EXCEPT !.diags = SinceCheckpoint(@)] IN
            IF success
            THEN /\ pc' = "solveHydraulics"
                 /\ hydraulics' = hyd
                 /\ UNCHANGED <<quality, result, noticed>>
            ELSE FailHydraulics(hyd, {Diag("Error", "Configure")})

(* The solver is called: it has returned or it has passed its entry poll.  *)
HydraulicsReturn(o) ==
    /\ Record(o.diags \union (IF o.cancelled \/ requested THEN {} ELSE Failure(o)))
    /\ project' = project \o SetToSeq(o.diags)
    /\ collector' = collector \union {phase}
    /\ LET hyd == [hydraulics EXCEPT !.success = o.success, !.nonempty = o.nonempty,
                     !.complete = o.complete, !.diags = SinceCheckpoint(@)] IN
       \/ (o.cancelled \/ requested) /\ CancelHydraulics(hyd)
       \/ ~o.cancelled /\ ~requested /\ ~o.success /\ FailHydraulics(hyd, Failure(o))
       \/ /\ ~o.cancelled /\ ~requested /\ o.success
          /\ pc' = "saveHydraulics"
          /\ hydraulics' = hyd
          /\ UNCHANGED <<quality, result, noticed>>

SolveHydraulics ==
    /\ pc = "solveHydraulics"
    /\ \/ requested /\ HydraulicsReturn(NotStarted)
       \/ /\ ~requested
          /\ pc' = "solvingHydraulics"
          /\ UNCHANGED <<project, collector, hydraulics, quality, result, noticed, emitted>>
    /\ UNCHANGED <<phase, request, requested, checkpoint, file, prepared, msx>>

SolvedHydraulics ==
    /\ pc = "solvingHydraulics"
    /\ \E o \in HydraulicOutcomes : (o.cancelled => requested) /\ HydraulicsReturn(o)
    /\ UNCHANGED <<phase, request, requested, checkpoint, file, prepared, msx>>

(* EN_saveH and, for a multi-species run, the reusable file and its INP.   *)
(* A warning of the toolkit is a success without the file.                 *)
SaveHydraulics ==
    /\ pc = "saveHydraulics"
    /\ pc' = "savedHydraulics"
    /\ \E success \in BOOLEAN :
       \E warnings \in WarningsAt("SaveHydraulics") : \E saved \in BOOLEAN :
         /\ saved => success /\ request.msx
         /\ success /\ request.msx /\ ~saved => warnings # {}
         /\ file' = saved
         /\ Record(warnings)
         /\ project' = project \o SetToSeq(warnings)
         /\ hydraulics' = [hydraulics EXCEPT !.success = success, !.diags = SinceCheckpoint(@)]
    /\ UNCHANGED <<phase, request, requested, checkpoint, collector, prepared, quality, msx,
                   result, noticed>>

(* Mutant of SavedHydraulics: a run that could not save goes on.           *)
SavedHydraulicsAnyway ==
    /\ pc = "savedHydraulics"
    /\ UNCHANGED <<phase, request, requested, project, artifacts, msx, emitted>>
    /\ \/ requested /\ CancelHydraulics(hydraulics)
       \/ /\ ~requested
          /\ pc' = "reportHydraulics"
          /\ hydraulics' = [hydraulics EXCEPT !.success = TRUE,
                              !.validity = FinalValidity(hydraulics.diags, hydraulics.nonempty)]
          /\ UNCHANGED <<quality, result, noticed>>

SavedHydraulics ==
    /\ pc = "savedHydraulics"
    /\ UNCHANGED <<phase, request, requested, project, artifacts, msx>>
    /\ \/ requested /\ CancelHydraulics(hydraulics) /\ UNCHANGED emitted
       \/ /\ ~requested /\ ~hydraulics.success
          /\ Record({Diag("Error", "SaveHydraulics")})
          /\ FailHydraulics(hydraulics, {Diag("Error", "SaveHydraulics")})
       \/ /\ ~requested /\ hydraulics.success
          /\ UNCHANGED emitted
          /\ pc' = "reportHydraulics"
          /\ hydraulics' = [hydraulics EXCEPT !.validity =
                              FinalValidity(hydraulics.diags, hydraulics.nonempty)]
          /\ UNCHANGED <<quality, result, noticed>>

(* generateReport: EN_report may fail or warn, and the lines it writes may *)
(* speak of errors and warnings, which are diagnosed in the timeline only. *)
ReportHydraulics ==
    /\ pc = "reportHydraulics"
    /\ pc' = "nextChild"
    /\ phase' = phase + 1
    /\ \E success \in BOOLEAN : \E ds \in Remarks(success, "GenerateReport") :
         LET list == AppendAll(hydraulics.diags, ds)
             all  == [result EXCEPT !.diags = AppendAll(@, list)]
         IN  /\ Record(ds)
             /\ hydraulics' = [hydraulics EXCEPT !.success = success, !.diags = list,
                                 !.validity = FinalValidity(list, hydraulics.nonempty),
                                 !.report = collector]
             /\ result' = IF success THEN all ELSE Reported(all, {Diag("Error", "GenerateReport")})
    /\ UNCHANGED <<request, requested, project, artifacts, quality, msx, noticed>>

-----------------------------------------------------------------------------
(* The executor's quality children; the child of the phase is the phase-th *)
(* of them, and CurrentChild is what it becomes.                           *)

CurrentChild(c) == quality' = [quality EXCEPT ![phase] = c]

(* Mutant of NextChild: only the child's own list has its diagnostics.     *)
NextChildQuietly(c, res) ==
    /\ pc' = "nextChild"
    /\ phase' = phase + 1
    /\ CurrentChild(c)
    /\ result' = res

(* The child is over: what it diagnosed goes into the result as well.      *)
NextChild(c, res) ==
    /\ pc' = "nextChild"
    /\ phase' = phase + 1
    /\ CurrentChild(c)
    /\ result' = [res EXCEPT !.diags = AppendAll(@, c.diags)]

(* A child that was not configured has nothing but its diagnostics.        *)
FailChild(c, failures) ==
    LET list == AppendAll(c.diags, failures) IN
    NextChild([c EXCEPT !.success = FALSE, !.diags = list, !.state = "Error",
                        !.validity = FinalValidity(list, FALSE), !.report = collector],
              [result EXCEPT !.success = FALSE])

SkipChild ==
    /\ pc = "nextChild"
    /\ phase \in DOMAIN quality /\ request.quality[phase] = "None"
    /\ quality' = [quality EXCEPT ![phase].state = "Skipped"]
    /\ phase' = phase + 1
    /\ UNCHANGED <<pc, request, requested, project, artifacts, hydraulics, msx, result,
                   noticed, emitted>>

(* Mutant of StartChild: the collector goes on with the lines it has.      *)
StartChildOnOldReport ==
    /\ pc = "nextChild"
    /\ phase \in DOMAIN quality /\ request.quality[phase] = "Active"
    /\ UNCHANGED <<phase, request, requested, project, checkpoint, file, prepared, msx,
                   emitted, collector>>
    /\ ~requested
    /\ pc' = "validateQuality"
    /\ quality' = [quality EXCEPT ![phase].state = "Running"]
    /\ UNCHANGED <<hydraulics, result, noticed>>

(* The poll before an active child, and restartFromHeader.                 *)
StartChild ==
    /\ pc = "nextChild"
    /\ phase \in DOMAIN quality /\ request.quality[phase] = "Active"
    /\ UNCHANGED <<phase, request, requested, project, checkpoint, file, prepared, msx,
                   emitted>>
    /\ \/ /\ requested
          /\ noticed' = TRUE
          /\ UNCHANGED collector
          /\ StopExecutor([result EXCEPT !.cancelled = TRUE], hydraulics,
                          Settled(quality, "Cancelled"))
       \/ /\ ~requested
          /\ pc' = "validateQuality"
          /\ collector' = {}
          /\ quality' = [quality EXCEPT ![phase].state = "Running"]
          /\ UNCHANGED <<hydraulics, result, noticed>>

ValidateQuality ==
    /\ pc = "validateQuality"
    /\ \/ /\ pc' = "configureQuality"
          /\ checkpoint' = Checkpoint
          /\ UNCHANGED <<phase, quality, result, emitted>>
       \/ LET failure == {Diag("Error", "Configure")} IN
          /\ Record(failure)
          /\ FailChild(quality[phase], failure)
          /\ UNCHANGED checkpoint
    /\ UNCHANGED <<request, requested, project, collector, file, prepared, hydraulics, msx,
                   noticed>>

ConfigureQuality ==
    /\ pc = "configureQuality"
    /\ \E success \in BOOLEAN : \E ds \in Remarks(success, "Configure") :
         /\ success => ~HasError(ds)
         /\ Record(ds)
         /\ project' = project \o SetToSeq(ds)
         /\ LET child == [quality[phase] EXCEPT !.diags = SinceCheckpoint(@)] IN
            IF success
            THEN pc' = "solveQuality" /\ CurrentChild(child) /\ UNCHANGED <<phase, result>>
            ELSE FailChild(child, {Diag("Error", "Configure")})
    /\ UNCHANGED <<request, requested, artifacts, hydraulics, msx, noticed>>

(* Errors go to the child's timeline as they happen, the toolkit's         *)
(* warnings to the project and from there to the child.                    *)
QualityReturn(o) ==
    LET warnings == {d \in o.diags : d.severity = "Warning"} IN
    /\ Record(o.diags)
    /\ project' = project \o SetToSeq(warnings)
    /\ collector' = collector \union {phase}
    /\ LET list  == SinceCheckpoint(quality[phase].diags \union (o.diags \ warnings))
           child == [quality[phase] EXCEPT !.success = o.success, !.nonempty = o.nonempty,
                       !.complete = o.complete, !.diags = list]
       IN
       \/ /\ o.cancelled \/ requested
          /\ noticed' = TRUE
          /\ StopExecutor(
               [result EXCEPT !.cancelled = TRUE, !.diags = AppendAll(@, list)],
               hydraulics,
               Settled([quality EXCEPT ![phase] =
                          [child EXCEPT !.state = "Cancelled", !.report = collector',
                                        !.validity = CancelledValidity(o.nonempty)]],
                       "Cancelled"))
       \/ /\ ~o.cancelled /\ ~requested
          /\ pc' = "reportQuality"
          /\ CurrentChild([child EXCEPT !.validity = FinalValidity(list, o.nonempty)])
          /\ UNCHANGED <<hydraulics, result, noticed>>

SolveQuality ==
    /\ pc = "solveQuality"
    /\ \/ requested /\ QualityReturn(NotStarted)
       \/ /\ ~requested
          /\ pc' = "solvingQuality"
          /\ UNCHANGED <<project, collector, hydraulics, quality, result, noticed, emitted>>
    /\ UNCHANGED <<phase, request, requested, checkpoint, file, prepared, msx>>

SolvedQuality ==
    /\ pc = "solvingQuality"
    /\ \E o \in QualityOutcomes : (o.cancelled => requested) /\ QualityReturn(o)
    /\ UNCHANGED <<phase, request, requested, checkpoint, file, prepared, msx>>

(* A child that failed still gets its report, and its state from both.     *)
ReportQuality ==
    /\ pc = "reportQuality"
    /\ \E reported \in BOOLEAN : \E ds \in Remarks(reported, "GenerateReport") :
         LET child   == quality[phase]
             success == child.success /\ reported
             list    == AppendAll(child.diags, ds)
         IN  /\ Record(ds)
             /\ NextChild([child EXCEPT !.success = success, !.diags = list, !.report = collector,
                                        !.validity = FinalValidity(list, child.nonempty),
                                        !.state = CompletedState(success, list)],
                          [result EXCEPT !.success = @ /\ success])
    /\ UNCHANGED <<request, requested, project, artifacts, hydraulics, msx, noticed>>

FinishExecutor ==
    /\ pc = "nextChild"
    /\ phase = Len(quality) + 1
    /\ UNCHANGED <<phase, request, requested, project, artifacts, msx, noticed, emitted>>
    /\ StopExecutor([result EXCEPT !.diags = AppendFrom(@, project, 1)], hydraulics, quality)

-----------------------------------------------------------------------------
(* EpanetRunner::run after the executor. *)

CanRunMultiSpecies == request.msx /\ ~result.cancelled /\ hydraulics.success /\ file

SettleMultiSpecies ==
    /\ pc = "multiSpecies"
    /\ ~CanRunMultiSpecies
    /\ pc' = "returned"
    /\ msx' = SettledMsx(IF result.cancelled THEN "Cancelled" ELSE "Skipped")
    /\ UNCHANGED <<phase, request, requested, project, artifacts, hydraulics, quality,
                   result, noticed, emitted>>

StartMultiSpecies ==
    /\ pc = "multiSpecies"
    /\ CanRunMultiSpecies
    /\ pc' = "runMultiSpecies"
    /\ phase' = MultiSpecies
    /\ msx' = "Running"
    /\ UNCHANGED <<request, requested, project, artifacts, hydraulics, quality, result,
                   noticed, emitted>>

(* The run's state is not that of the executor any more only if the        *)
(* multi-species run was cancelled or failed.                              *)
RunMultiSpecies ==
    /\ pc = "runMultiSpecies"
    /\ pc' = "returned"
    /\ \E o \in MultiSpeciesOutcomes :
         LET res == [result EXCEPT !.diags = AppendAll(@, o.diags)] IN
         /\ o.cancelled => requested
         /\ Record(o.diags)
         /\ \/ /\ requested
               /\ noticed' = TRUE
               /\ msx' = "Cancelled"
               /\ result' = [res EXCEPT !.cancelled = TRUE, !.state = "Cancelled"]
            \/ /\ ~requested /\ ~o.success
               /\ msx' = "Error"
               /\ result' = [res EXCEPT !.success = FALSE, !.state = "Error"]
               /\ UNCHANGED noticed
            \/ /\ ~requested /\ o.success
               /\ msx' = "Success"
               /\ result' = res
               /\ UNCHANGED noticed
    /\ UNCHANGED <<phase, request, requested, project, artifacts, hydraulics, quality>>

Next ==
    \/ RequestCancel
    \/ EntryPoll \/ ValidateMsx \/ Prepare \/ Prepared
    \/ ConfigureHydraulics \/ SolveHydraulics \/ SolvedHydraulics
    \/ SaveHydraulics \/ SavedHydraulics \/ ReportHydraulics
    \/ SkipChild \/ StartChild \/ ValidateQuality \/ ConfigureQuality
    \/ SolveQuality \/ SolvedQuality \/ ReportQuality \/ FinishExecutor
    \/ SettleMultiSpecies \/ StartMultiSpecies \/ RunMultiSpecies

Spec == Init /\ [][Next]_vars

-----------------------------------------------------------------------------
(* Properties. *)

Terminal == RunStates \ {"Pending", "Running"}

(* Whichever of its many returns a run takes, every part of its result has *)
(* a final state; the run is cancelled exactly when one of its polls saw   *)
(* the request, what came after the cancelled part is cancelled too, and   *)
(* children are skipped only for want of hydraulics.                       *)
Settlement ==
    pc = "returned" =>
        /\ result.state \in Terminal \ {"Skipped"}
        /\ \A i \in DOMAIN quality : quality[i].state \in Terminal
        /\ msx \in Terminal \union {"Absent"}
        /\ result.state = "Cancelled" <=> noticed
        /\ result.cancelled <=> noticed
        /\ ~noticed => msx # "Cancelled" /\ \A i \in DOMAIN quality : quality[i].state # "Cancelled"
        /\ \A i, k \in DOMAIN quality :
              i < k /\ quality[i].state = "Cancelled" => quality[k].state = "Cancelled"
        /\ \A i \in DOMAIN quality :
              request.quality[i] = "Active" /\ quality[i].state = "Skipped" => ~hydraulics.success

(* A run that says Success has everything that was asked for: the complete *)
(* hydraulics, every active child, the multi-species run, and nothing to   *)
(* report; and a run that failed says so in its state.                     *)
SuccessMeansEverything ==
    pc = "returned" =>
        /\ result.state = "Success" =>
             /\ result.success /\ result.diags = {}
             /\ hydraulics.success /\ hydraulics.complete /\ hydraulics.validity = "Valid"
             /\ \A i \in DOMAIN quality : request.quality[i] = "Active" =>
                  /\ quality[i].state = "Success" /\ quality[i].success
                  /\ quality[i].complete /\ quality[i].validity = "Valid"
             /\ request.msx => msx = "Success"
        /\ ~result.success => result.state \in {"Error", "Cancelled"}
        /\ result.state = "Error" => HasError(result.diags)

(* The children of a run share one project, one list of diagnostics and    *)
(* one report collector; still each timeline has only the diagnostics of   *)
(* its own phase, and each report only its own lines.                      *)
KeptApart ==
    /\ hydraulics.diags \subseteq emitted[Preparing] \union emitted[Hydraulics]
    /\ prepared => hydraulics.diags \subseteq emitted[Hydraulics]
    /\ \A i \in DOMAIN quality :
         /\ quality[i].diags \subseteq emitted[i]
         /\ quality[i].report # Unreported => quality[i].report \subseteq {i}
    /\ hydraulics.report # Unreported => hydraulics.report \subseteq {Hydraulics}

(* No diagnostic gets lost: whatever any step of a run diagnosed is in the *)
(* list of the result in the end.  (The status of a hydraulic failure that *)
(* nobody diagnosed yet when the run is found cancelled is no diagnostic.) *)
NothingLost ==
    pc = "returned" =>
        \A p \in Phases : \A d \in emitted[p] : \E e \in result.diags : Equivalent(d, e)

(* Valid hydraulics stay valid, whatever fails or is cancelled afterwards. *)
HydraulicsKept == [][hydraulics.validity = "Valid" => hydraulics'.validity = "Valid"]_vars

Contract == INSTANCE RunContract WITH
    solved    <- hydraulics.validity = "Valid",
    children  <- [i \in DOMAIN quality |-> quality[i].state],
    msx       <- msx,
    cancelled <- result.cancelled,
    over      <- pc = "returned"

(* The run keeps the contract about the order and the fate of its parts.   *)
KeepsContract == Contract!Spec

=============================================================================
