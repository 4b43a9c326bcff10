--------------------------- MODULE MsxProofs ---------------------------------
(***************************************************************************)
(* The multi-species stage: the runs that share the toolkit, and the model *)
(* that is validated and written down for it.                              *)
(*                                                                         *)
(* Any number of concurrent multi-species runs, for any bound on the times *)
(* MSXstep reports.  The inductive invariant is the mutual exclusion of    *)
(* the runs that hold the mutex with what each of them has open at each    *)
(* place, and what a run's timeline says on its way to the end.            *)
(*                                                                         *)
(* Two results for every model.                                            *)
(*                                                                         *)
(* The search for circular terms is right: a cycle that is reported is     *)
(* one, and a search that reports none has met no knot.  The inductive     *)
(* invariant is the one of depth-first search: the terms with state 1 are  *)
(* those on the stack, each a dependency of the one below it; what a term  *)
(* on the stack has examined is done with, but for the term above it; and  *)
(* the terms that are done refer to terms that are done, and hold no knot. *)
(* A term that is done as the last of a knot would have left a smaller     *)
(* knot among the others.                                                  *)
(*                                                                         *)
(* And a model that passes the validation is written down whole.  What is  *)
(* said of the text is said of each section first (Fine), from what the    *)
(* checks found nothing wrong with, and then of sections put together; the *)
(* inductive invariant is that a model without a failure has passed the    *)
(* checks so far, and that the text is the sections so far.                *)
(***************************************************************************)
EXTENDS MsxProject, MsxModel, TLAPS, FiniteSetTheorems, SequenceTheorems, WellFoundedInduction

(* EpanetMsxProject::run *)

BeforeSteps == {"entry", "prepare", "ready", "lock", "enopen", "open", "load", "resolve",
                "init"}
Closing     == {"close", "enclose", "finish"}

Exclusive == \A r \in Runs : pc[r] \in Locked <=> holder = r

(* What the run that holds the mutex has open.                             *)
Opened ==
    \A r \in Runs :
        /\ pc[r] = "enopen" => project = NoRun /\ loaded = NoRun
        /\ pc[r] = "open" => project = r /\ loaded = NoRun
        /\ pc[r] \in InSession => project = r /\ loaded = r
        /\ pc[r] = "enclose" => project = r /\ loaded = NoRun
        /\ pc[r] = "finish" => project = NoRun /\ loaded = NoRun

(* No time is accepted twice, so no more results than times.               *)
Counted(r) == timeline[r].results <= timeline[r].previous + 1

Waited(r) ==
    early[r] => /\ requested[r]
                /\ pc[r] \notin {"step", "sampled", "again"}
                /\ timeline[r].results = 0

Underway(r) ==
    LET t == timeline[r] IN
    /\ pc[r] # "returned" => t.success /\ t.validity = "NotRun"
    /\ t.failure = "none" <=> t.diags = {}
    /\ \A d \in t.diags : d.severity \in {"Error", "Fatal"}
    /\ t.cancelled => requested[r]
    /\ pc[r] \notin Closing \union {"returned"} => t.failure = "none" /\ ~t.cancelled
    /\ pc[r] \in BeforeSteps => t.results = 0
    /\ pc[r] \in BeforeSteps \union {"top", "step"} => ~t.complete
    /\ pc[r] \in {"sampled", "again"} => (t.complete <=> t.left = 0)
    /\ t.complete => t.results > 0
    /\ pc[r] \in Closing => t.cancelled \/ t.complete \/ t.failure = "RunQuality"

Honest(r) ==
    pc[r] = "returned" =>
        LET t == timeline[r] IN
        /\ t.validity = "Valid"   => t.complete /\ ~t.cancelled
        /\ t.validity = "Partial" => t.results > 0
        /\ t.validity \in {"NotRun", "Invalid"} => t.results = 0
        /\ t.validity = "NotRun"  => t.cancelled
        /\ t.cancelled => requested[r] /\ t.success
        /\ t.success /\ ~t.cancelled => t.validity = "Valid" /\ ~HasError(t.diags)
        /\ ~t.success => HasError(t.diags)

(* The invariant of one run, and that of them all.                         *)
RunInv(r) == Counted(r) /\ Waited(r) /\ Underway(r) /\ Honest(r)

IInv ==
    /\ TypeOK
    /\ Exclusive
    /\ Opened
    /\ LeftClean
    /\ \A r \in Runs : RunInv(r)

-----------------------------------------------------------------------------
(* What the updates of a timeline keep and change. *)

LEMMA FailedTimeline ==
  ASSUME NEW t \in Timelines, NEW severity \in {"Error", "Fatal"},
         NEW stage \in {"RunQuality", "CloseQuality"}
  PROVE  /\ Failed(t, severity, stage) \in Timelines
         /\ Failed(t, severity, stage).diags # {}
         /\ \A d \in Failed(t, severity, stage).diags :
              d \in t.diags \/ d.severity = severity
         /\ Failed(t, severity, stage).failure
              = (IF t.failure = "none" THEN stage ELSE t.failure)
         /\ Failed(t, severity, stage).results = t.results
         /\ Failed(t, severity, stage).previous = t.previous
         /\ Failed(t, severity, stage).left = t.left
         /\ Failed(t, severity, stage).cancelled = t.cancelled
         /\ Failed(t, severity, stage).complete = t.complete
         /\ Failed(t, severity, stage).success = t.success
         /\ Failed(t, severity, stage).validity = t.validity
<1> DEFINE d  == [severity |-> severity, stage |-> stage]
           ds == t.diags \union {d}
           fl == IF t.failure = "none" THEN stage ELSE t.failure
<1>1. /\ ds \in SUBSET [severity : Severities, stage : {"RunQuality", "CloseQuality"}]
      /\ fl \in {"none", "RunQuality", "CloseQuality"}
  BY DEF Timelines, Severities
<1>2. ds # {} /\ \A x \in ds : x \in t.diags \/ x.severity = severity
  <2>1. d.severity = severity
    OBVIOUS
  <2> HIDE DEF d
  <2>2. QED
    BY <2>1
<1>3. Failed(t, severity, stage) = [t EXCEPT !.diags = ds, !.failure = fl]
  BY DEF Failed
<1> HIDE DEF ds, fl
<1>4. /\ [t EXCEPT !.diags = ds, !.failure = fl] \in Timelines
      /\ [t EXCEPT !.diags = ds, !.failure = fl].diags = ds
      /\ [t EXCEPT !.diags = ds, !.failure = fl].failure = fl
  BY <1>1 DEF Timelines
<1>5. QED
  BY <1>2, <1>3, <1>4 DEF fl, Timelines

LEMMA AbandonedTimeline ==
  ASSUME NEW r \in Runs, TypeOK, Abandon(r)
  PROVE  /\ pc' = [pc EXCEPT ![r] = "returned"]
         /\ timeline' = [timeline EXCEPT ![r] = timeline'[r]]
         /\ timeline'[r] \in Timelines
         /\ timeline'[r].diags # {}
         /\ \A d \in timeline'[r].diags : d \in timeline[r].diags \/ d.severity = "Fatal"
         /\ ~timeline'[r].success
         /\ timeline'[r].validity = "Invalid"
         /\ timeline'[r].cancelled = timeline[r].cancelled
         /\ timeline'[r].results = timeline[r].results
         /\ timeline'[r].previous = timeline[r].previous
         /\ timeline'[r].complete = timeline[r].complete
         /\ timeline'[r].failure # "none"
<1> DEFINE f == Failed(timeline[r], "Fatal", "RunQuality")
<1>1. timeline[r] \in Timelines /\ DOMAIN timeline = Runs
  BY DEF TypeOK
<1>2. /\ f \in Timelines /\ f.diags # {}
      /\ \A d \in f.diags : d \in timeline[r].diags \/ d.severity = "Fatal"
      /\ f.cancelled = timeline[r].cancelled /\ f.results = timeline[r].results
      /\ f.previous = timeline[r].previous /\ f.complete = timeline[r].complete
      /\ f.failure # "none"
  BY <1>1, FailedTimeline
<1> HIDE DEF f
<1>3. timeline' = [timeline EXCEPT ![r] =
                    [f EXCEPT !.success = FALSE, !.validity = "Invalid"]]
  BY DEF Abandon, f
<1>4. timeline'[r] = [f EXCEPT !.success = FALSE, !.validity = "Invalid"]
  BY <1>1, <1>3
<1>5. QED
  BY <1>2, <1>3, <1>4 DEF Abandon, Goto, Timelines, Validities

(* The shape of a run's step: it moves that run and its timeline only.     *)
Moves(r) ==
    /\ pc' = [pc EXCEPT ![r] = pc'[r]]
    /\ pc'[r] \in Places
    /\ timeline' = [timeline EXCEPT ![r] = timeline'[r]]
    /\ timeline'[r] \in Timelines
    /\ fault' \in [Runs -> BOOLEAN]
    /\ UNCHANGED <<requested, disabled, early>>

(* What such a step leaves to be shown: the invariant of the run that      *)
(* moved, and the toolkit's.                                               *)
LEMMA MovesKeepTheOthers ==
  ASSUME IInv, NEW r \in Runs, Moves(r), RunInv(r)',
         {holder', project', loaded'} \subseteq Runs \union {NoRun}
  PROVE  TypeOK' /\ \A q \in Runs : RunInv(q)'
<1>1. TypeOK'
  BY DEF Moves, IInv, TypeOK
<1>2. ASSUME NEW q \in Runs, q # r PROVE RunInv(q)'
  <2>1. /\ pc'[q] = pc[q] /\ timeline'[q] = timeline[q]
        /\ requested'[q] = requested[q] /\ early'[q] = early[q]
    BY <1>2 DEF Moves, IInv, TypeOK
  <2>2. RunInv(q)
    BY DEF IInv
  <2>3. QED
    BY <2>1, <2>2 DEF RunInv, Counted, Waited, Underway, Honest
<1>3. QED
  BY <1>1, <1>2

(* A step that stays on its side of the critical section, and leaves the   *)
(* toolkit as it is.                                                       *)
LEMMA ToolkitUntouched ==
  ASSUME IInv, NEW r \in Runs, Moves(r), UNCHANGED toolkit,
         \/ pc[r] \notin Locked /\ pc'[r] \notin Locked
         \/ pc[r] \in InSession /\ pc'[r] \in InSession
  PROVE  Exclusive' /\ Opened' /\ LeftClean'
<1>1. \A q \in Runs : pc'[q] = IF q = r THEN pc'[r] ELSE pc[q]
  BY DEF Moves, IInv, TypeOK
<1>2. InSession \subseteq Locked /\ {"enopen", "open", "enclose", "finish"} \subseteq Locked
      /\ \A p \in InSession : p \notin {"enopen", "open", "enclose", "finish"}
  BY DEF Locked, InSession
<1>3. QED
  BY <1>1, <1>2 DEF IInv, Exclusive, Opened, LeftClean, toolkit

(* Leaving the critical section with everything closed.                    *)
LEMMA ToolkitReturned ==
  ASSUME IInv, NEW r \in Runs, Moves(r), pc[r] \in Locked, pc'[r] = "returned",
         holder' = NoRun, project' = NoRun, loaded' = NoRun
  PROVE  Exclusive' /\ Opened' /\ LeftClean'
<1>1. \A q \in Runs : pc'[q] = IF q = r THEN pc'[r] ELSE pc[q]
  BY DEF Moves, IInv, TypeOK
<1>2. \A q \in Runs : q # r => pc[q] \notin Locked
  BY DEF IInv, Exclusive
<1>3. \A q \in Runs : pc'[q] \notin Locked
  BY <1>1, <1>2 DEF Locked, InSession
<1>4. \A q \in Runs : pc'[q] \notin {"enopen", "open", "enclose", "finish"} \union InSession
  BY <1>3 DEF Locked
<1>5. QED
  BY <1>3, <1>4, RunsAssumption DEF Exclusive, Opened, LeftClean

(* The step of the one run inside the critical section.                    *)
LEMMA ToolkitHeld ==
  ASSUME IInv, NEW r \in Runs, Moves(r), pc[r] \in Locked \/ holder = NoRun,
         pc'[r] \in Locked, holder' = r,
         pc'[r] = "enopen" => project' = NoRun /\ loaded' = NoRun,
         pc'[r] = "open" => project' = r /\ loaded' = NoRun,
         pc'[r] \in InSession => project' = r /\ loaded' = r,
         pc'[r] = "enclose" => project' = r /\ loaded' = NoRun,
         pc'[r] = "finish" => project' = NoRun /\ loaded' = NoRun
  PROVE  Exclusive' /\ Opened' /\ LeftClean'
<1>1. \A q \in Runs : pc'[q] = IF q = r THEN pc'[r] ELSE pc[q]
  BY DEF Moves, IInv, TypeOK
<1>2. \A q \in Runs : q # r => pc[q] \notin Locked
  BY RunsAssumption DEF IInv, Exclusive
<1>3. \A q \in Runs : q # r => pc'[q] \notin Locked
  BY <1>1, <1>2
<1>4. \A q \in Runs : q # r =>
        pc'[q] \notin {"enopen", "open", "enclose", "finish"} \union InSession
  BY <1>3 DEF Locked
<1>5. QED
  BY <1>1, <1>3, <1>4, RunsAssumption DEF Exclusive, Opened, LeftClean

-----------------------------------------------------------------------------
(* Every step of a run moves that run and keeps its invariant. *)

LEMMA RunFacts ==
  ASSUME IInv, NEW r \in Runs
  PROVE  /\ pc[r] \in Places /\ timeline[r] \in Timelines
         /\ timeline = [timeline EXCEPT ![r] = timeline[r]]
         /\ fault \in [Runs -> BOOLEAN]
         /\ [fault EXCEPT ![r] = TRUE] \in [Runs -> BOOLEAN]
         /\ Counted(r) /\ Waited(r) /\ Underway(r) /\ Honest(r)
         /\ {holder, project, loaded} \subseteq Runs \union {NoRun}
BY DEF IInv, TypeOK, RunInv

(* A run that only moves on keeps its invariant.                           *)
LEMMA MovesOn ==
  ASSUME IInv, NEW r \in Runs, timeline'[r] = timeline[r],
         UNCHANGED <<requested, early>>,
         \/ /\ pc[r] \in BeforeSteps /\ pc'[r] \in BeforeSteps \union {"top"}
         \/ /\ pc[r] \in {"close", "enclose"} /\ pc'[r] \in {"enclose", "finish"}
         \/ /\ pc[r] = "again"
            /\ pc'[r] = IF timeline[r].left > 0 THEN "top" ELSE "close"
  PROVE  RunInv(r)'
<1>1. timeline[r].left \in 0 .. 1
  BY RunFacts DEF Timelines
<1>2. Counted(r)' /\ Waited(r)'
  BY RunFacts DEF Counted, Waited, BeforeSteps
<1>3. pc'[r] # "returned"
  BY DEF BeforeSteps
<1>4. Honest(r)'
  BY <1>3 DEF Honest
<1>5. Underway(r)'
  <2>1. CASE pc[r] \in BeforeSteps /\ pc'[r] \in BeforeSteps \union {"top"}
    BY <2>1, RunFacts DEF Underway, BeforeSteps, Closing
  <2>2. CASE pc[r] \in {"close", "enclose"} /\ pc'[r] \in {"enclose", "finish"}
    BY <2>2, RunFacts DEF Underway, BeforeSteps, Closing
  <2>3. CASE pc[r] = "again" /\ pc'[r] = IF timeline[r].left > 0 THEN "top" ELSE "close"
    <3>1. timeline[r].complete <=> timeline[r].left = 0
      BY <2>3, RunFacts DEF Underway
    <3>2. CASE timeline[r].left > 0
      <4>1. pc'[r] = "top" /\ ~timeline[r].complete
        BY <1>1, <2>3, <3>1, <3>2
      <4>2. QED
        BY <2>3, <4>1, RunFacts DEF Underway, BeforeSteps, Closing
    <3>3. CASE timeline[r].left = 0
      <4>1. pc'[r] = "close" /\ timeline[r].complete
        BY <2>3, <3>1, <3>3
      <4>2. QED
        BY <2>3, <4>1, RunFacts DEF Underway, BeforeSteps, Closing
    <3>4. QED
      BY <1>1, <3>2, <3>3
  <2>4. QED
    BY <2>1, <2>2, <2>3
<1>6. QED
  BY <1>2, <1>4, <1>5 DEF RunInv

(* A run that gives up before the first step.                              *)
LEMMA GivesUp ==
  ASSUME IInv, NEW r \in Runs, Abandon(r), pc[r] \in BeforeSteps,
         fault' \in [Runs -> BOOLEAN], UNCHANGED <<requested, disabled, early>>
  PROVE  Moves(r) /\ RunInv(r)' /\ pc'[r] = "returned"
<1> DEFINE t == timeline'[r]
<1>1. /\ pc' = [pc EXCEPT ![r] = "returned"]
      /\ timeline' = [timeline EXCEPT ![r] = t] /\ t \in Timelines
      /\ t.diags # {}
      /\ \A d \in t.diags : d \in timeline[r].diags \/ d.severity = "Fatal"
      /\ ~t.success /\ t.validity = "Invalid" /\ t.failure # "none"
      /\ t.cancelled = timeline[r].cancelled /\ t.results = timeline[r].results
      /\ t.previous = timeline[r].previous /\ t.complete = timeline[r].complete
  BY AbandonedTimeline DEF IInv
<1>2. pc[r] # "returned" /\ pc[r] \notin Closing /\ "returned" \in Places
      /\ "returned" \notin BeforeSteps \union Closing \union {"top", "step"}
  BY DEF BeforeSteps, Closing, Places
<1>3. Moves(r) /\ pc'[r] = "returned"
  <2>1. pc \in [Runs -> Places]
    BY DEF IInv, TypeOK
  <2>2. pc'[r] = "returned"
    BY <1>1, <2>1
  <2>3. QED
    BY <1>1, <1>2, <2>2 DEF Moves
<1>4. ~t.cancelled /\ t.results = 0 /\ ~t.complete
  BY <1>1, <1>2, RunFacts DEF Underway
<1>5. timeline[r].diags = {}
  BY <1>2, RunFacts DEF Underway
<1>6. \A d \in t.diags : d.severity = "Fatal"
  BY <1>1, <1>5
<1> HIDE DEF t
<1>7. HasError(t.diags)
  BY <1>1, <1>6 DEF HasError
<1>8. Counted(r)' /\ Waited(r)'
  BY <1>1, <1>3, RunFacts DEF Counted, Waited, t
<1>9. Underway(r)' /\ Honest(r)'
  BY <1>1, <1>2, <1>3, <1>4, <1>6, <1>7 DEF Underway, Honest, t
<1>10. QED
  BY <1>3, <1>8, <1>9 DEF RunInv

(* A timeline that differs from the run's own in the time and what is left. *)
SteppedFrom(r, t) ==
    LET u == timeline[r] IN
    /\ t.results = u.results /\ t.previous >= u.previous
    /\ t.diags = u.diags /\ t.failure = u.failure
    /\ t.cancelled = u.cancelled /\ t.complete = u.complete
    /\ t.success = u.success /\ t.validity = u.validity

(* A run that ends because a step failed, or whose closing fails.          *)
LEMMA StopsFailed ==
  ASSUME IInv, NEW r \in Runs,
         NEW t \in Timelines, NEW severity \in {"Error", "Fatal"},
         NEW stage \in {"RunQuality", "CloseQuality"}, NEW p \in Closing,
         \/ pc[r] = "step" /\ stage = "RunQuality"
         \/ pc[r] \in {"close", "enclose"},
         pc' = [pc EXCEPT ![r] = p],
         timeline' = [timeline EXCEPT ![r] = Failed(t, severity, stage)],
         SteppedFrom(r, t),
         fault' \in [Runs -> BOOLEAN], UNCHANGED <<requested, disabled, early>>
  PROVE  Moves(r) /\ RunInv(r)' /\ pc'[r] = p
<1> DEFINE f == Failed(t, severity, stage)
<1>1. /\ f \in Timelines /\ f.diags # {}
      /\ \A d \in f.diags : d \in timeline[r].diags \/ d.severity = severity
      /\ f.failure = (IF timeline[r].failure = "none" THEN stage ELSE timeline[r].failure)
      /\ f.results = timeline[r].results /\ f.previous = t.previous
      /\ f.cancelled = timeline[r].cancelled /\ f.complete = timeline[r].complete
      /\ f.success = timeline[r].success /\ f.validity = timeline[r].validity
      /\ t.previous >= timeline[r].previous
  BY FailedTimeline DEF SteppedFrom
<1> HIDE DEF f
<1>2. p \in Places /\ p # "returned" /\ pc[r] # "returned"
      /\ p \notin BeforeSteps \union {"top", "step", "sampled", "again"}
  BY DEF Closing, Places, Locked, InSession, BeforeSteps
<1>3. Moves(r) /\ pc'[r] = p /\ timeline'[r] = f
  <2>1. pc \in [Runs -> Places] /\ timeline \in [Runs -> Timelines]
    BY DEF IInv, TypeOK
  <2>2. timeline' = [timeline EXCEPT ![r] = f]
    BY DEF f
  <2>3. pc'[r] = p /\ timeline'[r] = f
    BY <2>1, <2>2
  <2>4. QED
    BY <1>1, <1>2, <2>2, <2>3 DEF Moves
<1>4. Counted(r)'
  <2>1. /\ timeline[r].results \in Int /\ timeline[r].previous \in Int
        /\ t.previous \in Int
    BY RunFacts, RunsAssumption DEF Timelines, Unset
  <2>2. QED
    BY <1>1, <1>3, <2>1, RunFacts DEF Counted
<1>5. Waited(r)'
  BY <1>1, <1>2, <1>3, RunFacts DEF Waited
<1>6. f.failure # "none"
  BY <1>1
<1>7. \A d \in f.diags : d.severity \in {"Error", "Fatal"}
  BY <1>1, RunFacts DEF Underway
<1>8. f.cancelled \/ f.complete \/ f.failure = "RunQuality"
  <2>1. CASE pc[r] = "step"
    <3>1. timeline[r].failure = "none"
      BY <2>1, RunFacts DEF Underway, Closing
    <3>2. QED
      BY <1>1, <2>1, <3>1
  <2>2. CASE pc[r] \in {"close", "enclose"}
    BY <1>1, <2>2, RunFacts DEF Underway, Closing
  <2>3. QED
    BY <2>1, <2>2
<1>9. f.success /\ f.validity = "NotRun" /\ (f.cancelled => requested[r])
      /\ (f.complete => f.results > 0)
  BY <1>1, <1>2, RunFacts DEF Underway
<1>10. Underway(r)'
  BY <1>1, <1>2, <1>3, <1>6, <1>7, <1>8, <1>9 DEF Underway
<1>11. Honest(r)'
  BY <1>2, <1>3 DEF Honest
<1>12. QED
  BY <1>3, <1>4, <1>5, <1>10, <1>11 DEF RunInv

LEMMA StopsAsItIs ==
  ASSUME IInv, NEW r \in Runs, NEW severity \in {"Error", "Fatal"},
         NEW stage \in {"RunQuality", "CloseQuality"}, NEW p \in Closing,
         \/ pc[r] = "step" /\ stage = "RunQuality"
         \/ pc[r] \in {"close", "enclose"},
         pc' = [pc EXCEPT ![r] = p],
         timeline' = [timeline EXCEPT ![r] = Failed(timeline[r], severity, stage)],
         fault' \in [Runs -> BOOLEAN], UNCHANGED <<requested, disabled, early>>
  PROVE  Moves(r) /\ RunInv(r)' /\ pc'[r] = p
<1>1. PICK t \in Timelines : t = timeline[r]
  BY RunFacts
<1>2. timeline' = [timeline EXCEPT ![r] = Failed(t, severity, stage)]
  BY <1>1
<1>3. t.previous >= t.previous
  BY RunsAssumption DEF Timelines, Unset
<1>4. SteppedFrom(r, t)
  BY <1>1, <1>3 DEF SteppedFrom
<1>5. QED
  BY <1>2, <1>4, StopsFailed

-----------------------------------------------------------------------------
(* The steps. *)

LEMMA InvInit == Init => IInv
<1> SUFFICES ASSUME Init PROVE IInv
  OBVIOUS
<1> DEFINE t0 == [cancelled |-> FALSE, previous |-> Unset, left |-> 1, results |-> 0,
                  failure |-> "none", diags |-> {}, success |-> TRUE,
                  validity |-> "NotRun", complete |-> FALSE]
<1>1. t0 \in Timelines
  BY RunsAssumption DEF Timelines, Validities, Unset
<1>2. \A r \in Runs : pc[r] = "entry" /\ timeline[r] = t0 /\ ~early[r]
  BY DEF Init
<1>3. TypeOK
  BY <1>1 DEF Init, TypeOK, Places
<1>4. \A r \in Runs : RunInv(r)
  <2> SUFFICES ASSUME NEW r \in Runs PROVE RunInv(r)
    OBVIOUS
  <2>1. t0.results <= t0.previous + 1
    BY DEF Unset
  <2>2. QED
    BY <1>2, <2>1 DEF RunInv, Counted, Waited, Underway, Honest, Closing
<1>5. Exclusive /\ Opened /\ LeftClean
  BY <1>2, RunsAssumption
     DEF Init, Exclusive, Opened, LeftClean, Locked, InSession
<1>6. QED
  BY <1>3, <1>4, <1>5 DEF IInv

LEMMA InvRequest ==
  ASSUME IInv, NEW r \in Runs, RequestCancel(r)
  PROVE  IInv'
<1>1. requested[r] = FALSE /\ pc[r] # "returned" /\ UNCHANGED <<pc, timeline, toolkit>>
  BY DEF RequestCancel, IInv, TypeOK
<1>2. TypeOK'
  BY DEF RequestCancel, IInv, TypeOK, toolkit
<1>3. \A q \in Runs : requested[q] => requested'[q]
  BY DEF RequestCancel, IInv, TypeOK
<1>4. \A q \in Runs : early'[q] => early[q] \/ (q = r /\ requested'[r]
                        /\ pc[r] \in {"entry", "prepare", "ready", "lock"})
  BY DEF RequestCancel, IInv, TypeOK
<1>5. ASSUME NEW q \in Runs PROVE RunInv(q)'
  <2>1. Counted(q)' /\ Underway(q)' /\ Honest(q)'
    BY <1>1, <1>3, RunFacts DEF Counted, Underway, Honest
  <2>2. Waited(q)'
    <3>1. CASE early[q]
      BY <3>1, <1>1, <1>3, RunFacts DEF Waited
    <3>2. CASE early'[q] /\ ~early[q]
      <4>1. q = r /\ requested'[r] /\ pc[r] \in BeforeSteps
            /\ pc[r] \notin {"step", "sampled", "again"}
        BY <1>4, <3>2 DEF BeforeSteps
      <4>2. timeline[r].results = 0
        BY <4>1, RunFacts DEF Underway
      <4>3. QED
        BY <1>1, <4>1, <4>2 DEF Waited
    <3>3. QED
      BY <3>1, <3>2 DEF Waited
  <2>3. QED
    BY <2>1, <2>2 DEF RunInv
<1>6. Exclusive' /\ Opened' /\ LeftClean'
  BY <1>1 DEF IInv, Exclusive, Opened, LeftClean, toolkit
<1>7. QED
  BY <1>2, <1>5, <1>6 DEF IInv

LEMMA InvEnter ==
  ASSUME IInv, NEW r \in Runs,
         Poll(r) \/ Prepare(r) \/ Lock(r) \/ OpenProject(r) \/ OpenModel(r)
  PROVE  IInv'
<1>0. DOMAIN PollPoints = {"entry", "ready", "top", "sampled"}
  BY DEF PollPoints
<1>1. CASE Poll(r)
  <2>1. pc[r] \in {"entry", "ready", "top", "sampled"}
    BY <1>0, <1>1 DEF Poll
  <2> DEFINE p == IF requested[r] THEN PollPoints[pc[r]].exit ELSE PollPoints[pc[r]].next
             t == [timeline[r] EXCEPT !.cancelled = requested[r]]
  <2>2. p \in Places /\ t \in Timelines
    <3>1. requested[r] \in BOOLEAN
      BY DEF IInv, TypeOK
    <3>2. t \in Timelines
      BY <3>1, RunFacts DEF Timelines
    <3>3. p \in Places
      BY <2>1 DEF PollPoints, Places, Locked, InSession
    <3>4. QED
      BY <3>2, <3>3
  <2>3. /\ t.cancelled = requested[r]
        /\ t.results = timeline[r].results /\ t.previous = timeline[r].previous
        /\ t.left = timeline[r].left /\ t.failure = timeline[r].failure
        /\ t.diags = timeline[r].diags /\ t.success = timeline[r].success
        /\ t.validity = timeline[r].validity /\ t.complete = timeline[r].complete
    BY RunFacts DEF Timelines
  <2>4. /\ pc[r] = "entry"   => p = IF requested[r] THEN "returned" ELSE "prepare"
        /\ pc[r] = "ready"   => p = IF requested[r] THEN "returned" ELSE "lock"
        /\ pc[r] = "top"     => p = IF requested[r] THEN "close" ELSE "step"
        /\ pc[r] = "sampled" => p = IF requested[r] THEN "close" ELSE "again"
    BY DEF PollPoints
  <2>5. pc' = [pc EXCEPT ![r] = p] /\ timeline' = [timeline EXCEPT ![r] = t]
        /\ UNCHANGED <<requested, disabled, toolkit, history>>
    BY <1>1 DEF Poll, Goto
  <2> HIDE DEF p, t
  <2>6. pc'[r] = p /\ timeline'[r] = t
    BY <2>5 DEF IInv, TypeOK
  <2>7. Moves(r)
    BY <2>2, <2>5, <2>6, RunFacts DEF Moves, history
  <2>8. RunInv(r)'
    <3>1. Counted(r)' /\ UNCHANGED <<early, requested>>
      BY <2>3, <2>5, <2>6, RunFacts DEF Counted, history
    <3>2. Waited(r)'
      BY <2>1, <2>3, <2>4, <2>6, <3>1, RunFacts DEF Waited
    <3>3. Underway(r)'
      BY <2>1, <2>3, <2>4, <2>6, <3>1, RunFacts DEF Underway, BeforeSteps, Closing
    <3>4. Honest(r)'
      <4> SUFFICES ASSUME p = "returned"
                   PROVE  /\ t.validity = "NotRun" /\ t.results = 0
                          /\ t.cancelled /\ requested[r] /\ t.success
        BY <2>6, <3>1 DEF Honest
      <4>1. pc[r] \in {"entry", "ready"} /\ requested[r]
        BY <2>1, <2>4
      <4>2. QED
        BY <2>3, <4>1, RunFacts DEF Underway, BeforeSteps
    <3>5. QED
      BY <3>1, <3>2, <3>3, <3>4 DEF RunInv
  <2>9. Exclusive' /\ Opened' /\ LeftClean'
    BY <2>1, <2>4, <2>5, <2>6, <2>7, ToolkitUntouched DEF Locked, InSession
  <2>10. {holder', project', loaded'} \subseteq Runs \union {NoRun}
    BY <2>5, RunFacts DEF toolkit
  <2>11. QED
    BY <2>7, <2>8, <2>9, <2>10, MovesKeepTheOthers DEF IInv
<1>2. CASE Prepare(r)
  <2>1. pc[r] = "prepare" /\ UNCHANGED <<requested, disabled, toolkit, early>>
    BY <1>2 DEF Prepare
  <2>2. pc[r] \in BeforeSteps /\ "ready" \in BeforeSteps /\ "ready" \in Places
    BY <2>1 DEF BeforeSteps, Places
  <2>3. Moves(r) /\ RunInv(r)' /\ pc'[r] \in {"ready", "returned"}
    <3>1. CASE Abandon(r) /\ Faulty(r)
      BY <2>1, <2>2, <3>1, GivesUp, RunFacts DEF Faulty
    <3>2. CASE Goto(r, "ready") /\ UNCHANGED <<timeline, fault>>
      <4>1. pc'[r] = "ready" /\ timeline'[r] = timeline[r]
        BY <3>2 DEF Goto, IInv, TypeOK
      <4>2. Moves(r)
        BY <2>1, <2>2, <3>2, <4>1, RunFacts DEF Moves, Goto
      <4>3. QED
        BY <2>1, <2>2, <4>1, <4>2, MovesOn
    <3>3. QED
      BY <1>2, <3>1, <3>2 DEF Prepare
  <2>4. Exclusive' /\ Opened' /\ LeftClean'
    BY <2>1, <2>3, ToolkitUntouched DEF Locked, InSession
  <2>5. {holder', project', loaded'} \subseteq Runs \union {NoRun}
    BY <2>1, RunFacts DEF toolkit
  <2>6. QED
    BY <2>3, <2>4, <2>5, MovesKeepTheOthers DEF IInv
<1>3. CASE Lock(r)
  <2>1. /\ pc[r] = "lock" /\ pc[r] \in BeforeSteps /\ "enopen" \in BeforeSteps
        /\ "enopen" \in Places /\ holder = NoRun /\ holder' = r
        /\ UNCHANGED <<requested, disabled, project, loaded, timeline, history>>
        /\ pc' = [pc EXCEPT ![r] = "enopen"]
    BY <1>3 DEF Lock, Goto, BeforeSteps, Places, Locked
  <2>2. pc'[r] = "enopen" /\ timeline'[r] = timeline[r]
    BY <2>1 DEF IInv, TypeOK
  <2>3. Moves(r)
    BY <2>1, <2>2, RunFacts DEF Moves, history
  <2>4. RunInv(r)'
    BY <2>1, <2>2, MovesOn DEF history
  <2>5. project = NoRun /\ loaded = NoRun
    BY <2>1 DEF IInv, LeftClean
  <2>6. Exclusive' /\ Opened' /\ LeftClean'
    BY <2>1, <2>2, <2>3, <2>5, ToolkitHeld DEF Locked, InSession
  <2>7. {holder', project', loaded'} \subseteq Runs \union {NoRun}
    BY <2>1, RunFacts
  <2>8. QED
    BY <2>3, <2>4, <2>6, <2>7, MovesKeepTheOthers DEF IInv
<1>4. CASE OpenProject(r) \/ OpenModel(r)
  <2>1. /\ pc[r] \in {"enopen", "open"} /\ pc[r] \in BeforeSteps /\ pc[r] \in Locked
        /\ {"open", "load"} \subseteq BeforeSteps /\ {"open", "load"} \subseteq Places
        /\ UNCHANGED <<requested, disabled, early>>
    BY <1>4 DEF OpenProject, OpenModel, BeforeSteps, Places, Locked, InSession
  <2>2. /\ holder = r /\ loaded = NoRun /\ r # NoRun
        /\ pc[r] = "enopen" => project = NoRun
        /\ pc[r] = "open" => project = r
    BY <2>1, RunsAssumption DEF IInv, Exclusive, Opened
  <2>3. CASE Abandon(r) /\ Faulty(r)
    <3>1. Moves(r) /\ RunInv(r)' /\ pc'[r] = "returned"
      BY <2>1, <2>3, GivesUp, RunFacts DEF Faulty
    <3>2. holder' = NoRun /\ project' = NoRun /\ loaded' = NoRun
      <4>1. CASE OpenProject(r)
        <5>1. pc[r] = "enopen" /\ pc'[r] # "open" /\ UNCHANGED loaded
          BY <4>1, <3>1 DEF OpenProject
        <5>2. Release(r) /\ UNCHANGED project
          <6>1. \/ Goto(r, "open")
                \/ Release(r) /\ UNCHANGED project
            BY <4>1 DEF OpenProject
          <6>2. Goto(r, "open") => pc'[r] = "open"
            BY DEF Goto, IInv, TypeOK
          <6>3. QED
            BY <5>1, <6>1, <6>2
        <5>3. QED
          BY <2>2, <5>1, <5>2 DEF Release
      <4>2. CASE OpenModel(r)
        <5>1. Release(r) /\ project' = NoRun /\ UNCHANGED loaded
          <6>1. \/ Goto(r, "load")
                \/ Release(r) /\ project' = NoRun /\ UNCHANGED loaded
            BY <4>2 DEF OpenModel
          <6>2. Goto(r, "load") => pc'[r] = "load"
            BY DEF Goto, IInv, TypeOK
          <6>3. QED
            BY <3>1, <6>1, <6>2
        <5>2. QED
          BY <2>2, <5>1 DEF Release
      <4>3. QED
        BY <1>4, <4>1, <4>2
    <3>3. Exclusive' /\ Opened' /\ LeftClean'
      BY <2>1, <3>1, <3>2, ToolkitReturned
    <3>4. {holder', project', loaded'} \subseteq Runs \union {NoRun}
      BY <3>2
    <3>5. QED
      BY <3>1, <3>3, <3>4, MovesKeepTheOthers DEF IInv
  <2>4. CASE ~(Abandon(r) /\ Faulty(r))
    <3>1. /\ UNCHANGED <<holder, timeline, fault>>
          /\ \/ pc[r] = "enopen" /\ Goto(r, "open") /\ project' = r /\ UNCHANGED loaded
             \/ pc[r] = "open" /\ Goto(r, "load") /\ loaded' = r /\ UNCHANGED project
      BY <1>4, <2>4 DEF OpenProject, OpenModel
    <3>2. PICK p \in {"open", "load"} : Goto(r, p) /\ (p = "open" <=> pc[r] = "enopen")
      BY <3>1
    <3>3. pc'[r] = p /\ timeline'[r] = timeline[r]
      BY <3>1, <3>2 DEF Goto, IInv, TypeOK
    <3>4. Moves(r)
      BY <2>1, <3>1, <3>2, <3>3, RunFacts DEF Moves, Goto
    <3>5. RunInv(r)'
      BY <2>1, <3>3, MovesOn
    <3>6. Exclusive' /\ Opened' /\ LeftClean'
      BY <2>1, <2>2, <3>1, <3>2, <3>3, <3>4, ToolkitHeld DEF Locked, InSession
    <3>7. {holder', project', loaded'} \subseteq Runs \union {NoRun}
      BY <2>2, <3>1
    <3>8. QED
      BY <3>4, <3>5, <3>6, <3>7, MovesKeepTheOthers DEF IInv
  <2>5. QED
    BY <2>3, <2>4
<1>5. QED
  BY <1>1, <1>2, <1>3, <1>4

LEMMA InvLoad ==
  ASSUME IInv, NEW r \in Runs, Load(r) \/ Resolve(r) \/ InitMsx(r)
  PROVE  IInv'
<1>1. /\ pc[r] \in {"load", "resolve", "init"} /\ UNCHANGED <<requested, disabled, early>>
      /\ pc[r] \in BeforeSteps /\ pc[r] \in InSession /\ pc[r] \in Locked
      /\ fault' \in [Runs -> BOOLEAN]
  BY RunFacts DEF Load, Resolve, InitMsx, Faulty, history, BeforeSteps, Locked, InSession
<1>2. CASE GiveUp(r)
  <2>1. Moves(r) /\ RunInv(r)' /\ pc'[r] = "returned"
    BY <1>1, <1>2, GivesUp DEF GiveUp
  <2>2. holder = r
    BY <1>1 DEF IInv, Exclusive
  <2>3. holder' = NoRun /\ project' = NoRun /\ loaded' = NoRun
    BY <1>2, <2>2 DEF GiveUp, CloseAll, Release
  <2>4. Exclusive' /\ Opened' /\ LeftClean'
    BY <1>1, <2>1, <2>3, ToolkitReturned
  <2>5. {holder', project', loaded'} \subseteq Runs \union {NoRun}
    BY <2>3
  <2>6. QED
    BY <2>1, <2>4, <2>5, MovesKeepTheOthers DEF IInv
<1>3. CASE ~GiveUp(r)
  <2>1. PICK p \in {"resolve", "init", "top"} :
          /\ Goto(r, p) /\ UNCHANGED <<toolkit, timeline>>
          /\ p = "top" \/ p \in BeforeSteps
          /\ p \in InSession /\ p \in Places
    BY <1>1, <1>3 DEF Load, Resolve, InitMsx, BeforeSteps, InSession, Locked, Places
  <2>2. pc'[r] = p /\ timeline'[r] = timeline[r]
    BY <2>1 DEF Goto, IInv, TypeOK
  <2>3. Moves(r)
    BY <1>1, <2>1, <2>2, RunFacts DEF Moves, Goto
  <2>4. RunInv(r)'
    BY <1>1, <2>1, <2>2, MovesOn
  <2>5. Exclusive' /\ Opened' /\ LeftClean'
    BY <1>1, <2>1, <2>2, <2>3, ToolkitUntouched
  <2>6. {holder', project', loaded'} \subseteq Runs \union {NoRun}
    BY <2>1, RunFacts DEF toolkit
  <2>7. QED
    BY <2>3, <2>4, <2>5, <2>6, MovesKeepTheOthers DEF IInv
<1>4. QED
  BY <1>2, <1>3

(* The step that adds a result.                                            *)
LEMMA StepRead ==
  ASSUME IInv, NEW r \in Runs, NEW t \in 0 .. MaxTime, NEW left \in 0 .. 1,
         pc[r] = "step", ~NotAdvanced(r, t), Goto(r, "sampled"), UNCHANGED fault,
         timeline' = [timeline EXCEPT ![r] =
           [[timeline[r] EXCEPT !.previous = t, !.left = left]
              EXCEPT !.results = @ + 1, !.complete = (left = 0)]],
         UNCHANGED <<requested, disabled, early>>
  PROVE  Moves(r) /\ RunInv(r)' /\ pc'[r] = "sampled"
<1> DEFINE u == timeline[r]
           n == u.results + 1
           c == (left = 0)
           f == [u EXCEPT !.previous = t, !.left = left, !.results = n, !.complete = c]
<1>1. /\ u \in Timelines /\ u.results \in Nat /\ u.previous \in Int
      /\ u.results <= u.previous + 1 /\ MaxTime \in Nat
  BY RunFacts, RunsAssumption DEF Timelines, Unset, Counted
<1>2. u.previous < 0 \/ u.previous < t
  BY <1>1 DEF NotAdvanced
<1>3. n \in 0 .. MaxTime + 1 /\ n <= t + 1 /\ n > 0
  BY <1>1, <1>2
<1>4. c \in BOOLEAN /\ (c <=> left = 0) /\ t \in Unset .. MaxTime
  BY DEF Unset
<1>5. timeline' = [timeline EXCEPT ![r] = f]
  BY <1>1 DEF Timelines
<1> HIDE DEF n, c
<1>6. /\ f \in Timelines /\ f.previous = t /\ f.left = left /\ f.results = n
      /\ (f.complete <=> left = 0) /\ f.cancelled = u.cancelled /\ f.failure = u.failure
      /\ f.diags = u.diags /\ f.success = u.success /\ f.validity = u.validity
  BY <1>1, <1>3, <1>4 DEF Timelines
<1> HIDE DEF f
<1>7. pc'[r] = "sampled" /\ timeline'[r] = f
  BY <1>5 DEF Goto, IInv, TypeOK
<1>8. "sampled" \in Places /\ "sampled" \notin Closing \union {"returned"}
      /\ "sampled" \notin BeforeSteps \union {"top", "step"}
      /\ "step" \notin Closing \union {"returned"}
  BY DEF Places, Locked, InSession, Closing, BeforeSteps
<1>9. Moves(r)
  BY <1>5, <1>6, <1>7, <1>8, RunFacts DEF Moves, Goto
<1>10. Counted(r)' /\ Waited(r)' /\ Honest(r)'
  BY <1>3, <1>6, <1>7, RunFacts DEF Counted, Waited, Honest
<1>11. Underway(r)'
  BY <1>3, <1>6, <1>7, <1>8, RunFacts DEF Underway
<1>12. QED
  BY <1>7, <1>9, <1>10, <1>11 DEF RunInv

LEMMA InvSimulate ==
  ASSUME IInv, NEW r \in Runs, StepFails(r) \/ Step(r) \/ Again(r)
  PROVE  IInv'
<1>1. /\ pc[r] \in {"step", "again"} /\ pc[r] \in InSession
      /\ UNCHANGED <<requested, disabled, early, toolkit>>
  BY DEF StepFails, Step, Again, InSession, history
<1>2. {"sampled", "top", "close"} \subseteq InSession /\ "close" \in Closing
      /\ {"sampled", "top", "close"} \subseteq Places
  BY DEF InSession, Closing, Places, Locked
<1>3. Moves(r) /\ RunInv(r)' /\ pc'[r] \in {"sampled", "top", "close"}
  <2>1. CASE StepFails(r)
    <3>1. pc[r] = "step" /\ pc' = [pc EXCEPT ![r] = "close"]
          /\ timeline' = [timeline EXCEPT ![r] = Failed(timeline[r], "Fatal", "RunQuality")]
          /\ fault' \in [Runs -> BOOLEAN]
      BY <2>1, RunFacts DEF StepFails, Goto, Faulty
    <3>2. QED
      BY <1>1, <1>2, <3>1, StopsAsItIs
  <2>2. CASE Step(r)
    <3>1. PICK t \in 0 .. MaxTime, left \in 0 .. 1 :
            LET stepped == [timeline[r] EXCEPT !.previous = t, !.left = left] IN
            \/ /\ NotAdvanced(r, t)
               /\ Goto(r, "close") /\ Faulty(r)
               /\ timeline' = [timeline EXCEPT ![r] = Failed(@, "Fatal", "RunQuality")]
            \/ /\ ~NotAdvanced(r, t)
               /\ Goto(r, "sampled") /\ UNCHANGED fault
               /\ timeline' = [timeline EXCEPT ![r] =
                    [stepped EXCEPT !.results = @ + 1, !.complete = (left = 0)]]
            \/ /\ ~NotAdvanced(r, t)
               /\ Goto(r, "close") /\ Faulty(r)
               /\ timeline' = [timeline EXCEPT ![r] = Failed(stepped, "Error", "RunQuality")]
      BY <2>2 DEF Step
    <3> DEFINE stepped == [timeline[r] EXCEPT !.previous = t, !.left = left]
    <3>2. pc[r] = "step"
      BY <2>2 DEF Step
    <3>3. /\ t \in Unset .. MaxTime /\ timeline[r] \in Timelines
          /\ timeline[r].previous \in Int
      BY RunFacts, RunsAssumption DEF Timelines, Unset
    <3>4. CASE NotAdvanced(r, t) /\ Goto(r, "close") /\ Faulty(r)
               /\ timeline' = [timeline EXCEPT ![r] = Failed(@, "Fatal", "RunQuality")]
      <4>1. pc' = [pc EXCEPT ![r] = "close"]
            /\ timeline' = [timeline EXCEPT ![r] = Failed(timeline[r], "Fatal", "RunQuality")]
            /\ fault' \in [Runs -> BOOLEAN]
        BY <3>4, RunFacts DEF Goto, Faulty
      <4>2. QED
        BY <1>1, <1>2, <3>2, <4>1, StopsAsItIs
    <3>5. CASE /\ ~NotAdvanced(r, t)
               /\ Goto(r, "sampled") /\ UNCHANGED fault
               /\ timeline' = [timeline EXCEPT ![r] =
                    [stepped EXCEPT !.results = @ + 1, !.complete = (left = 0)]]
      BY <1>1, <3>2, <3>5, StepRead
    <3>6. CASE /\ ~NotAdvanced(r, t) /\ Goto(r, "close") /\ Faulty(r)
               /\ timeline' = [timeline EXCEPT ![r] = Failed(stepped, "Error", "RunQuality")]
      <4>1. /\ stepped \in Timelines /\ stepped.previous = t
            /\ stepped.results = timeline[r].results /\ stepped.diags = timeline[r].diags
            /\ stepped.failure = timeline[r].failure
            /\ stepped.cancelled = timeline[r].cancelled
            /\ stepped.complete = timeline[r].complete
            /\ stepped.success = timeline[r].success
            /\ stepped.validity = timeline[r].validity
        BY <3>3 DEF Timelines
      <4>2. stepped.previous >= timeline[r].previous
        BY <3>3, <3>6, <4>1 DEF NotAdvanced
      <4>3. pc' = [pc EXCEPT ![r] = "close"] /\ fault' \in [Runs -> BOOLEAN]
            /\ timeline' = [timeline EXCEPT ![r] = Failed(stepped, "Error", "RunQuality")]
        BY <3>6, RunFacts DEF Goto, Faulty
      <4> HIDE DEF stepped
      <4>4. SteppedFrom(r, stepped)
        BY <4>1, <4>2 DEF SteppedFrom
      <4>5. QED
        BY <1>1, <1>2, <3>2, <4>1, <4>3, <4>4, StopsFailed
    <3>7. QED
      BY <3>1, <3>4, <3>5, <3>6
  <2>3. CASE Again(r)
    <3>1. pc[r] = "again" /\ UNCHANGED <<timeline, history>>
          /\ Goto(r, IF timeline[r].left > 0 THEN "top" ELSE "close")
      BY <2>3 DEF Again
    <3>2. pc'[r] = (IF timeline[r].left > 0 THEN "top" ELSE "close")
          /\ timeline'[r] = timeline[r]
      BY <3>1 DEF Goto, IInv, TypeOK
    <3>3. Moves(r)
      BY <1>1, <1>2, <3>1, <3>2, RunFacts DEF Moves, Goto, history
    <3>4. QED
      BY <1>1, <3>1, <3>2, <3>3, MovesOn
  <2>4. QED
    BY <2>1, <2>2, <2>3
<1>4. Exclusive' /\ Opened' /\ LeftClean'
  BY <1>1, <1>2, <1>3, ToolkitUntouched
<1>5. {holder', project', loaded'} \subseteq Runs \union {NoRun}
  BY <1>1, RunFacts DEF toolkit
<1>6. QED
  BY <1>3, <1>4, <1>5, MovesKeepTheOthers DEF IInv

LEMMA FinalTimelineIsHonest ==
  ASSUME IInv, NEW r \in Runs, pc[r] = "finish"
  PROVE  LET f == FinalTimeline(timeline[r]) IN
         /\ f \in Timelines
         /\ f.results = timeline[r].results /\ f.previous = timeline[r].previous
         /\ f.failure = timeline[r].failure /\ f.diags = timeline[r].diags
         /\ f.cancelled = timeline[r].cancelled /\ f.complete = timeline[r].complete
         /\ f.validity = "Valid" => f.complete /\ ~f.cancelled
         /\ f.validity = "Partial" => f.results > 0
         /\ f.validity \in {"NotRun", "Invalid"} => f.results = 0
         /\ f.validity = "NotRun" => f.cancelled
         /\ f.cancelled => f.success
         /\ f.success /\ ~f.cancelled => f.validity = "Valid" /\ f.failure = "none"
         /\ ~f.success => f.failure # "none"
<1> DEFINE t  == timeline[r]
           ok == t.cancelled \/ t.failure = "none"
           v  == IF t.cancelled THEN (IF t.results = 0 THEN "NotRun" ELSE "Partial")
                 ELSE IF t.failure = "none" THEN "Valid"
                 ELSE IF t.results = 0 THEN "Invalid"
                 ELSE IF t.failure = "CloseQuality" THEN "Valid"
                 ELSE "Partial"
           f  == [t EXCEPT !.success = ok, !.validity = v]
<1>1. /\ t \in Timelines /\ t.results \in Nat /\ t.cancelled \in BOOLEAN
      /\ t.complete \in BOOLEAN /\ t.failure \in {"none", "RunQuality", "CloseQuality"}
      /\ t.cancelled \/ t.complete \/ t.failure = "RunQuality"
      /\ t.complete => t.results > 0
  BY RunFacts DEF Timelines, Underway, Closing
<1>2. FinalTimeline(t) = f
  BY DEF FinalTimeline
<1>3. /\ v = "Valid" => t.complete /\ ~t.cancelled
      /\ v = "Partial" => t.results > 0
      /\ v \in {"NotRun", "Invalid"} => t.results = 0
      /\ v = "NotRun" => t.cancelled
      /\ t.cancelled => ok
      /\ ok /\ ~t.cancelled => v = "Valid" /\ t.failure = "none"
      /\ ~ok => t.failure # "none"
      /\ v \in Validities /\ ok \in BOOLEAN
  BY <1>1 DEF Validities
<1> HIDE DEF ok, v
<1>4. /\ f \in Timelines /\ f.validity = v /\ (f.success <=> ok)
      /\ f.results = t.results /\ f.previous = t.previous
      /\ f.failure = t.failure /\ f.diags = t.diags
      /\ (f.cancelled <=> t.cancelled) /\ (f.complete <=> t.complete)
      /\ f.cancelled = t.cancelled /\ f.complete = t.complete
  BY <1>1, <1>3 DEF Timelines
<1> HIDE DEF f
<1>5. QED
  BY <1>2, <1>3, <1>4

LEMMA InvClose ==
  ASSUME IInv, NEW r \in Runs, CloseModel(r) \/ CloseProject(r) \/ Finish(r)
  PROVE  IInv'
<1>1. /\ pc[r] \in {"close", "enclose", "finish"} /\ pc[r] \in Locked
      /\ UNCHANGED <<requested, disabled, early>> /\ holder = r /\ r # NoRun
      /\ {"enclose", "finish"} \subseteq Closing /\ {"enclose", "finish"} \subseteq Locked
      /\ {"enclose", "finish", "returned"} \subseteq Places
      /\ "enclose" \notin InSession /\ "finish" \notin InSession
  BY RunsAssumption DEF CloseModel, CloseProject, Finish, history, Locked, InSession,
                        IInv, Exclusive, Closing, Places
<1>2. /\ pc[r] = "close" => project = r
      /\ pc[r] = "enclose" => loaded = NoRun
      /\ pc[r] = "finish" => project = NoRun /\ loaded = NoRun
  BY DEF IInv, Opened, InSession
<1>3. CASE CloseModel(r) \/ CloseProject(r)
  <2>1. PICK p \in {"enclose", "finish"} :
          /\ pc' = [pc EXCEPT ![r] = p]
          /\ pc[r] \in {"close", "enclose"}
          /\ p = "enclose" => project' = r /\ loaded' = NoRun
          /\ p = "finish" => project' = NoRun /\ loaded' = NoRun
          /\ UNCHANGED holder
    BY <1>2, <1>3 DEF CloseModel, CloseProject, Goto
  <2>2. pc'[r] = p
    BY <2>1 DEF IInv, TypeOK
  <2>3. Moves(r) /\ RunInv(r)'
    <3>1. CASE UNCHANGED <<timeline, fault>>
      <4>1. Moves(r)
        BY <1>1, <2>1, <2>2, <3>1, RunFacts DEF Moves
      <4>2. RunInv(r)'
        BY <1>1, <2>1, <2>2, <3>1, MovesOn
      <4>3. QED
        BY <4>1, <4>2
    <3>2. CASE ~UNCHANGED <<timeline, fault>>
      <4>1. timeline' = [timeline EXCEPT ![r] = Failed(timeline[r], "Error", "CloseQuality")]
            /\ fault' \in [Runs -> BOOLEAN]
        BY <1>3, <3>2, RunFacts DEF CloseModel, CloseProject, Faulty
      <4>2. QED
        BY <1>1, <2>1, <4>1, StopsAsItIs
    <3>3. QED
      BY <3>1, <3>2
  <2>4. Exclusive' /\ Opened' /\ LeftClean'
    BY <1>1, <2>1, <2>2, <2>3, ToolkitHeld
  <2>5. {holder', project', loaded'} \subseteq Runs \union {NoRun}
    BY <1>1, <2>1
  <2>6. QED
    BY <2>3, <2>4, <2>5, MovesKeepTheOthers DEF IInv
<1>4. CASE Finish(r)
  <2> DEFINE t == timeline[r]
             f == FinalTimeline(t)
  <2>1. /\ pc[r] = "finish" /\ pc' = [pc EXCEPT ![r] = "returned"]
        /\ timeline' = [timeline EXCEPT ![r] = f] /\ Release(r)
        /\ UNCHANGED <<project, loaded, fault>>
    BY <1>4 DEF Finish, Goto, history
  <2>2. pc'[r] = "returned" /\ timeline'[r] = f
    BY <2>1 DEF IInv, TypeOK
  <2>3. /\ f \in Timelines
        /\ f.results = t.results /\ f.previous = t.previous
        /\ f.failure = t.failure /\ f.diags = t.diags
        /\ f.cancelled = t.cancelled /\ f.complete = t.complete
        /\ f.validity = "Valid" => f.complete /\ ~f.cancelled
        /\ f.validity = "Partial" => f.results > 0
        /\ f.validity \in {"NotRun", "Invalid"} => f.results = 0
        /\ f.validity = "NotRun" => f.cancelled
        /\ f.cancelled => f.success
        /\ f.success /\ ~f.cancelled => f.validity = "Valid" /\ f.failure = "none"
        /\ ~f.success => f.failure # "none"
    BY <2>1, FinalTimelineIsHonest
  <2>4. /\ f.failure = "none" <=> f.diags = {}
        /\ \A d \in f.diags : d.severity \in {"Error", "Fatal"}
        /\ f.cancelled => requested[r]
        /\ f.complete => f.results > 0
    BY <2>1, <2>3, RunFacts DEF Underway
  <2>5. HasError(f.diags) <=> f.failure # "none"
    BY <2>4 DEF HasError
  <2>6. t.results <= t.previous + 1
    BY RunFacts DEF Counted
  <2> HIDE DEF f
  <2>7. Moves(r)
    BY <1>1, <2>1, <2>2, <2>3, RunFacts DEF Moves
  <2>8. Counted(r)' /\ Waited(r)'
    BY <1>1, <2>2, <2>3, <2>6, RunFacts DEF Counted, Waited
  <2>9. Underway(r)'
    <3>1. "returned" \notin BeforeSteps \union Closing \union {"top", "step"}
      BY DEF BeforeSteps, Closing
    <3>2. QED
      BY <1>1, <2>2, <2>4, <3>1 DEF Underway
  <2>10. Honest(r)'
    BY <1>1, <2>2, <2>3, <2>4, <2>5 DEF Honest
  <2>11. RunInv(r)'
    BY <2>8, <2>9, <2>10 DEF RunInv
  <2>12. holder' = NoRun /\ project' = NoRun /\ loaded' = NoRun
    BY <1>1, <1>2, <2>1 DEF Release
  <2>13. Exclusive' /\ Opened' /\ LeftClean'
    BY <1>1, <2>2, <2>7, <2>12, ToolkitReturned
  <2>14. {holder', project', loaded'} \subseteq Runs \union {NoRun}
    BY <2>12
  <2>15. QED
    BY <2>7, <2>11, <2>13, <2>14, MovesKeepTheOthers DEF IInv
<1>5. QED
  BY <1>3, <1>4

LEMMA InvStep == IInv /\ [Next]_vars => IInv'
<1> SUFFICES ASSUME IInv, [Next]_vars PROVE IInv'
  OBVIOUS
<1>1. ASSUME NEW r \in Runs, RequestCancel(r) PROVE IInv'
  BY <1>1, InvRequest
<1>2. ASSUME NEW r \in Runs, Perform(r) PROVE IInv'
  BY <1>2, InvEnter, InvLoad, InvSimulate, InvClose DEF Perform
<1>3. CASE UNCHANGED vars
  BY <1>3 DEF vars, IInv, TypeOK, Exclusive, Opened, LeftClean, RunInv, Counted, Waited,
              Underway, Honest
<1>4. QED
  BY <1>1, <1>2, <1>3 DEF Next

LEMMA Inductive == Spec => []IInv
BY InvInit, InvStep, PTL DEF Spec

-----------------------------------------------------------------------------
(* Every state is well typed; in particular no run has more results than   *)
(* there are times for MSXstep to report.                                  *)
THEOREM TypeCorrect == Spec => []TypeOK
<1>1. IInv => TypeOK
  BY DEF IInv
<1>2. QED
  BY <1>1, Inductive, PTL

(* However many runs share the process, a run steps, reads and closes the  *)
(* reaction model it opened itself.                                        *)
THEOREM ModelsAreOwn == Spec => []OwnModel
<1>1. IInv => OwnModel
  BY DEF IInv, Opened, OwnModel
<1>2. QED
  BY <1>1, Inductive, PTL

(* Whenever the mutex is free, no project and no reaction model is open.   *)
THEOREM ToolkitIsLeftClean == Spec => []LeftClean
<1>1. IInv => LeftClean
  BY DEF IInv
<1>2. QED
  BY <1>1, Inductive, PTL

(* What a run returns is what it has.                                      *)
THEOREM TimelinesAreHonest == Spec => []HonestTimeline
<1>1. IInv => HonestTimeline
  BY DEF IInv, RunInv, Honest, HonestTimeline
<1>2. QED
  BY <1>1, Inductive, PTL

(* A run cancelled while it waits for the mutex never adds a result.       *)
THEOREM CancelledWaitersDoNothing == Spec => []CancelledWaiterDoesNothing
<1>1. IInv => CancelledWaiterDoesNothing
  BY DEF IInv, RunInv, Waited, CancelledWaiterDoesNothing
<1>2. QED
  BY <1>1, Inductive, PTL

-----------------------------------------------------------------------------
(* retrieveEpanetMsxText *)

Early == phase \in {"content", "identities", "references", "numerics", "expressions"}

Shape ==
    /\ model \in Models
    /\ DOMAIN dependencies \subseteq TermIds
    /\ states \in [TermIds -> 0 .. 2]
    /\ stack \in Seq([term : TermIds, left : SUBSET KnownSymbols])
    /\ next \in 1 .. Len(model.terms) + 1

DependenciesAreSymbols == \A t \in DOMAIN dependencies : dependencies[t] \in SUBSET KnownSymbols

NothingYet ==
    Early => /\ DOMAIN dependencies = {} /\ stack = <<>> /\ cycle = <<>> /\ next = 1
             /\ \A t \in TermIds : states[t] = 0

OnStack == \A t \in TermIds : states[t] = 1 <=> \E i \in 1 .. Len(stack) : stack[i].term = t

EachOnce ==
    \A i \in 1 .. Len(stack) : \A j \in 1 .. Len(stack) : stack[i].term = stack[j].term => i = j

Chained ==
    \A i \in 1 .. Len(stack) - 1 : stack[i + 1].term \in Dependencies(stack[i].term)
                                   /\ stack[i + 1].term \in DOMAIN dependencies

LeftIsPart == \A i \in 1 .. Len(stack) : stack[i].left \subseteq Dependencies(stack[i].term)

(* What the call at place i of the stack has examined.                     *)
SeenAt(i) == (Dependencies(stack[i].term) \ stack[i].left) \intersect DOMAIN dependencies

ExaminedIsDone ==
    \A i \in 1 .. Len(stack) : \A d \in SeenAt(i) :
        states[d] = 2 \/ (i < Len(stack) /\ d = stack[i + 1].term)

DoneIsClosed ==
    \A t \in TermIds : states[t] = 2 =>
        \A d \in Dependencies(t) \intersect DOMAIN dependencies : states[d] = 2

NoKnotIsDone ==
    \A S \in SUBSET DOMAIN dependencies : (\A t \in S : states[t] = 2) => ~Knot(S)

LoopHasMet == \A i \in 1 .. next - 1 : states[model.terms[i].id] # 0

CycleIsOne ==
    cycle # <<>> =>
        /\ AfterSearch
        /\ Len(cycle) > 1 /\ cycle[1] = cycle[Len(cycle)] /\ Adjacent(cycle)
        /\ \E S \in SUBSET DOMAIN dependencies : Knot(S)

AllIsDone ==
    AfterSearch => cycle # <<>> \/ \A t \in DOMAIN dependencies : states[t] = 2

SearchInv ==
    /\ Shape
    /\ DependenciesAreSymbols
    /\ NothingYet
    /\ OnStack
    /\ EachOnce
    /\ Chained
    /\ LeftIsPart
    /\ ExaminedIsDone
    /\ DoneIsClosed
    /\ NoKnotIsDone
    /\ LoopHasMet
    /\ CycleIsOne
    /\ AllIsDone

-----------------------------------------------------------------------------
(* The terms. *)

LEMMA TermsAreListed ==
  ASSUME model \in Models
  PROVE  /\ model.terms \in Seq(Term) /\ Len(model.terms) \in Nat
         /\ TermIds = {model.terms[k].id : k \in 1 .. Len(model.terms)}
         /\ \A k \in 1 .. Len(model.terms) : model.terms[k] \in Term
<1>1. model.terms \in Seq(Term)
  BY ModelsAssumption DEF Model
<1>2. Len(model.terms) \in Nat /\ DOMAIN model.terms = 1 .. Len(model.terms)
  BY <1>1
<1>3. QED
  BY <1>1, <1>2 DEF TermIds, IdsOf

LEMMA DependenciesOfTerms ==
  ASSUME model \in Models
  PROVE  /\ DOMAIN TermDependencies \subseteq TermIds
         /\ \A t \in DOMAIN TermDependencies : TermDependencies[t] \in SUBSET KnownSymbols
<1>1. DOMAIN TermDependencies = {model.terms[k].id : k \in ValidTerms}
  BY DEF TermDependencies
<1>2. ValidTerms \subseteq DOMAIN model.terms
  BY DEF ValidTerms
<1>3. DOMAIN TermDependencies \subseteq TermIds
  BY <1>1, <1>2 DEF TermIds, IdsOf
<1>4. ASSUME NEW t \in DOMAIN TermDependencies
      PROVE  TermDependencies[t] \subseteq KnownSymbols
  BY <1>1, <1>4 DEF TermDependencies
<1>5. QED
  BY <1>3, <1>4

LEMMA SearchInit == ExportInit => SearchInv
<1> SUFFICES ASSUME ExportInit PROVE SearchInv
  OBVIOUS
<1>1. model \in Models /\ Len(model.terms) \in Nat
  BY TermsAreListed DEF ExportInit
<1>2. Len(stack) = 0 /\ DOMAIN dependencies = {} /\ next = 1 /\ cycle = <<>> /\ Early
  BY DEF ExportInit, Early
<1>3. Shape
  BY <1>1, <1>2 DEF ExportInit, Shape
<1>4. NothingYet /\ OnStack /\ EachOnce /\ DoneIsClosed
  BY <1>2, <1>3 DEF ExportInit, NothingYet, OnStack, EachOnce, DoneIsClosed, Shape
<1>5. DependenciesAreSymbols /\ Chained /\ LeftIsPart /\ ExaminedIsDone /\ LoopHasMet /\ CycleIsOne /\ AllIsDone
  BY <1>2 DEF DependenciesAreSymbols, Chained, LeftIsPart, ExaminedIsDone, LoopHasMet, CycleIsOne, AllIsDone, Early
<1>6. NoKnotIsDone
  BY <1>2 DEF NoKnotIsDone, Knot
<1>7. QED
  BY <1>3, <1>4, <1>5, <1>6 DEF SearchInv

-----------------------------------------------------------------------------
(* What the steps do to the stack. *)

Frames == [term : TermIds, left : SUBSET KnownSymbols]

LEMMA ListIsSequence ==
  ASSUME NEW S, NEW n \in Nat, NEW s, s = [i \in 1 .. n |-> s[i]], \A i \in 1 .. n : s[i] \in S
  PROVE  s \in Seq(S) /\ Len(s) = n
<1>1. s \in [1 .. n -> S]
  OBVIOUS
<1>2. QED
  BY <1>1

LEMMA TopIsExamined ==
  ASSUME stack \in Seq(Frames), stack # <<>>, NEW d
  PROVE  /\ Len(stack) \in Nat \ {0} /\ Examined(d) \in Seq(Frames)
         /\ Len(Examined(d)) = Len(stack)
         /\ \A i \in 1 .. Len(stack) :
               /\ Examined(d)[i].term = stack[i].term
               /\ Examined(d)[i].left = IF i = Len(stack) THEN stack[i].left \ {d} ELSE stack[i].left
<1>1. Len(stack) \in Nat \ {0} /\ DOMAIN stack = 1 .. Len(stack)
  OBVIOUS
<1>2. \A i \in 1 .. Len(stack) : stack[i] \in Frames
  OBVIOUS
<1>3. DOMAIN Examined(d) = 1 .. Len(stack)
  BY <1>1 DEF Examined
<1>4. ASSUME NEW i \in 1 .. Len(stack)
      PROVE  /\ Examined(d)[i].term = stack[i].term
             /\ Examined(d)[i].left = IF i = Len(stack) THEN stack[i].left \ {d} ELSE stack[i].left
             /\ Examined(d)[i] \in Frames
  <2>1. CASE i = Len(stack)
    <3>1. Examined(d)[i] = [term |-> stack[i].term, left |-> stack[i].left \ {d}]
      BY <1>1, <2>1 DEF Examined, Top
    <3>2. stack[i] \in Frames
      BY <1>2
    <3>3. QED
      BY <2>1, <3>1, <3>2 DEF Frames
  <2>2. CASE i # Len(stack)
    BY <1>1, <1>2, <2>2 DEF Examined
  <2>3. QED
    BY <2>1, <2>2
<1>5. Examined(d) = [i \in 1 .. Len(stack) |-> Examined(d)[i]]
  BY <1>1 DEF Examined
<1>6. Examined(d) \in Seq(Frames) /\ Len(Examined(d)) = Len(stack)
  <2>1. \A i \in 1 .. Len(stack) : Examined(d)[i] \in Frames
    BY <1>4
  <2>2. QED
    BY <1>1, <1>5, <2>1, ListIsSequence
<1>7. QED
  BY <1>1, <1>4, <1>6

LEMMA TopIsPopped ==
  ASSUME stack \in Seq(Frames), stack # <<>>
  PROVE  /\ Len(stack) \in Nat \ {0} /\ Popped \in Seq(Frames)
         /\ Len(Popped) = Len(stack) - 1
         /\ \A i \in 1 .. Len(stack) - 1 : Popped[i] = stack[i]
<1>1. Len(stack) \in Nat \ {0}
  OBVIOUS
<1>2. Len(stack) - 1 \in Nat /\ Popped = [i \in 1 .. Len(stack) - 1 |-> Popped[i]]
  BY <1>1 DEF Popped
<1>3. \A i \in 1 .. Len(stack) - 1 : Popped[i] = stack[i] /\ Popped[i] \in Frames
  BY <1>1 DEF Popped
<1>4. QED
  BY <1>1, <1>2, <1>3, ListIsSequence

(* What holds of the terms that are done, as long as none is added.        *)
LEMMA DoneKeeps ==
  ASSUME SearchInv, UNCHANGED <<model, dependencies>>,
         \A t \in TermIds : states'[t] = 2 <=> states[t] = 2
  PROVE  DoneIsClosed' /\ NoKnotIsDone' /\ DependenciesAreSymbols'
<1>1. TermIds' = TermIds /\ KnownSymbols' = KnownSymbols
  BY DEF TermIds, KnownSymbols, Symbols
<1>2. \A t : Dependencies(t)' = Dependencies(t)
  BY DEF Dependencies
<1>3. \A S : Knot(S)' = Knot(S)
  BY <1>2 DEF Knot
<1>4. DOMAIN dependencies \subseteq TermIds
  BY DEF SearchInv, Shape
<1>5. DoneIsClosed'
  BY <1>1, <1>2, <1>4 DEF SearchInv, DoneIsClosed
<1>6. NoKnotIsDone'
  BY <1>3, <1>4 DEF SearchInv, NoKnotIsDone
<1>7. DependenciesAreSymbols'
  BY <1>1 DEF SearchInv, DependenciesAreSymbols
<1>8. QED
  BY <1>5, <1>6, <1>7

(* While the search goes on, the parts about its end say nothing.          *)
LEMMA SearchingKeeps ==
  ASSUME SearchInv, Searching, UNCHANGED <<phase, cycle>>
  PROVE  cycle = <<>> /\ NothingYet' /\ CycleIsOne' /\ AllIsDone'
BY DEF SearchInv, Searching, CycleIsOne, AllIsDone, AfterSearch, NothingYet, Early

-----------------------------------------------------------------------------
(* The steps of the search. *)

LEMMA SameModel ==
  ASSUME UNCHANGED <<model, dependencies>>
  PROVE  /\ TermIds' = TermIds /\ KnownSymbols' = KnownSymbols
         /\ \A t : Dependencies(t)' = Dependencies(t)
BY DEF TermIds, KnownSymbols, Symbols, Dependencies

LEMMA FrameIsFresh ==
  ASSUME SearchInv, NEW t \in TermIds
  PROVE  Frame(t) \in Frames /\ Frame(t).term = t /\ Frame(t).left = Dependencies(t)
BY DEF SearchInv, DependenciesAreSymbols, Frame, Frames, Dependencies

LEMMA Marked ==
  ASSUME NEW S, NEW f \in [S -> 0 .. 2], NEW x \in S, NEW v \in {0, 1, 2}
  PROVE  [f EXCEPT ![x] = v] \in [S -> 0 .. 2]
<1>1. v \in 0 .. 2
  OBVIOUS
<1>2. QED
  BY <1>1

LEMMA InvNextTerm == ASSUME SearchInv, NextTerm PROVE SearchInv'
<1> DEFINE t == model.terms[next].id
<1>1. /\ Searching /\ stack = <<>> /\ next \in 1 .. Len(model.terms) /\ next' = next + 1
      /\ UNCHANGED <<model, phase, dependencies, cycle>> /\ Len(model.terms) \in Nat
  BY TermsAreListed DEF NextTerm, SearchInv, Shape
<1>2. t \in TermIds
  BY <1>1, TermsAreListed DEF SearchInv, Shape
<1>3. NothingYet' /\ CycleIsOne' /\ AllIsDone'
  BY <1>1, SearchingKeeps
<1>4. Len(stack) = 0 /\ \A x \in TermIds : states[x] # 1
  BY <1>1 DEF SearchInv, OnStack
<1>5. TermIds' = TermIds /\ KnownSymbols' = KnownSymbols /\ Frames' = Frames
      /\ \A x : Dependencies(x)' = Dependencies(x)
  BY <1>1, SameModel DEF Frames
<1>6. states \in [TermIds -> 0 .. 2] /\ DOMAIN dependencies \subseteq TermIds
  BY DEF SearchInv, Shape
<1>7. next' \in 1 .. Len(model.terms) + 1 /\ 1 .. next' - 1 = (1 .. next - 1) \union {next}
  BY <1>1
<1>8. CASE states[t] = 0
  <2>1. stack' = <<Frame(t)>> /\ states' = [states EXCEPT ![t] = 1]
    BY <1>8 DEF NextTerm
  <2>2. Frame(t) \in Frames /\ Frame(t).term = t /\ Frame(t).left = Dependencies(t)
    BY <1>2, FrameIsFresh
  <2>3. stack' \in Seq(Frames) /\ Len(stack') = 1 /\ stack'[1] = Frame(t)
    BY <2>1, <2>2
  <2>4. states' \in [TermIds -> 0 .. 2]
    BY <1>2, <1>6, <2>1, Marked
  <2>5. Shape'
    BY <1>1, <1>5, <1>6, <1>7, <2>3, <2>4 DEF SearchInv, Shape, Frames
  <2>6. \A x \in TermIds : states'[x] = 2 <=> states[x] = 2
    BY <1>6, <1>8, <2>1
  <2>7. DoneIsClosed' /\ NoKnotIsDone' /\ DependenciesAreSymbols'
    BY <1>1, <2>6, DoneKeeps
  <2>8. OnStack' /\ EachOnce'
    BY <1>2, <1>4, <1>5, <1>6, <2>1, <2>2, <2>3 DEF OnStack, EachOnce
  <2>9. Chained' /\ LeftIsPart'
    BY <1>5, <2>2, <2>3 DEF Chained, LeftIsPart
  <2>10. ExaminedIsDone'
    BY <1>5, <2>2, <2>3 DEF ExaminedIsDone, SeenAt
  <2>11. LoopHasMet'
    <3>1. \A i \in 1 .. next - 1 : model.terms[i].id \in TermIds /\ states[model.terms[i].id] # 0
      BY <1>1, TermsAreListed DEF SearchInv, LoopHasMet, Shape
    <3>2. QED
      BY <1>1, <1>2, <1>6, <1>7, <2>1, <3>1 DEF LoopHasMet
  <2>12. QED
    BY <1>3, <2>5, <2>7, <2>8, <2>9, <2>10, <2>11 DEF SearchInv
<1>9. CASE states[t] # 0
  <2>1. UNCHANGED <<stack, states>>
    BY <1>9 DEF NextTerm
  <2>2. Shape'
    BY <1>1, <1>5, <1>7, <2>1 DEF SearchInv, Shape
  <2>3. DoneIsClosed' /\ NoKnotIsDone' /\ DependenciesAreSymbols'
    BY <1>1, <2>1, DoneKeeps
  <2>4. OnStack' /\ EachOnce' /\ Chained' /\ LeftIsPart' /\ ExaminedIsDone'
    BY <1>1, <1>4, <1>5, <2>1 DEF SearchInv, OnStack, EachOnce, Chained, LeftIsPart, ExaminedIsDone, SeenAt
  <2>5. LoopHasMet'
    BY <1>1, <1>7, <1>9, <2>1 DEF SearchInv, LoopHasMet
  <2>6. QED
    BY <1>3, <2>2, <2>3, <2>4, <2>5 DEF SearchInv
<1>10. QED
  BY <1>8, <1>9

LEMMA InvSkip == ASSUME SearchInv, Skip PROVE SearchInv'
<1>1. PICK d \in Top.left : ~Undecided(d) /\ stack' = Examined(d)
  BY DEF Skip
<1>2. /\ Searching /\ stack # <<>> /\ stack \in Seq(Frames)
      /\ UNCHANGED <<model, phase, dependencies, states, cycle, next>>
  BY DEF Skip, SearchInv, Shape, Frames
<1>3. NothingYet' /\ CycleIsOne' /\ AllIsDone'
  BY <1>2, SearchingKeeps
<1>4. DoneIsClosed' /\ NoKnotIsDone' /\ DependenciesAreSymbols'
  BY <1>2, DoneKeeps
<1>5. TermIds' = TermIds /\ Frames' = Frames /\ \A x : Dependencies(x)' = Dependencies(x)
  BY <1>2, SameModel DEF Frames
<1>6. /\ Len(stack) \in Nat \ {0} /\ stack' \in Seq(Frames) /\ Len(stack') = Len(stack)
      /\ \A i \in 1 .. Len(stack) :
            /\ stack'[i].term = stack[i].term
            /\ stack'[i].left = IF i = Len(stack) THEN stack[i].left \ {d} ELSE stack[i].left
  BY <1>1, <1>2, TopIsExamined
<1>7. Shape'
  BY <1>2, <1>5, <1>6 DEF SearchInv, Shape, Frames
<1>8. OnStack' /\ EachOnce' /\ Chained' /\ LeftIsPart' /\ LoopHasMet'
  <2>1. OnStack' /\ EachOnce'
    <3>1. \A x \in TermIds : states'[x] = 1 <=> \E i \in 1 .. Len(stack) : stack'[i].term = x
      <4>1. \A x \in TermIds : states'[x] = 1 <=> \E i \in 1 .. Len(stack) : stack[i].term = x
        BY <1>2 DEF SearchInv, OnStack
      <4>2. \A i \in 1 .. Len(stack) : stack'[i].term = stack[i].term
        BY <1>6
      <4>3. QED
        BY <4>1, <4>2
    <3>2. OnStack'
      BY <1>5, <1>6, <3>1 DEF OnStack
    <3>3. EachOnce'
      BY <1>6 DEF SearchInv, EachOnce
    <3>4. QED
      BY <3>2, <3>3
  <2>2. \A i \in 1 .. Len(stack) - 1 : i \in 1 .. Len(stack) /\ i + 1 \in 1 .. Len(stack)
    BY <1>6
  <2>3. Chained'
    BY <1>2, <1>5, <1>6, <2>2 DEF SearchInv, Chained
  <2>4. LeftIsPart'
    BY <1>5, <1>6 DEF SearchInv, LeftIsPart
  <2>5. LoopHasMet'
    BY <1>2 DEF SearchInv, LoopHasMet
  <2>6. QED
    BY <2>1, <2>3, <2>4, <2>5
<1>9. ExaminedIsDone'
  <2>1. d \in DOMAIN dependencies => states[d] = 2
    BY <1>1 DEF Undecided
  <2>2. ASSUME NEW i \in 1 .. Len(stack), NEW x \in SeenAt(i)'
        PROVE  states[x] = 2 \/ (i < Len(stack) /\ x = stack'[i + 1].term)
    <3>1. SeenAt(i)' \subseteq SeenAt(i) \union ({d} \intersect DOMAIN dependencies)
      BY <1>2, <1>5, <1>6 DEF SeenAt
    <3>2. CASE x \in SeenAt(i)
      <4>1. states[x] = 2 \/ (i < Len(stack) /\ x = stack[i + 1].term)
        BY <3>2 DEF SearchInv, ExaminedIsDone
      <4>2. i < Len(stack) => i + 1 \in 1 .. Len(stack)
        BY <1>6
      <4>3. QED
        BY <1>6, <4>1, <4>2
    <3>3. CASE x = d /\ d \in DOMAIN dependencies
      BY <2>1, <3>3
    <3>4. QED
      BY <2>2, <3>1, <3>2, <3>3
  <2>3. QED
    BY <1>2, <1>6, <2>2 DEF ExaminedIsDone
<1>10. QED
  BY <1>3, <1>4, <1>7, <1>8, <1>9 DEF SearchInv

LEMMA SearchEnter == ASSUME SearchInv, Enter PROVE SearchInv'
<1>1. PICK d \in Top.left : /\ Undecided(d) /\ states[d] = 0
                            /\ stack' = Append(Examined(d), Frame(d))
                            /\ states' = [states EXCEPT ![d] = 1]
  BY DEF Enter
<1>2. /\ Searching /\ stack # <<>> /\ stack \in Seq(Frames)
      /\ UNCHANGED <<model, phase, dependencies, cycle, next>>
  BY DEF Enter, SearchInv, Shape, Frames
<1>3. NothingYet' /\ CycleIsOne' /\ AllIsDone'
  BY <1>2, SearchingKeeps
<1>4. states \in [TermIds -> 0 .. 2] /\ d \in DOMAIN dependencies /\ d \in TermIds
  BY <1>1 DEF SearchInv, Shape, Undecided
<1>5. TermIds' = TermIds /\ Frames' = Frames /\ \A x : Dependencies(x)' = Dependencies(x)
  BY <1>2, SameModel DEF Frames
<1>6. DoneIsClosed' /\ NoKnotIsDone' /\ DependenciesAreSymbols'
  <2>1. \A x \in TermIds : states'[x] = 2 <=> states[x] = 2
    BY <1>1, <1>4
  <2>2. QED
    BY <1>2, <2>1, DoneKeeps
<1>7. Frame(d) \in Frames /\ Frame(d).term = d /\ Frame(d).left = Dependencies(d)
  BY <1>4, FrameIsFresh
<1> DEFINE n == Len(stack)
<1>8. /\ n \in Nat \ {0} /\ Examined(d) \in Seq(Frames) /\ Len(Examined(d)) = n
      /\ \A i \in 1 .. n :
            /\ Examined(d)[i].term = stack[i].term
            /\ Examined(d)[i].left = IF i = n THEN stack[i].left \ {d} ELSE stack[i].left
  BY <1>2, TopIsExamined
<1>9. /\ stack' \in Seq(Frames) /\ Len(stack') = n + 1 /\ stack'[n + 1] = Frame(d)
      /\ \A i \in 1 .. n : stack'[i] = Examined(d)[i]
  BY <1>1, <1>7, <1>8
<1>10. Top = stack[n] /\ n \in 1 .. n /\ stack[n] \in Frames
  BY <1>2, <1>8 DEF Top
<1>11. Shape'
  <2>1. states' \in [TermIds -> 0 .. 2]
    BY <1>1, <1>4, Marked
  <2>2. QED
    BY <1>2, <1>5, <1>9, <2>1 DEF SearchInv, Shape, Frames
<1>12. Top.left \subseteq Dependencies(Top.term)
  BY <1>10 DEF SearchInv, LeftIsPart
<1>13. OnStack' /\ EachOnce'
  <2>1. \A i \in 1 .. n : stack[i].term # d /\ stack[i].term \in TermIds
    <3>1. \A i \in 1 .. n : stack[i] \in Frames
      BY <1>2, <1>8
    <3>2. \A i \in 1 .. n : stack[i].term \in TermIds
      BY <3>1 DEF Frames
    <3>3. \A i \in 1 .. n : stack[i].term # d
      BY <1>1, <1>4 DEF SearchInv, OnStack
    <3>4. QED
      BY <3>2, <3>3
  <2>2. \A i \in 1 .. n : stack'[i].term = stack[i].term
    BY <1>8, <1>9
  <2>3. 1 .. n + 1 = (1 .. n) \union {n + 1} /\ stack'[n + 1].term = d
    BY <1>7, <1>8, <1>9
  <2>4. ASSUME NEW x \in TermIds
        PROVE  states'[x] = 1 <=> \E i \in 1 .. n + 1 : stack'[i].term = x
    <3>1. states'[x] = IF x = d THEN 1 ELSE states[x]
      BY <1>1, <1>4
    <3>2. states[x] = 1 <=> \E i \in 1 .. n : stack'[i].term = x
      BY <2>2 DEF SearchInv, OnStack
    <3>3. QED
      BY <2>3, <3>1, <3>2
  <2>5. ASSUME NEW i \in 1 .. n + 1, NEW j \in 1 .. n + 1, stack'[i].term = stack'[j].term
        PROVE  i = j
    <3>1. i \in 1 .. n /\ j \in 1 .. n => stack[i].term = stack[j].term
      BY <2>2, <2>5
    <3>2. i \in 1 .. n /\ j \in 1 .. n => i = j
      BY <3>1 DEF SearchInv, EachOnce
    <3>3. QED
      BY <2>1, <2>2, <2>3, <2>5, <3>2
  <2>6. OnStack'
    BY <1>5, <1>9, <2>4 DEF OnStack
  <2>7. EachOnce'
    BY <1>9, <2>5 DEF EachOnce
  <2>8. QED
    BY <2>6, <2>7
<1>14. Chained' /\ LeftIsPart'
  <2>1. \A i \in 1 .. n : stack'[i].term = stack[i].term /\ stack'[i].left \subseteq stack[i].left
    BY <1>8, <1>9
  <2>2. stack'[n + 1].term = d /\ stack'[n + 1].left = Dependencies(d)
    BY <1>7, <1>9
  <2>3. d \in Dependencies(stack[n].term)
    BY <1>10, <1>12
  <2>4. LeftIsPart'
    BY <1>5, <1>8, <1>9, <2>1, <2>2 DEF SearchInv, LeftIsPart
  <2>5. \A i \in 1 .. n - 1 : i \in 1 .. n /\ i + 1 \in 1 .. n
    BY <1>8
  <2>6. ASSUME NEW i \in 1 .. n
        PROVE  stack'[i + 1].term \in Dependencies(stack'[i].term) /\ stack'[i + 1].term \in DOMAIN dependencies
    <3>1. CASE i = n
      BY <1>4, <1>8, <2>1, <2>2, <2>3, <3>1
    <3>2. CASE i # n
      <4>1. i \in 1 .. n - 1
        BY <1>8, <3>2
      <4>2. QED
        BY <2>1, <2>5, <4>1 DEF SearchInv, Chained
    <3>3. QED
      BY <3>1, <3>2
  <2>7. Chained'
    BY <1>2, <1>5, <1>8, <1>9, <2>6 DEF Chained
  <2>8. QED
    BY <2>4, <2>7
<1>15. ExaminedIsDone'
  <2>1. ASSUME NEW i, i = n + 1
        PROVE  SeenAt(i)' = {}
    BY <1>5, <1>7, <1>9, <2>1 DEF SeenAt
  <2>2. ASSUME NEW i \in 1 .. n, NEW x \in SeenAt(i)'
        PROVE  states'[x] = 2 \/ (i < Len(stack') /\ x = stack'[i + 1].term)
    <3>1. SeenAt(i)' \subseteq SeenAt(i) \union (IF i = n THEN {d} ELSE {})
      BY <1>2, <1>5, <1>8, <1>9 DEF SeenAt
    <3>2. CASE x \in SeenAt(i)
      <4>1. x \in DOMAIN dependencies /\ x \in TermIds
        BY <3>2 DEF SeenAt, SearchInv, Shape
      <4>2. states[x] = 2 => states'[x] = 2
        BY <1>1, <1>4, <4>1
      <4>3. states[x] = 2 \/ (i < n /\ x = stack[i + 1].term)
        BY <3>2 DEF SearchInv, ExaminedIsDone
      <4>4. i < n => stack'[i + 1].term = stack[i + 1].term
        <5>1. i < n => i + 1 \in 1 .. n
          BY <1>8
        <5>2. QED
          BY <1>8, <1>9, <5>1
      <4>5. QED
        BY <1>8, <1>9, <4>2, <4>3, <4>4
    <3>3. CASE x = d /\ i = n
      BY <1>7, <1>8, <1>9, <3>3
    <3>4. QED
      BY <2>2, <3>1, <3>2, <3>3
  <2>3. 1 .. n + 1 = (1 .. n) \union {n + 1}
    BY <1>8
  <2>4. \A i \in 1 .. n + 1 : \A x \in SeenAt(i)' :
           states'[x] = 2 \/ (i < Len(stack') /\ x = stack'[i + 1].term)
    BY <2>1, <2>2, <2>3
  <2>5. QED
    BY <1>9, <2>4 DEF ExaminedIsDone
<1>16. LoopHasMet'
  BY <1>1, <1>2, <1>4 DEF SearchInv, LoopHasMet
<1>17. QED
  BY <1>3, <1>6, <1>11, <1>13, <1>14, <1>15, <1>16 DEF SearchInv

LEMMA NextPlace ==
  ASSUME NEW m \in Nat, NEW i \in 1 .. m - 1, i # m - 1
  PROVE  i + 1 \in 1 .. m - 1
OBVIOUS

LEMMA CycleIsRight ==
  ASSUME SearchInv, stack # <<>>, NEW d \in Top.left, Undecided(d), states[d] = 1
  PROVE  /\ Len(CycleTo(d)) > 1 /\ CycleTo(d)[1] = CycleTo(d)[Len(CycleTo(d))]
         /\ Adjacent(CycleTo(d))
         /\ \E S \in SUBSET DOMAIN dependencies : Knot(S)
<1> DEFINE n == Len(stack)
           start == CHOOSE i \in DOMAIN stack : stack[i].term = d
           m == n - start + 2
           c == CycleTo(d)
<1>1. n \in Nat \ {0} /\ DOMAIN stack = 1 .. n
  BY DEF SearchInv, Shape
<1>2. d \in DOMAIN dependencies /\ d \in TermIds
  BY DEF Undecided, SearchInv, Shape
<1>3. start \in 1 .. n /\ stack[start].term = d
  <2>1. \E i \in DOMAIN stack : stack[i].term = d
    BY <1>1, <1>2 DEF SearchInv, OnStack
  <2>2. QED
    BY <1>1, <2>1
<1>4. d \in Dependencies(stack[n].term)
  BY <1>1 DEF Top, SearchInv, LeftIsPart
<1> HIDE DEF start
<1>5. m \in Nat /\ m > 1 /\ c = [i \in 1 .. m |-> IF i = m THEN d ELSE stack[start + i - 1].term]
  BY <1>1, <1>3 DEF CycleTo, start
<1> HIDE DEF c
<1>6. Len(c) = m /\ c[1] = d /\ c[m] = d
  BY <1>1, <1>3, <1>5
<1>7. \A i \in 1 .. m - 1 : /\ c[i] = stack[start + i - 1].term
                            /\ c[i + 1] = IF i = m - 1 THEN d ELSE stack[start + i].term
  BY <1>1, <1>3, <1>5
<1>8. \A i \in 1 .. m - 1 : c[i + 1] \in Dependencies(c[i]) /\ c[i + 1] \in DOMAIN dependencies
  <2> TAKE i \in 1 .. m - 1
  <2>1. CASE i = m - 1
    <3>1. start + i - 1 = n
      BY <1>1, <1>3, <2>1
    <3>2. QED
      BY <1>2, <1>4, <1>7, <2>1, <3>1
  <2>2. CASE i # m - 1
    <3>1. start + i - 1 \in 1 .. n - 1 /\ start + i = (start + i - 1) + 1
      BY <1>1, <1>3, <2>2
    <3>2. QED
      BY <1>7, <2>2, <3>1 DEF SearchInv, Chained
  <2>3. QED
    BY <2>1, <2>2
<1>9. Adjacent(c)
  BY <1>6, <1>8 DEF Adjacent
<1>10. Knot({c[i] : i \in 1 .. m - 1}) /\ {c[i] : i \in 1 .. m - 1} \in SUBSET DOMAIN dependencies
  <2> DEFINE S == {c[i] : i \in 1 .. m - 1}
  <2>1. c[1] \in S
    BY <1>5
  <2>2. \A i \in 1 .. m - 1 : c[i + 1] \in S
    <3> TAKE i \in 1 .. m - 1
    <3>1. CASE i = m - 1
      <4>1. i + 1 = m
        BY <1>5, <3>1
      <4>2. c[i + 1] = c[1]
        BY <1>6, <4>1
      <4>3. QED
        BY <2>1, <4>2
    <3>2. CASE i # m - 1
      <4>1. i + 1 \in 1 .. m - 1
        BY <1>5, <3>2, NextPlace
      <4>2. QED
        BY <4>1
    <3>3. QED
      BY <3>1, <3>2
  <2>3. \A i \in 1 .. m - 1 : c[i] \in DOMAIN dependencies
    <3> TAKE i \in 1 .. m - 1
    <3>1. CASE i = 1
      BY <1>2, <1>6, <3>1
    <3>2. CASE i # 1
      <4>1. i - 1 \in 1 .. m - 1 /\ (i - 1) + 1 = i
        BY <1>5, <3>2
      <4>2. QED
        BY <1>8, <4>1
    <3>3. QED
      BY <3>1, <3>2
  <2>4. \A t \in S : Dependencies(t) \intersect S # {}
    BY <1>8, <2>2
  <2>5. QED
    BY <2>1, <2>3, <2>4 DEF Knot
<1>11. QED
  BY <1>5, <1>6, <1>9, <1>10 DEF c

LEMMA InvFindCycle == ASSUME SearchInv, FindCycle PROVE SearchInv'
<1>1. PICK d \in Top.left : Undecided(d) /\ states[d] = 1 /\ cycle' = CycleTo(d) /\ stack # <<>>
  BY DEF FindCycle
<1>2. /\ Searching /\ phase' = "run"
      /\ UNCHANGED <<model, dependencies, states, stack, next>>
  BY DEF FindCycle, Check, Searching
<1>3. /\ Len(CycleTo(d)) > 1 /\ CycleTo(d)[1] = CycleTo(d)[Len(CycleTo(d))]
      /\ Adjacent(CycleTo(d))
      /\ \E S \in SUBSET DOMAIN dependencies : Knot(S)
  BY <1>1, CycleIsRight
<1>4. AfterSearch' /\ ~Early'
  BY <1>2 DEF AfterSearch, Early
<1>5. CycleIsOne' /\ AllIsDone'
  <2>1. \A x : Dependencies(x)' = Dependencies(x)
    BY <1>2 DEF Dependencies
  <2>2. Len(cycle') > 1 /\ cycle'[1] = cycle'[Len(cycle')] /\ cycle' # <<>>
    BY <1>1, <1>3
  <2>3. \A i \in 1 .. Len(cycle') - 1 : cycle'[i + 1] \in Dependencies(cycle'[i])
    BY <1>1, <1>3 DEF Adjacent
  <2>4. Adjacent(cycle)'
    BY <2>1, <2>3 DEF Adjacent
  <2>5. \A S : Knot(S) => Knot(S)'
    BY <2>1 DEF Knot
  <2>6. \E S \in SUBSET DOMAIN dependencies' : Knot(S)'
    BY <1>2, <1>3, <2>5
  <2>7. QED
    BY <1>4, <2>2, <2>4, <2>6 DEF CycleIsOne, AllIsDone
<1>6. TermIds' = TermIds /\ KnownSymbols' = KnownSymbols /\ \A x : Dependencies(x)' = Dependencies(x)
  BY <1>2, SameModel
<1>7. Shape'
  BY <1>2, <1>6 DEF SearchInv, Shape
<1>8. DoneIsClosed' /\ NoKnotIsDone' /\ DependenciesAreSymbols'
  BY <1>2, DoneKeeps
<1>9. NothingYet' /\ OnStack' /\ EachOnce' /\ LoopHasMet'
  BY <1>2, <1>4, <1>6 DEF SearchInv, NothingYet, OnStack, EachOnce, LoopHasMet
<1>10. Chained' /\ LeftIsPart' /\ ExaminedIsDone'
  BY <1>2, <1>6 DEF SearchInv, Chained, LeftIsPart, ExaminedIsDone, SeenAt
<1>11. QED
  BY <1>5, <1>7, <1>8, <1>9, <1>10 DEF SearchInv

(* The last term of a knot to be done would leave a knot behind.           *)
LEMMA NoKnotIsLeft ==
  ASSUME SearchInv, stack # <<>>, Top.left = {},
         NEW S \in SUBSET DOMAIN dependencies,
         \A t \in S : t = Top.term \/ states[t] = 2
  PROVE  ~Knot(S)
<1> DEFINE top == Top.term
           n == Len(stack)
<1>1. n \in Nat \ {0} /\ DOMAIN dependencies \subseteq TermIds
  BY DEF SearchInv, Shape
<1>2. states[top] # 2
  <2>1. stack[n] \in Frames /\ Top = stack[n]
    <3>1. stack \in Seq(Frames)
      BY DEF SearchInv, Shape, Frames
    <3>2. QED
      BY <1>1, <3>1 DEF Top
  <2>2. top \in TermIds
    BY <2>1 DEF Frames
  <2>3. states[top] = 1
    BY <1>1, <2>1, <2>2 DEF SearchInv, OnStack
  <2>4. QED
    BY <2>3
<1>3. \A x \in Dependencies(top) \intersect DOMAIN dependencies : states[x] = 2
  <2>1. \A x \in Dependencies(top) \intersect DOMAIN dependencies : x \in SeenAt(n)
    BY DEF SeenAt, Top
  <2>2. QED
    BY <1>1, <2>1 DEF SearchInv, ExaminedIsDone
<1>4. \A t \in S \ {top} : \A x \in Dependencies(t) \intersect S : x # top
  BY <1>1, <1>2 DEF SearchInv, DoneIsClosed
<1>5. SUFFICES ASSUME Knot(S) PROVE FALSE
  OBVIOUS
<1>6. \A t \in S \ {top} : Dependencies(t) \intersect (S \ {top}) # {}
  BY <1>4, <1>5 DEF Knot
<1>7. top \in S => S \ {top} # {}
  BY <1>2, <1>3, <1>5 DEF Knot
<1>8. S \ {top} # {}
  BY <1>5, <1>7 DEF Knot
<1>9. Knot(S \ {top})
  BY <1>6, <1>8 DEF Knot
<1>10. QED
  BY <1>9 DEF SearchInv, NoKnotIsDone

LEMMA InvLeave == ASSUME SearchInv, Leave PROVE SearchInv'
<1> DEFINE top == Top.term
           n == Len(stack)
<1>1. /\ Searching /\ stack # <<>> /\ stack \in Seq(Frames) /\ Top.left = {}
      /\ stack' = Popped /\ states' = [states EXCEPT ![top] = 2]
      /\ UNCHANGED <<model, phase, dependencies, cycle, next>>
  BY DEF Leave, SearchInv, Shape, Frames
<1>2. NothingYet' /\ CycleIsOne' /\ AllIsDone'
  BY <1>1, SearchingKeeps
<1>3. /\ n \in Nat \ {0} /\ stack' \in Seq(Frames) /\ Len(stack') = n - 1
      /\ \A i \in 1 .. n - 1 : stack'[i] = stack[i]
  BY <1>1, TopIsPopped
<1>4. TermIds' = TermIds /\ Frames' = Frames /\ KnownSymbols' = KnownSymbols
      /\ \A x : Dependencies(x)' = Dependencies(x)
  BY <1>1, SameModel DEF Frames
<1>5. stack[n].term = top /\ top \in TermIds
  <2>1. stack[n] \in Frames /\ Top = stack[n]
    BY <1>1, <1>3 DEF Top
  <2>2. QED
    BY <2>1 DEF Frames
<1>6. states \in [TermIds -> 0 .. 2] /\ DOMAIN dependencies \subseteq TermIds
  BY DEF SearchInv, Shape
<1>7. \A x \in TermIds : states'[x] = IF x = top THEN 2 ELSE states[x]
  BY <1>1, <1>6
<1>8. \A i \in 1 .. n - 1 : i \in 1 .. n /\ stack[i].term # top
  BY <1>3, <1>5 DEF SearchInv, EachOnce
<1>9. Shape' /\ DependenciesAreSymbols'
  <2>1. states' \in [TermIds -> 0 .. 2]
    BY <1>1, <1>5, <1>6, Marked
  <2>2. Shape'
    BY <1>1, <1>3, <1>4, <2>1 DEF SearchInv, Shape, Frames
  <2>3. DependenciesAreSymbols'
    BY <1>1, <1>4 DEF SearchInv, DependenciesAreSymbols
  <2>4. QED
    BY <2>2, <2>3
<1>10. OnStack'
  <2>1. ASSUME NEW x \in TermIds
        PROVE  states'[x] = 1 <=> \E i \in 1 .. n - 1 : stack'[i].term = x
    <3>1. states[x] = 1 <=> \E i \in 1 .. n : stack[i].term = x
      BY DEF SearchInv, OnStack
    <3>2. \A i \in 1 .. n : i = n \/ i \in 1 .. n - 1
      BY <1>3
    <3>3. CASE x = top
      <4>1. \A i \in 1 .. n - 1 : stack'[i].term # x
        BY <1>3, <1>8, <3>3
      <4>2. QED
        BY <1>7, <3>3, <4>1
    <3>4. CASE x # top
      <4>1. (\E i \in 1 .. n : stack[i].term = x) <=> \E i \in 1 .. n - 1 : stack[i].term = x
        BY <1>5, <1>8, <3>2, <3>4
      <4>2. (\E i \in 1 .. n - 1 : stack[i].term = x) <=> \E i \in 1 .. n - 1 : stack'[i].term = x
        BY <1>3
      <4>3. QED
        BY <1>7, <3>1, <3>4, <4>1, <4>2
    <3>5. QED
      BY <3>3, <3>4
  <2>2. QED
    BY <1>3, <1>4, <2>1 DEF OnStack
<1>11. EachOnce' /\ LeftIsPart'
  BY <1>3, <1>4, <1>8 DEF SearchInv, EachOnce, LeftIsPart
<1>12. Chained'
  <2>1. \A i \in 1 .. n - 2 : i \in 1 .. n - 1 /\ i + 1 \in 1 .. n - 1
    BY <1>3
  <2>2. Len(stack') - 1 = n - 2
    BY <1>3
  <2>3. QED
    BY <1>1, <1>3, <1>4, <2>1, <2>2 DEF SearchInv, Chained
<1>13. ExaminedIsDone'
  <2>1. ASSUME NEW i \in 1 .. n - 1, NEW x \in SeenAt(i)'
        PROVE  states'[x] = 2 \/ (i < n - 1 /\ x = stack'[i + 1].term)
    <3>1. x \in SeenAt(i) /\ x \in TermIds
      BY <1>1, <1>3, <1>4, <1>6 DEF SeenAt
    <3>2. states[x] = 2 \/ (i < n /\ x = stack[i + 1].term)
      BY <1>8, <3>1 DEF SearchInv, ExaminedIsDone
    <3>3. i < n - 1 => i + 1 \in 1 .. n - 1
      BY <1>3
    <3>4. i = n - 1 => stack[i + 1].term = top
      BY <1>3, <1>5
    <3>5. QED
      BY <1>3, <1>7, <3>1, <3>2, <3>3, <3>4
  <2>2. QED
    BY <1>3, <2>1 DEF ExaminedIsDone
<1>14. \A x \in Dependencies(top) \intersect DOMAIN dependencies : states[x] = 2
  <2>1. \A x \in Dependencies(top) \intersect DOMAIN dependencies : x \in SeenAt(n)
    BY <1>1, <1>5 DEF SeenAt, Top
  <2>2. QED
    BY <1>3, <2>1 DEF SearchInv, ExaminedIsDone
<1>15. DoneIsClosed'
  BY <1>1, <1>4, <1>6, <1>7, <1>14 DEF SearchInv, DoneIsClosed
<1>16. NoKnotIsDone'
  <2>1. ASSUME NEW S \in SUBSET DOMAIN dependencies, \A t \in S : states'[t] = 2
        PROVE  ~Knot(S)
    <3>1. \A t \in S : t = top \/ states[t] = 2
      BY <1>6, <1>7, <2>1
    <3>2. QED
      BY <1>1, <3>1, NoKnotIsLeft
  <2>2. \A S : Knot(S)' = Knot(S)
    BY <1>4 DEF Knot
  <2>3. QED
    BY <1>1, <2>1, <2>2 DEF NoKnotIsDone
<1>17. LoopHasMet'
  BY <1>1, <1>5, <1>6 DEF SearchInv, LoopHasMet
<1>18. QED
  BY <1>2, <1>9, <1>10, <1>11, <1>12, <1>13, <1>15, <1>16, <1>17 DEF SearchInv

-----------------------------------------------------------------------------
(* The rest of the validation, and the export. *)

(* The terms are done with when the loop has met them all and the stack is *)
(* empty: each is then done, for none is on the stack.                     *)
LEMMA InvEndSearch == ASSUME SearchInv, EndSearch PROVE SearchInv'
<1>1. /\ stack = <<>> /\ next > Len(model.terms) /\ phase' = "run"
      /\ UNCHANGED <<model, dependencies, states, stack, cycle, next>>
  BY DEF EndSearch, Check, search
<1>2. Len(stack) = 0 /\ ~Early' /\ AfterSearch' /\ AfterSearch = (phase # "search" /\ ~Early)
  BY <1>1 DEF Early, AfterSearch
<1>3. TermIds' = TermIds /\ KnownSymbols' = KnownSymbols /\ \A x : Dependencies(x)' = Dependencies(x)
  BY <1>1, SameModel
<1>4. \A x \in TermIds : states[x] = 2
  <2>1. next \in 1 .. Len(model.terms) + 1 /\ Len(model.terms) \in Nat /\ next - 1 = Len(model.terms)
    BY <1>1, TermsAreListed DEF SearchInv, Shape
  <2>2. \A x \in TermIds : states[x] # 0
    BY <2>1, TermsAreListed DEF SearchInv, Shape, LoopHasMet
  <2>3. \A x \in TermIds : states[x] # 1
    BY <1>2 DEF SearchInv, OnStack
  <2>4. QED
    BY <2>2, <2>3 DEF SearchInv, Shape
<1>5. Shape' /\ NothingYet' /\ OnStack' /\ EachOnce' /\ LoopHasMet'
  BY <1>1, <1>2, <1>3 DEF SearchInv, Shape, NothingYet, OnStack, EachOnce, LoopHasMet
<1>6. Chained' /\ LeftIsPart' /\ ExaminedIsDone'
  BY <1>1, <1>3 DEF SearchInv, Chained, LeftIsPart, ExaminedIsDone, SeenAt
<1>7. DoneIsClosed' /\ NoKnotIsDone' /\ DependenciesAreSymbols'
  BY <1>1, DoneKeeps
<1>8. AllIsDone'
  BY <1>1, <1>4 DEF SearchInv, Shape, AllIsDone
<1>9. CycleIsOne'
  <2>1. cycle = <<>>
    BY DEF EndSearch, Check, SearchInv, CycleIsOne, AfterSearch
  <2>2. QED
    BY <1>1, <2>1 DEF CycleIsOne
<1>10. QED
  BY <1>5, <1>6, <1>7, <1>8, <1>9 DEF SearchInv

(* The steps that leave the search alone.                                  *)
LEMMA InvElsewhere ==
  ASSUME SearchInv, UNCHANGED <<model, search>>, ~Searching,
         Early' => Early, phase' # "search" \/ Early, AfterSearch => AfterSearch'
  PROVE  SearchInv'
<1>1. UNCHANGED <<model, dependencies, states, stack, cycle, next>>
  BY DEF search
<1>2. TermIds' = TermIds /\ KnownSymbols' = KnownSymbols /\ \A x : Dependencies(x)' = Dependencies(x)
  BY <1>1, SameModel
<1>3. Early \/ AfterSearch
  BY DEF Searching, Early, AfterSearch
<1>4. Shape' /\ NothingYet' /\ OnStack' /\ EachOnce' /\ LoopHasMet'
  BY <1>1, <1>2 DEF SearchInv, Shape, NothingYet, OnStack, EachOnce, LoopHasMet
<1>5. Chained' /\ LeftIsPart' /\ ExaminedIsDone'
  BY <1>1, <1>2 DEF SearchInv, Chained, LeftIsPart, ExaminedIsDone, SeenAt
<1>6. DoneIsClosed' /\ NoKnotIsDone' /\ DependenciesAreSymbols'
  BY <1>1, DoneKeeps
<1>7. AllIsDone'
  BY <1>1, <1>3 DEF SearchInv, AllIsDone, NothingYet
<1>8. CycleIsOne'
  <2>1. CASE cycle = <<>>
    BY <1>1, <2>1 DEF CycleIsOne
  <2>2. CASE cycle # <<>>
    <3>1. \A S : Knot(S)' = Knot(S)
      BY <1>2 DEF Knot
    <3>2. Adjacent(cycle)'
      BY <1>1, <1>2, <2>2 DEF SearchInv, CycleIsOne, Adjacent
    <3>3. QED
      BY <1>1, <2>2, <3>1, <3>2 DEF SearchInv, CycleIsOne
  <2>3. QED
    BY <2>1, <2>2
<1>9. QED
  BY <1>4, <1>5, <1>6, <1>7, <1>8 DEF SearchInv

LEMMA SectionsAreLate ==
  \A k \in DOMAIN Sections :
    Sections[k] \notin {"content", "identities", "references", "numerics", "expressions", "search"}
BY DEF Sections

LEMMA InvChecks ==
  ASSUME SearchInv,
         \/ ModelHasContent \/ ValidateIdentities \/ ValidateReferencesAndAssignments
         \/ ValidateNumerics \/ ValidateRun \/ WriteSection
  PROVE  SearchInv'
<1>1. UNCHANGED <<model, search>>
  BY DEF ModelHasContent, ValidateIdentities, ValidateReferencesAndAssignments,
         ValidateNumerics, ValidateRun, WriteSection, Check
<1>2. /\ ~Searching /\ (Early' => Early) /\ phase' # "search" /\ (AfterSearch => AfterSearch')
  <2>1. CASE ModelHasContent \/ ValidateIdentities \/ ValidateReferencesAndAssignments \/ ValidateNumerics
    BY <2>1 DEF ModelHasContent, ValidateIdentities, ValidateReferencesAndAssignments,
                ValidateNumerics, Check, Searching, Early, AfterSearch
  <2>2. CASE ValidateRun
    <3>1. phase = "run" /\ phase' \in {"invalid", "SPECIES"}
      BY <2>2 DEF ValidateRun, Check
    <3>2. QED
      BY <3>1 DEF Searching, Early, AfterSearch
  <2>3. CASE WriteSection
    <3>1. PICK k \in DOMAIN Sections :
             /\ phase = Sections[k]
             /\ phase' \in {"stuck", "written", Sections[k + 1]}
             /\ phase' = Sections[k + 1] => k < Len(Sections) \/ phase' \in {"stuck", "written"}
      BY <2>3 DEF WriteSection
    <3>2. AfterSearch
      BY <3>1, SectionsAreLate DEF AfterSearch
    <3>3. k \in 1 .. 10 /\ Len(Sections) = 10 /\ DOMAIN Sections = 1 .. 10
      BY DEF Sections
    <3>4. AfterSearch'
      <4>1. CASE phase' \in {"stuck", "written"}
        BY <4>1 DEF AfterSearch
      <4>2. CASE k < Len(Sections) /\ phase' = Sections[k + 1]
        <5>1. k + 1 \in DOMAIN Sections
          BY <3>3, <4>2
        <5>2. QED
          BY <4>2, <5>1, SectionsAreLate DEF AfterSearch
      <4>3. QED
        BY <3>1, <4>1, <4>2
    <3>5. QED
      BY <3>2, <3>4 DEF AfterSearch, Searching, Early
  <2>4. QED
    BY <2>1, <2>2, <2>3
<1>3. QED
  BY <1>1, <1>2, InvElsewhere

LEMMA InvExpressions == ASSUME SearchInv, ValidateExpressions PROVE SearchInv'
<1>1. /\ Early /\ phase' = "search" /\ dependencies' = TermDependencies
      /\ UNCHANGED <<model, states, stack, cycle, next>>
  BY DEF ValidateExpressions, Check, Early
<1>2. /\ stack = <<>> /\ Len(stack) = 0 /\ cycle = <<>> /\ next = 1
      /\ \A t \in TermIds : states[t] = 0
  BY <1>1 DEF SearchInv, NothingYet
<1>3. TermIds' = TermIds /\ KnownSymbols' = KnownSymbols
  BY <1>1 DEF TermIds, KnownSymbols, Symbols
<1>4. /\ DOMAIN dependencies' \subseteq TermIds
      /\ \A t \in DOMAIN dependencies' : dependencies'[t] \in SUBSET KnownSymbols
  BY <1>1, DependenciesOfTerms DEF SearchInv, Shape
<1>5. Shape' /\ DependenciesAreSymbols'
  BY <1>1, <1>3, <1>4 DEF SearchInv, Shape, DependenciesAreSymbols
<1>6. OnStack' /\ EachOnce' /\ Chained' /\ LeftIsPart' /\ ExaminedIsDone' /\ LoopHasMet'
  BY <1>1, <1>2, <1>3 DEF OnStack, EachOnce, Chained, LeftIsPart, ExaminedIsDone, LoopHasMet
<1>7. DoneIsClosed'
  BY <1>1, <1>2, <1>3 DEF DoneIsClosed
<1>8. NoKnotIsDone'
  BY <1>1, <1>2, <1>4 DEF NoKnotIsDone, Knot
<1>9. NothingYet' /\ CycleIsOne' /\ AllIsDone'
  BY <1>1, <1>2 DEF NothingYet, Early, CycleIsOne, AllIsDone, AfterSearch
<1>10. QED
  BY <1>5, <1>6, <1>7, <1>8, <1>9 DEF SearchInv

LEMMA InvNext == ASSUME SearchInv, [ExportNext]_exportVars PROVE SearchInv'
<1>1. CASE UNCHANGED exportVars
  <2>1. UNCHANGED <<model, search>> /\ phase' = phase
    BY <1>1 DEF exportVars
  <2>2. CASE ~Searching
    BY <2>1, <2>2, InvElsewhere DEF Searching, Early, AfterSearch
  <2>3. CASE Searching
    <3>1. UNCHANGED <<model, dependencies, states, stack, cycle, next>> /\ Searching'
      BY <2>1, <2>3 DEF search, Searching
    <3>2. NothingYet' /\ CycleIsOne' /\ AllIsDone'
      BY <2>1, <2>3, <3>1, SearchingKeeps
    <3>3. TermIds' = TermIds /\ KnownSymbols' = KnownSymbols /\ \A x : Dependencies(x)' = Dependencies(x)
      BY <3>1, SameModel
    <3>4. Shape' /\ OnStack' /\ EachOnce' /\ LoopHasMet'
      BY <3>1, <3>3 DEF SearchInv, Shape, OnStack, EachOnce, LoopHasMet
    <3>5. Chained' /\ LeftIsPart' /\ ExaminedIsDone'
      BY <3>1, <3>3 DEF SearchInv, Chained, LeftIsPart, ExaminedIsDone, SeenAt
    <3>6. DoneIsClosed' /\ NoKnotIsDone' /\ DependenciesAreSymbols'
      BY <3>1, DoneKeeps
    <3>7. QED
      BY <3>2, <3>4, <3>5, <3>6 DEF SearchInv
  <2>4. QED
    BY <2>2, <2>3
<1>2. CASE ExportNext
  BY <1>2, InvChecks, InvExpressions, InvNextTerm, InvSkip, SearchEnter, InvFindCycle, InvLeave,
     InvEndSearch DEF ExportNext
<1>3. QED
  BY <1>1, <1>2

LEMMA InvImplies == ASSUME SearchInv PROVE CyclesAreFound
<1>1. ASSUME AfterSearch, cycle = <<>>
      PROVE  \A S \in SUBSET DOMAIN dependencies : ~Knot(S)
  BY <1>1 DEF SearchInv, AllIsDone, NoKnotIsDone
<1>2. QED
  BY <1>1 DEF SearchInv, CycleIsOne, CyclesAreFound

(* For every model: the search reports a cycle exactly if there are terms  *)
(* that cannot be evaluated in any order, and what it reports is a cycle.  *)
THEOREM CyclesAreFoundAlways == ExportSpec => []CyclesAreFound
<1>1. ExportInit => SearchInv
  BY SearchInit
<1>2. SearchInv /\ [ExportNext]_exportVars => SearchInv'
  BY InvNext
<1>3. SearchInv => CyclesAreFound
  BY InvImplies
<1>4. QED
  BY <1>1, <1>2, <1>3, PTL DEF ExportSpec

-----------------------------------------------------------------------------
(* What the loops with a condition take from a list. *)

(* Induction over the numbers, for a set.                                  *)
LEMMA SetInduction ==
  ASSUME NEW T, 0 \in T, \A n \in Nat : n \in T => n + 1 \in T
  PROVE  \A n \in Nat : n \in T
<1> DEFINE R == OpToRel(<, Nat)
           B == {n \in Nat : n \notin T}
<1>1. IsWellFoundedOn(R, Nat)
  BY NatLessThanWellFounded
<1>2. \A x, y \in Nat : <<x, y>> \in R <=> x < y
  BY DEF OpToRel
<1> HIDE DEF R
<1>3. SUFFICES ASSUME B # {} PROVE FALSE
  OBVIOUS
<1>4. B \subseteq Nat
  OBVIOUS
<1> HIDE DEF B
<1>5. PICK x \in B : \A y \in B : ~ (<<y, x>> \in R)
  BY <1>1, <1>3, <1>4, WFMin
<1>6. x \in Nat /\ x \notin T /\ x # 0
  BY <1>5 DEF B
<1>7. x - 1 \in Nat /\ x - 1 < x
  BY <1>6
<1>8. x - 1 \in T
  BY <1>2, <1>5, <1>6, <1>7 DEF B
<1>9. QED
  BY <1>6, <1>7, <1>8

(* The recursive function of Those.                                        *)
IsKept(f, s, S, n) ==
    f = [k \in 0 .. n |-> IF k = 0 THEN <<>>
                          ELSE IF k \in S THEN Append(f[k - 1], s[k]) ELSE f[k - 1]]

(* It exists.                                                              *)
LEMMA KeptExists ==
  ASSUME NEW s, NEW S
  PROVE  \A n \in Nat : \E f : IsKept(f, s, S, n)
<1> DEFINE T == {n \in Nat : \E f : IsKept(f, s, S, n)}
<1>1. 0 \in T
  <2>1. IsKept([k \in 0 .. 0 |-> <<>>], s, S, 0)
    BY DEF IsKept
  <2>2. QED
    BY <2>1
<1>2. \A n \in Nat : n \in T => n + 1 \in T
  <2> SUFFICES ASSUME NEW n \in Nat, NEW f, IsKept(f, s, S, n)
               PROVE  \E g : IsKept(g, s, S, n + 1)
    OBVIOUS
  <2> DEFINE e == n + 1
             last == IF e \in S THEN Append(f[e - 1], s[e]) ELSE f[e - 1]
             g == [k \in 0 .. n + 1 |-> IF k = e THEN last ELSE f[k]]
  <2>1. \A k \in 0 .. n : f[k] = IF k = 0 THEN <<>> ELSE IF k \in S THEN Append(f[k - 1], s[k])
                                 ELSE f[k - 1]
    BY DEF IsKept
  <2>2. \A k \in 0 .. n + 1 : g[k] = IF k = 0 THEN <<>>
                                     ELSE IF k \in S THEN Append(g[k - 1], s[k]) ELSE g[k - 1]
    <3> SUFFICES ASSUME NEW k \in 0 .. n + 1
                 PROVE  g[k] = IF k = 0 THEN <<>>
                               ELSE IF k \in S THEN Append(g[k - 1], s[k]) ELSE g[k - 1]
      OBVIOUS
    <3>1. CASE k = e
      <4>1. g[k] = last /\ g[k - 1] = f[e - 1] /\ k # 0
        BY <3>1
      <4>2. QED
        BY <3>1, <4>1
    <3>2. CASE k # e
      <4>1. k \in 0 .. n /\ g[k] = f[k] /\ (k # 0 => g[k - 1] = f[k - 1])
        BY <3>2
      <4>2. QED
        BY <2>1, <4>1
    <3>3. QED
      BY <3>1, <3>2
  <2>3. IsKept(g, s, S, n + 1)
    BY <2>2 DEF IsKept
  <2>4. QED
    BY <2>3
<1> HIDE DEF T
<1>3. \A n \in Nat : n \in T
  BY <1>1, <1>2, SetInduction
<1>4. QED
  BY <1>3 DEF T

(* r has the elements of s at S, each once.                                *)
Picked(g, r, s, S) ==
    /\ g \in [1 .. Len(r) -> S]
    /\ \A i, k \in 1 .. Len(r) : g[i] = g[k] => i = k
    /\ \A m \in S : \E i \in 1 .. Len(r) : g[i] = m
    /\ \A i \in 1 .. Len(r) : r[i] = s[g[i]]

(* One element more.                                                       *)
LEMMA PickOne ==
  ASSUME NEW T, NEW r \in Seq(T), NEW s, NEW S, NEW g, Picked(g, r, s, S), NEW m, m \notin S, s[m] \in T
  PROVE  /\ Append(r, s[m]) \in Seq(T)
         /\ \E h : Picked(h, Append(r, s[m]), s, S \union {m})
<1> DEFINE n == Len(r)
           q == Append(r, s[m])
           h == [i \in 1 .. n + 1 |-> IF i = n + 1 THEN m ELSE g[i]]
<1>1. n \in Nat /\ q \in Seq(T) /\ Len(q) = n + 1 /\ q[n + 1] = s[m] /\ \A i \in 1 .. n : q[i] = r[i]
  BY AppendProperties
<1>2. g \in [1 .. n -> S] /\ \A i \in 1 .. n : g[i] \in S
  BY DEF Picked
<1>3. \A i \in 1 .. n + 1 : i = n + 1 \/ i \in 1 .. n
  BY <1>1
<1>4. h[n + 1] = m /\ \A i \in 1 .. n : h[i] = g[i]
  <2>1. n + 1 \in 1 .. n + 1 /\ \A i \in 1 .. n : i \in 1 .. n + 1 /\ i # n + 1
    BY <1>1
  <2>2. QED
    BY <2>1
<1>5. h \in [1 .. n + 1 -> S \union {m}]
  BY <1>2, <1>3
<1> HIDE DEF h, q
<1>6. \A i, k \in 1 .. n + 1 : h[i] = h[k] => i = k
  <2>1. \A i, k \in 1 .. n : g[i] = g[k] => i = k
    BY DEF Picked
  <2>2. QED
    BY <1>2, <1>3, <1>4, <2>1
<1>7. \A x \in S \union {m} : \E i \in 1 .. n + 1 : h[i] = x
  <2>1. n + 1 \in 1 .. n + 1 /\ \A i \in 1 .. n : i \in 1 .. n + 1
    BY <1>1
  <2>2. \A x \in S : \E i \in 1 .. n : g[i] = x
    BY DEF Picked
  <2>3. QED
    BY <1>4, <2>1, <2>2
<1>8. \A i \in 1 .. n + 1 : q[i] = s[h[i]]
  <2>1. \A i \in 1 .. n : r[i] = s[g[i]]
    BY DEF Picked
  <2>2. QED
    BY <1>1, <1>3, <1>4, <2>1
<1>9. Picked(h, q, s, S \union {m})
  BY <1>1, <1>5, <1>6, <1>7, <1>8 DEF Picked
<1>10. QED
  BY <1>1, <1>9 DEF q

(* The loop picks the elements at S.                                       *)
LEMMA ThoseArePicked ==
  ASSUME NEW T, NEW s \in Seq(T), NEW S \in SUBSET (DOMAIN s)
  PROVE  /\ Those(s, S) \in Seq(T)
         /\ \E g : Picked(g, Those(s, S), s, S)
<1> DEFINE n == Len(s)
           f == CHOOSE h : IsKept(h, s, S, n)
<1>1. n \in Nat /\ DOMAIN s = 1 .. n /\ \A k \in 1 .. n : s[k] \in T
  OBVIOUS
<1>2. IsKept(f, s, S, n)
  BY <1>1, KeptExists
<1>3. Those(s, S) = f[n]
  BY DEF Those, IsKept
<1> HIDE DEF f, n
<1>4. \A k \in 0 .. n : f[k] = IF k = 0 THEN <<>> ELSE IF k \in S THEN Append(f[k - 1], s[k])
                               ELSE f[k - 1]
  BY <1>2 DEF IsKept
<1> DEFINE Upto(k) == S \intersect (1 .. k)
           Right(k) == f[k] \in Seq(T) /\ \E g : Picked(g, f[k], s, Upto(k))
           Q == {k \in Nat : k <= n => Right(k)}
<1>5. 0 \in Q
  <2>1. f[0] = <<>> /\ <<>> \in Seq(T) /\ Len(<<>>) = 0 /\ Upto(0) = {}
    BY <1>1, <1>4, EmptySeq
  <2>2. Picked(<<>>, <<>>, s, {})
    BY <2>1 DEF Picked
  <2>3. Right(0)
    BY <2>1, <2>2
  <2> HIDE DEF Right
  <2>4. QED
    BY <2>3
<1>6. \A k \in Nat : k \in Q => k + 1 \in Q
  <2> SUFFICES ASSUME NEW k \in Nat, k \in Q, k + 1 <= n
               PROVE  Right(k + 1)
    <3> HIDE DEF Right
    <3>1. QED
      OBVIOUS
  <2>1. k <= n /\ k + 1 \in 0 .. n /\ k + 1 \in 1 .. n /\ (k + 1) - 1 = k
    BY <1>1
  <2>2. Right(k)
    <3> HIDE DEF Right
    <3>1. QED
      BY <2>1
  <2>3. PICK g : Picked(g, f[k], s, Upto(k))
    BY <2>2
  <2>4. f[k + 1] = IF k + 1 \in S THEN Append(f[k], s[k + 1]) ELSE f[k]
    BY <1>4, <2>1
  <2>5. CASE k + 1 \in S
    <3>1. Upto(k + 1) = Upto(k) \union {k + 1} /\ k + 1 \notin Upto(k)
      BY <2>5
    <3> HIDE DEF Upto
    <3>2. s[k + 1] \in T
      BY <1>1, <2>1
    <3>3. Append(f[k], s[k + 1]) \in Seq(T)
          /\ \E h : Picked(h, Append(f[k], s[k + 1]), s, Upto(k) \union {k + 1})
      BY <2>2, <2>3, <3>1, <3>2, PickOne
    <3>4. QED
      BY <2>4, <2>5, <3>1, <3>3
  <2>6. CASE k + 1 \notin S
    <3>1. Upto(k + 1) = Upto(k)
      BY <2>6
    <3> HIDE DEF Upto
    <3>2. QED
      BY <2>2, <2>3, <2>4, <2>6, <3>1
  <2>7. QED
    BY <2>5, <2>6
<1>7. n \in Q
  <2> HIDE DEF Q, Right
  <2>1. \A k \in Nat : k \in Q
    BY <1>5, <1>6, SetInduction
  <2>2. QED
    BY <1>1, <2>1
<1>8. Upto(n) = S
  BY <1>1
<1>9. QED
  <2>1. Right(n)
    <3> HIDE DEF Right
    <3>1. QED
      BY <1>1, <1>7
  <2> HIDE DEF Upto
  <2>2. QED
    BY <1>3, <1>8, <2>1

(* As many as there are in S.                                              *)
LEMMA PickedAreCounted ==
  ASSUME NEW g, NEW r, NEW s, NEW S, Len(r) \in Nat, Picked(g, r, s, S)
  PROVE  IsFiniteSet(S) /\ Cardinality(S) = Len(r)
<1>1. g \in [1 .. Len(r) -> S] /\ (\A i, k \in 1 .. Len(r) : g[i] = g[k] => i = k)
      /\ \A m \in S : \E i \in 1 .. Len(r) : g[i] = m
  BY DEF Picked
<1>2. g \in Surjection(1 .. Len(r), S) /\ g \in Injection(1 .. Len(r), S)
  BY <1>1 DEF Surjection, Injection, IsInjective
<1>3. ExistsBijection(1 .. Len(r), S)
  BY <1>2 DEF ExistsBijection, Bijection
<1>4. IsFiniteSet(1 .. Len(r)) /\ Cardinality(1 .. Len(r)) = Len(r)
  <2> DEFINE n == Len(r)
  <2>1. 1 \in Int /\ n \in Int /\ n \in Nat
    OBVIOUS
  <2> HIDE DEF n
  <2>2. IsFiniteSet(1 .. n) /\ Cardinality(1 .. n) = IF 1 > n THEN 0 ELSE n - 1 + 1
    BY <2>1, FS_Interval, Zenon
  <2>3. (IF 1 > n THEN 0 ELSE n - 1 + 1) = n
    BY <2>1
  <2>4. QED
    BY <2>2, <2>3 DEF n
<1>5. QED
  BY <1>3, <1>4, FS_Bijection

-----------------------------------------------------------------------------
(* The text as a list of lines, and what is right about it. *)

IsList(s) == s \in Seq(Elems(s))
Kinds(s) == {s[k].kind : k \in DOMAIN s}

SymbolKinds == {"SPECIES", "COEFFICIENTS", "TERMS"}
PatternKinds == {"PATTERNS"}

(* No line of a kind says something of the same IDs again.                 *)
SaidOnce(s) ==
    \A i, k \in DOMAIN s :
        s[i].about = s[k].about /\ s[i].kind = s[k].kind => i = k \/ s[i].about = <<>>

DefinedOnce(s, kinds) ==
    \A i, k \in DOMAIN s :
        s[i].kind \in kinds /\ s[k].kind \in kinds /\ s[i].defines = s[k].defines => i = k

(* What holds of a line by itself.                                         *)
Sound(l) ==
    /\ ~Unresolved(l)
    /\ l.symbols \subseteq IdsOf(Symbols)
    /\ l.pattern \subseteq IdsOf(model.patterns)
    /\ Elems(l.about) \intersect (Nodes \union Pipes) \subseteq Enabled
    /\ l.kind \in {"SOURCES", "TANKS", "DIFFUSIVITY"} =>
         \A k \in DOMAIN model.species :
             model.species[k].type = "Wall" => model.species[k].id \notin Elems(l.about)
    /\ IF l.kind \in PatternKinds THEN l.defines \in IdsOf(model.patterns)
       ELSE l.defines \in IdsOf(Symbols) \union {NoRef}

(* A part of the text, of lines of some kinds.                             *)
Fine(s, kinds, n) ==
    /\ IsList(s) /\ Len(s) = n /\ Kinds(s) \subseteq kinds
    /\ SaidOnce(s) /\ DefinedOnce(s, SymbolKinds) /\ DefinedOnce(s, PatternKinds)
    /\ \A l \in Elems(s) : Sound(l)

(* Lists, by index.                                                        *)
LEMMA ListIs ==
  ASSUME NEW s, IsList(s)
  PROVE  /\ Len(s) \in Nat /\ DOMAIN s = 1 .. Len(s)
         /\ \A k \in 1 .. Len(s) : s[k] \in Elems(s)
         /\ \A x \in Elems(s) : \E k \in 1 .. Len(s) : s[k] = x
<1>1. s \in Seq(Elems(s))
  BY DEF IsList
<1>2. Len(s) \in Nat /\ DOMAIN s = 1 .. Len(s)
  BY <1>1
<1>3. QED
  BY <1>2 DEF Elems

(* Whatever its elements are, a sequence is a list.                        *)
LEMMA SequenceIsList ==
  ASSUME NEW T, NEW s \in Seq(T)
  PROVE  IsList(s)
<1>1. Len(s) \in Nat /\ DOMAIN s = 1 .. Len(s) /\ s \in [1 .. Len(s) -> T]
  OBVIOUS
<1>2. \A k \in 1 .. Len(s) : s[k] \in Elems(s)
  BY <1>1 DEF Elems
<1>3. s \in [1 .. Len(s) -> Elems(s)]
  BY <1>1, <1>2
<1>4. QED
  BY <1>1, <1>3 DEF IsList

(* A list made of another, element by element.                             *)
LEMMA MadeIsList ==
  ASSUME NEW t, NEW n \in Nat, t = [k \in 1 .. n |-> t[k]]
  PROVE  IsList(t) /\ Len(t) = n
<1>1. \A k \in 1 .. n : t[k] \in Elems(t)
  BY DEF Elems
<1>2. t \in [1 .. n -> Elems(t)]
  BY <1>1
<1>3. QED
  BY <1>2 DEF IsList

(* The elements of a concatenation, by index.                              *)
LEMMA ConcatIs ==
  ASSUME NEW a, NEW b, IsList(a), IsList(b)
  PROVE  /\ IsList(a \o b) /\ Len(a \o b) = Len(a) + Len(b) /\ DOMAIN (a \o b) = 1 .. Len(a) + Len(b)
         /\ \A k \in 1 .. Len(a) : (a \o b)[k] = a[k] /\ k \in DOMAIN (a \o b)
         /\ \A k \in 1 .. Len(b) : (a \o b)[Len(a) + k] = b[k] /\ Len(a) + k \in DOMAIN (a \o b)
         /\ \A k \in DOMAIN (a \o b) : k \in 1 .. Len(a) \/ \E m \in 1 .. Len(b) : k = Len(a) + m
         /\ Elems(a \o b) = Elems(a) \union Elems(b)
<1> DEFINE c == a \o b
           T == Elems(a) \union Elems(b)
<1>1. Len(a) \in Nat /\ Len(b) \in Nat /\ a \in Seq(T) /\ b \in Seq(T)
  <2>1. a \in Seq(Elems(a)) /\ b \in Seq(Elems(b))
    BY DEF IsList
  <2>2. QED
    BY <2>1
<1>2. /\ c \in Seq(T) /\ Len(c) = Len(a) + Len(b)
      /\ \A k \in 1 .. Len(a) + Len(b) : c[k] = IF k <= Len(a) THEN a[k] ELSE b[k - Len(a)]
  BY <1>1, ConcatProperties
<1> HIDE DEF c
<1>3. IsList(c) /\ DOMAIN c = 1 .. Len(a) + Len(b)
  BY <1>1, <1>2, SequenceIsList
<1>4. \A k \in 1 .. Len(a) : c[k] = a[k] /\ k \in DOMAIN c
  <2> SUFFICES ASSUME NEW k \in 1 .. Len(a)
               PROVE  c[k] = a[k] /\ k \in DOMAIN c
    OBVIOUS
  <2>1. k \in 1 .. Len(a) + Len(b) /\ k <= Len(a)
    BY <1>1
  <2>2. QED
    BY <1>2, <1>3, <2>1
<1>5. \A k \in 1 .. Len(b) : c[Len(a) + k] = b[k] /\ Len(a) + k \in DOMAIN c
  <2> SUFFICES ASSUME NEW k \in 1 .. Len(b)
               PROVE  c[Len(a) + k] = b[k] /\ Len(a) + k \in DOMAIN c
    OBVIOUS
  <2>1. Len(a) + k \in 1 .. Len(a) + Len(b) /\ ~(Len(a) + k <= Len(a)) /\ (Len(a) + k) - Len(a) = k
    BY <1>1
  <2>2. QED
    BY <1>2, <1>3, <2>1
<1>6. \A k \in DOMAIN c : k \in 1 .. Len(a) \/ \E m \in 1 .. Len(b) : k = Len(a) + m
  <2> SUFFICES ASSUME NEW k \in 1 .. Len(a) + Len(b), k \notin 1 .. Len(a)
               PROVE  \E m \in 1 .. Len(b) : k = Len(a) + m
    BY <1>3
  <2>1. k - Len(a) \in 1 .. Len(b) /\ k = Len(a) + (k - Len(a))
    BY <1>1
  <2>2. QED
    BY <2>1
<1>7. Elems(c) = Elems(a) \union Elems(b)
  <2>1. /\ DOMAIN a = 1 .. Len(a) /\ DOMAIN b = 1 .. Len(b)
        /\ \A x \in Elems(a) : \E k \in 1 .. Len(a) : a[k] = x
        /\ \A x \in Elems(b) : \E k \in 1 .. Len(b) : b[k] = x
        /\ \A k \in 1 .. Len(a) : a[k] \in Elems(a)
        /\ \A k \in 1 .. Len(b) : b[k] \in Elems(b)
    BY ListIs
  <2>2. \A x \in Elems(a) \union Elems(b) : \E k \in DOMAIN c : c[k] = x
    BY <1>4, <1>5, <2>1
  <2>3. \A k \in DOMAIN c : c[k] \in Elems(a) \union Elems(b)
    BY <1>4, <1>5, <1>6, <2>1
  <2>4. QED
    BY <2>2, <2>3 DEF Elems
<1>8. QED
  BY <1>2, <1>3, <1>4, <1>5, <1>6, <1>7 DEF c

(* Parts with lines of different kinds make one part.                      *)
LEMMA FineTogether ==
  ASSUME NEW a, NEW b, NEW ka, NEW kb, NEW na, NEW nb, Fine(a, ka, na), Fine(b, kb, nb),
         ka \intersect kb = {},
         ka \intersect SymbolKinds = {} \/ kb \intersect SymbolKinds = {},
         ka \intersect PatternKinds = {} \/ kb \intersect PatternKinds = {}
  PROVE  Fine(a \o b, ka \union kb, na + nb)
<1> DEFINE c == a \o b
           n == Len(a)
<1>1. IsList(a) /\ IsList(b) /\ Len(a) = na /\ Len(b) = nb
  BY DEF Fine
<1>2. DOMAIN a = 1 .. Len(a) /\ DOMAIN b = 1 .. Len(b) /\ n \in Nat /\ Len(b) \in Nat
  BY <1>1, ListIs
<1>3. /\ IsList(c) /\ Len(c) = Len(a) + Len(b)
      /\ \A k \in 1 .. n : c[k] = a[k] /\ k \in DOMAIN c
      /\ \A k \in 1 .. Len(b) : c[n + k] = b[k] /\ n + k \in DOMAIN c
      /\ \A k \in DOMAIN c : k \in 1 .. n \/ \E m \in 1 .. Len(b) : k = n + m
      /\ Elems(c) = Elems(a) \union Elems(b)
  BY <1>1, ConcatIs
<1> HIDE DEF c, n
<1>4. (\A k \in 1 .. n : a[k].kind \in ka) /\ (\A k \in 1 .. Len(b) : b[k].kind \in kb)
  BY <1>2 DEF Fine, Kinds, n
<1>5. Kinds(c) \subseteq ka \union kb
  BY <1>3, <1>4 DEF Kinds
<1>6. SaidOnce(c)
  <2>1. \A i, k \in 1 .. n : a[i].about = a[k].about /\ a[i].kind = a[k].kind =>
                               i = k \/ a[i].about = <<>>
    BY <1>2 DEF Fine, SaidOnce, n
  <2>2. \A i, k \in 1 .. Len(b) : b[i].about = b[k].about /\ b[i].kind = b[k].kind =>
                                    i = k \/ b[i].about = <<>>
    BY <1>2 DEF Fine, SaidOnce
  <2>3. ASSUME NEW i \in DOMAIN c, NEW k \in DOMAIN c, c[i].about = c[k].about, c[i].kind = c[k].kind
        PROVE  i = k \/ c[i].about = <<>>
    <3>1. CASE i \in 1 .. n /\ k \in 1 .. n
      BY <1>3, <2>1, <2>3, <3>1
    <3>2. CASE i \in 1 .. n /\ k \notin 1 .. n
      BY <1>3, <1>4, <2>3, <3>2
    <3>3. CASE i \notin 1 .. n /\ k \in 1 .. n
      BY <1>3, <1>4, <2>3, <3>3
    <3>4. CASE i \notin 1 .. n /\ k \notin 1 .. n
      <4>1. PICK x \in 1 .. Len(b) : i = n + x
        BY <1>3, <3>4
      <4>2. PICK y \in 1 .. Len(b) : k = n + y
        BY <1>3, <3>4
      <4>3. c[i] = b[x] /\ c[k] = b[y]
        BY <1>3, <4>1, <4>2
      <4>4. x = y \/ b[x].about = <<>>
        BY <2>2, <2>3, <4>3
      <4>5. QED
        BY <4>1, <4>2, <4>3, <4>4
    <3>5. QED
      BY <3>1, <3>2, <3>3, <3>4
  <2>4. QED
    BY <2>3 DEF SaidOnce
<1>7. ASSUME NEW K, DefinedOnce(a, K), DefinedOnce(b, K), ka \intersect K = {} \/ kb \intersect K = {}
      PROVE  DefinedOnce(c, K)
  <2>1. \A i, k \in 1 .. n : a[i].kind \in K /\ a[k].kind \in K /\ a[i].defines = a[k].defines => i = k
    BY <1>2, <1>7 DEF DefinedOnce, n
  <2>2. \A i, k \in 1 .. Len(b) :
           b[i].kind \in K /\ b[k].kind \in K /\ b[i].defines = b[k].defines => i = k
    BY <1>2, <1>7 DEF DefinedOnce
  <2>3. ASSUME NEW i \in DOMAIN c, NEW k \in DOMAIN c, c[i].kind \in K, c[k].kind \in K,
               c[i].defines = c[k].defines
        PROVE  i = k
    <3>1. CASE i \in 1 .. n /\ k \in 1 .. n
      BY <1>3, <2>1, <2>3, <3>1
    <3>2. CASE i \in 1 .. n /\ k \notin 1 .. n
      BY <1>3, <1>4, <1>7, <2>3, <3>2
    <3>3. CASE i \notin 1 .. n /\ k \in 1 .. n
      BY <1>3, <1>4, <1>7, <2>3, <3>3
    <3>4. CASE i \notin 1 .. n /\ k \notin 1 .. n
      <4>1. PICK x \in 1 .. Len(b) : i = n + x
        BY <1>3, <3>4
      <4>2. PICK y \in 1 .. Len(b) : k = n + y
        BY <1>3, <3>4
      <4>3. c[i] = b[x] /\ c[k] = b[y]
        BY <1>3, <4>1, <4>2
      <4>4. x = y
        BY <2>2, <2>3, <4>3
      <4>5. QED
        BY <4>1, <4>2, <4>4
    <3>5. QED
      BY <3>1, <3>2, <3>3, <3>4
  <2>4. QED
    BY <2>3 DEF DefinedOnce
<1>8. DefinedOnce(c, SymbolKinds) /\ DefinedOnce(c, PatternKinds)
  BY <1>7 DEF Fine
<1>9. \A l \in Elems(c) : Sound(l)
  BY <1>3 DEF Fine
<1>10. QED
  BY <1>1, <1>3, <1>5, <1>6, <1>8, <1>9 DEF Fine, c, n

-----------------------------------------------------------------------------
(* What the checks say of a model. *)

(* What the checks have found nothing wrong with.                          *)
IdentitiesFine == BadUuids = {} /\ BadSymbols = {} /\ BadPatternIds = {}

ReferencesFine ==
    /\ BadReactions = {} /\ BadPipeOverrides = {} /\ BadTankOverrides = {}
    /\ BadGlobalQuality = {} /\ BadNodeQuality = {} /\ BadPipeQuality = {} /\ BadSources = {}

NumbersFine ==
    /\ \A k \in DOMAIN model.species : ~BadDispersion(model.species[k])
    /\ \A k \in DOMAIN model.patterns : model.patterns[k].multipliers # 0

ExpressionsFine ==
    /\ \A k \in DOMAIN model.terms : ~BadExpression(model.terms[k].expression)
    /\ \A k \in DOMAIN model.reactions : ~BadExpression(model.reactions[k].expression)

(* The lists of a model.                                                   *)
LEMMA ModelsHaveLists ==
  ASSUME model \in Models
  PROVE  /\ \A s \in {model.species, model.constants, model.parameters, model.terms, model.patterns,
                      model.reactions, model.pipe_overrides, model.tank_overrides, model.global_quality,
                      model.node_quality, model.pipe_quality, model.sources} :
              IsList(s) /\ Len(s) \in Nat /\ DOMAIN s = 1 .. Len(s)
         /\ \A s \in {model.species, model.constants, model.parameters, model.terms, model.patterns} :
              \A k \in 1 .. Len(s) : s[k].id \in Names
         /\ \A k \in 1 .. Len(model.reactions) : model.reactions[k].location \in {"PIPES", "TANKS"}
         /\ \A k \in 1 .. Len(model.patterns) : model.patterns[k].multipliers \in Nat
<1> DEFINE Bundled == [uuid : Reference, id : Names, type : {"Bulk", "Wall"},
                       dispersion : SUBSET {"diffusivity", "fixed"}, good : BOOLEAN]
           Patterned == [uuid : Reference, id : Names, multipliers : Nat, good : BOOLEAN]
           Reacting == [uuid : Reference, species : Reference, location : {"PIPES", "TANKS"},
                        expression : Expression]
           Sourced == [object : Reference, species : Reference, pattern : Reference, good : BOOLEAN]
<1>1. /\ model.species \in Seq(Bundled) /\ model.constants \in Seq(Value)
      /\ model.parameters \in Seq(Value) /\ model.terms \in Seq(Term)
      /\ model.patterns \in Seq(Patterned) /\ model.reactions \in Seq(Reacting)
      /\ model.pipe_overrides \in Seq(Override) /\ model.tank_overrides \in Seq(Override)
      /\ model.global_quality \in Seq(Quality) /\ model.node_quality \in Seq(Quality)
      /\ model.pipe_quality \in Seq(Quality) /\ model.sources \in Seq(Sourced)
  <2>1. model \in Model
    BY ModelsAssumption
  <2>2. QED
    BY <2>1 DEF Model
<1> HIDE DEF Bundled, Patterned, Reacting, Sourced
<1>2. ASSUME NEW T, NEW s \in Seq(T)
      PROVE  IsList(s) /\ Len(s) \in Nat /\ DOMAIN s = 1 .. Len(s) /\ \A k \in 1 .. Len(s) : s[k] \in T
  BY <1>2, SequenceIsList
<1>3. /\ IsList(model.species) /\ IsList(model.constants) /\ IsList(model.parameters)
      /\ IsList(model.terms) /\ IsList(model.patterns) /\ IsList(model.reactions)
      /\ IsList(model.pipe_overrides) /\ IsList(model.tank_overrides) /\ IsList(model.global_quality)
      /\ IsList(model.node_quality) /\ IsList(model.pipe_quality) /\ IsList(model.sources)
  BY <1>1, <1>2
<1>4. /\ \A k \in 1 .. Len(model.species) : model.species[k] \in Bundled
      /\ \A k \in 1 .. Len(model.constants) : model.constants[k] \in Value
      /\ \A k \in 1 .. Len(model.parameters) : model.parameters[k] \in Value
      /\ \A k \in 1 .. Len(model.terms) : model.terms[k] \in Term
      /\ \A k \in 1 .. Len(model.patterns) : model.patterns[k] \in Patterned
      /\ \A k \in 1 .. Len(model.reactions) : model.reactions[k] \in Reacting
  BY <1>1, <1>2
<1>5. /\ \A x \in Bundled \union Value \union Term \union Patterned : x.id \in Names
      /\ \A x \in Reacting : x.location \in {"PIPES", "TANKS"}
      /\ \A x \in Patterned : x.multipliers \in Nat
  BY DEF Bundled, Value, Term, Patterned, Reacting
<1>6. QED
  BY <1>3, <1>4, <1>5, ListIs

(* Where a symbol is among all of them.                                    *)
LEMMA SymbolsAre ==
  ASSUME model \in Models
  PROVE  /\ IsList(Symbols)
         /\ Len(Symbols) = Len(model.species) + Len(model.constants) + Len(model.parameters)
                           + Len(model.terms)
         /\ \A k \in 1 .. Len(model.species) : k \in 1 .. Len(Symbols) /\ Symbols[k] = model.species[k]
         /\ \A k \in 1 .. Len(model.parameters) :
              LET m == Len(model.species) + Len(model.constants) + k
              IN  m \in 1 .. Len(Symbols) /\ Symbols[m] = model.parameters[k]
<1> DEFINE a == model.species
           b == model.constants
           c == model.parameters
           d == model.terms
           ab == a \o b
           abc == ab \o c
<1>1. IsList(a) /\ IsList(b) /\ IsList(c) /\ IsList(d)
      /\ Len(a) \in Nat /\ Len(b) \in Nat /\ Len(c) \in Nat /\ Len(d) \in Nat
  BY ModelsHaveLists
<1>2. Symbols = abc \o d
  BY DEF Symbols
<1> HIDE DEF a, b, c, d
<1>3. /\ IsList(ab) /\ Len(ab) = Len(a) + Len(b)
      /\ \A k \in 1 .. Len(a) : ab[k] = a[k]
  BY <1>1, ConcatIs
<1> HIDE DEF ab
<1>4. /\ IsList(abc) /\ Len(abc) = Len(ab) + Len(c)
      /\ \A k \in 1 .. Len(ab) : abc[k] = ab[k]
      /\ \A k \in 1 .. Len(c) : abc[Len(ab) + k] = c[k]
  BY <1>1, <1>3, ConcatIs
<1> HIDE DEF abc
<1>5. /\ IsList(Symbols) /\ Len(Symbols) = Len(abc) + Len(d)
      /\ \A k \in 1 .. Len(abc) : Symbols[k] = abc[k]
  BY <1>1, <1>2, <1>4, ConcatIs
<1>6. \A k \in 1 .. Len(a) : k \in 1 .. Len(ab) /\ k \in 1 .. Len(abc) /\ k \in 1 .. Len(Symbols)
  BY <1>1, <1>3, <1>4, <1>5
<1>7. \A k \in 1 .. Len(a) : k \in 1 .. Len(Symbols) /\ Symbols[k] = a[k]
  BY <1>3, <1>4, <1>5, <1>6
<1>8. \A k \in 1 .. Len(c) : Len(ab) + k \in 1 .. Len(abc) /\ Len(ab) + k \in 1 .. Len(Symbols)
  BY <1>1, <1>3, <1>4, <1>5
<1>9. \A k \in 1 .. Len(c) : Len(ab) + k \in 1 .. Len(Symbols) /\ Symbols[Len(ab) + k] = c[k]
  BY <1>4, <1>5, <1>8
<1>10. Len(Symbols) = Len(a) + Len(b) + Len(c) + Len(d)
  BY <1>1, <1>3, <1>4, <1>5
<1>11. QED
  BY <1>3, <1>5, <1>7, <1>9, <1>10 DEF a, b, c, d

(* After validateIdentities no two symbols share an ID or a UUID.          *)
LEMMA IdentitiesAreUnique ==
  ASSUME model \in Models, IdentitiesFine
  PROVE  /\ \A i, k \in 1 .. Len(Symbols) : Symbols[i].id = Symbols[k].id => i = k
         /\ \A i, k \in 1 .. Len(model.patterns) : model.patterns[i].id = model.patterns[k].id => i = k
         /\ \A i, k \in 1 .. Len(model.species) : model.species[i].id = model.species[k].id => i = k
         /\ \A i, k \in 1 .. Len(model.parameters) : model.parameters[i].id = model.parameters[k].id => i = k
         /\ \A i, k \in 1 .. Len(model.species) : model.species[i].uuid = model.species[k].uuid => i = k
         /\ \A i, k \in 1 .. Len(model.parameters) :
              model.parameters[i].uuid = model.parameters[k].uuid => i = k
         /\ \A i, k \in 1 .. Len(model.patterns) : model.patterns[i].uuid = model.patterns[k].uuid => i = k
<1>1. /\ IsList(Symbols) /\ Len(Symbols) \in Nat /\ DOMAIN Symbols = 1 .. Len(Symbols)
      /\ IsList(model.patterns) /\ Len(model.patterns) \in Nat
      /\ DOMAIN model.patterns = 1 .. Len(model.patterns)
      /\ Len(model.species) \in Nat /\ Len(model.constants) \in Nat /\ Len(model.parameters) \in Nat
  BY ModelsHaveLists, SymbolsAre, ListIs
<1>2. \A i, k \in 1 .. Len(Symbols) : Symbols[i].id = Symbols[k].id => i = k
  <2>1. \A k \in 1 .. Len(Symbols) : ~\E j \in 1 .. k - 1 : Symbols[j].id = Symbols[k].id
    BY <1>1 DEF IdentitiesFine, BadSymbols, Repeats
  <2>2. QED
    BY <1>1, <2>1
<1>3. \A i, k \in 1 .. Len(model.patterns) : model.patterns[i].id = model.patterns[k].id => i = k
  <2>1. \A k \in 1 .. Len(model.patterns) :
          ~\E j \in 1 .. k - 1 : model.patterns[j].id = model.patterns[k].id
    BY <1>1 DEF IdentitiesFine, BadPatternIds, Repeats
  <2>2. QED
    BY <1>1, <2>1
<1> DEFINE s == Symbols \o model.patterns
           p == [k \in 1 .. Len(s) |-> s[k].uuid]
           q == [k \in DOMAIN model.reactions |-> model.reactions[k].uuid]
           all == p \o q
<1>4. /\ IsList(s) /\ Len(s) = Len(Symbols) + Len(model.patterns)
      /\ \A k \in 1 .. Len(Symbols) : s[k] = Symbols[k]
      /\ \A k \in 1 .. Len(model.patterns) : s[Len(Symbols) + k] = model.patterns[k]
  BY <1>1, ConcatIs
<1>5. Repeats(all, LAMBDA u : u) = {}
  BY DEF IdentitiesFine, BadUuids, EveryUuid
<1> HIDE DEF s
<1>6. IsList(p) /\ Len(p) = Len(s) /\ Len(s) \in Nat
  <2>1. Len(s) \in Nat
    BY <1>4, ListIs
  <2>2. p = [k \in 1 .. Len(s) |-> p[k]]
    OBVIOUS
  <2> HIDE DEF p
  <2>3. QED
    BY <2>1, <2>2, MadeIsList
<1>7. IsList(q)
  BY ModelsHaveLists, MadeIsList
<1>8. \A k \in 1 .. Len(s) : all[k] = s[k].uuid /\ k \in DOMAIN all
  <2> HIDE DEF q
  <2>1. \A k \in 1 .. Len(p) : (p \o q)[k] = p[k] /\ k \in DOMAIN (p \o q)
    <3> HIDE DEF p
    <3>1. QED
      BY <1>6, <1>7, ConcatIs
  <2>2. QED
    BY <1>6, <2>1
<1> HIDE DEF p, q, all
<1>9. \A i, k \in 1 .. Len(s) : s[i].uuid = s[k].uuid => i = k
  <2>1. \A k \in 1 .. Len(s) : ~\E j \in 1 .. k - 1 : all[j] = all[k]
    BY <1>5, <1>8 DEF Repeats
  <2>2. \A i, k \in 1 .. Len(s) : all[i] = all[k] => i = k
    BY <1>6, <2>1
  <2>3. QED
    BY <1>8, <2>2
<1>10. \A i, k \in 1 .. Len(model.patterns) : model.patterns[i].uuid = model.patterns[k].uuid => i = k
  <2>1. \A i \in 1 .. Len(model.patterns) : Len(Symbols) + i \in 1 .. Len(s)
    BY <1>1, <1>4
  <2>2. ASSUME NEW i \in 1 .. Len(model.patterns), NEW k \in 1 .. Len(model.patterns),
               model.patterns[i].uuid = model.patterns[k].uuid
        PROVE  Len(Symbols) + i = Len(Symbols) + k
    <3>1. s[Len(Symbols) + i].uuid = s[Len(Symbols) + k].uuid
      BY <1>4, <2>2
    <3>2. QED
      BY <1>9, <2>1, <3>1
  <2>3. QED
    BY <1>1, <2>2
<1>11. \A i, k \in 1 .. Len(Symbols) : Symbols[i].uuid = Symbols[k].uuid => i = k
  <2>1. \A i \in 1 .. Len(Symbols) : i \in 1 .. Len(s)
    BY <1>1, <1>4
  <2>2. QED
    BY <1>4, <1>9, <2>1
<1>12. /\ \A i, k \in 1 .. Len(model.species) : model.species[i].id = model.species[k].id => i = k
       /\ \A i, k \in 1 .. Len(model.species) : model.species[i].uuid = model.species[k].uuid => i = k
  BY <1>2, <1>11, SymbolsAre
<1>13. /\ \A i, k \in 1 .. Len(model.parameters) : model.parameters[i].id = model.parameters[k].id => i = k
       /\ \A i, k \in 1 .. Len(model.parameters) :
            model.parameters[i].uuid = model.parameters[k].uuid => i = k
  <2> DEFINE n == Len(model.species) + Len(model.constants)
  <2>1. n \in Nat
    <3>1. PICK a \in Nat : a = Len(model.species)
      BY <1>1
    <3>2. PICK b \in Nat : b = Len(model.constants)
      BY <1>1
    <3>3. n = a + b
      BY <3>1, <3>2
    <3> HIDE DEF n
    <3>4. QED
      BY <3>3
  <2>2. \A k \in 1 .. Len(model.parameters) :
          n + k \in 1 .. Len(Symbols) /\ Symbols[n + k] = model.parameters[k]
    BY SymbolsAre
  <2> HIDE DEF n
  <2>3. \A i, k \in 1 .. Len(model.parameters) :
          model.parameters[i].id = model.parameters[k].id
          \/ model.parameters[i].uuid = model.parameters[k].uuid => n + i = n + k
    BY <1>2, <1>11, <2>2
  <2>4. QED
    BY <2>1, <2>3
<1>14. QED
  BY <1>2, <1>3, <1>10, <1>12, <1>13

-----------------------------------------------------------------------------
(* IDs that are looked up. *)

(* A UUID that is there once is looked up.                                 *)
LEMMA IdIsFound ==
  ASSUME NEW s, IsList(s), NEW k \in 1 .. Len(s),
         \A i, j \in 1 .. Len(s) : s[i].uuid = s[j].uuid => i = j
  PROVE  IdOf(s, s[k].uuid) = s[k].id
<1>1. DOMAIN s = 1 .. Len(s)
  BY ListIs
<1>2. \E j \in DOMAIN s : s[j].uuid = s[k].uuid
  BY <1>1
<1> DEFINE c == CHOOSE j \in DOMAIN s : s[j].uuid = s[k].uuid
<1>3. c \in DOMAIN s /\ s[c].uuid = s[k].uuid
  BY <1>2
<1>4. IdOf(s, s[k].uuid) = s[c].id
  BY <1>2 DEF IdOf
<1> HIDE DEF c
<1>5. c = k
  BY <1>1, <1>3
<1>6. QED
  BY <1>4, <1>5

(* The IDs of species tell them apart, and a species that is no wall does  *)
(* not have the ID of one.                                                 *)
LEMMA SpeciesIdsAre ==
  ASSUME model \in Models, IdentitiesFine
  PROVE  /\ \A u \in UuidsOf(model.species) : SpeciesId(u) \in Names
         /\ \A u, v \in UuidsOf(model.species) : SpeciesId(u) = SpeciesId(v) => u = v
         /\ \A u \in UuidsOf(model.species) : ~IsWall(u) =>
              \A k \in DOMAIN model.species :
                 model.species[k].type = "Wall" => model.species[k].id # SpeciesId(u)
<1> DEFINE s == model.species
<1>1. /\ IsList(s) /\ Len(s) \in Nat /\ DOMAIN s = 1 .. Len(s)
      /\ \A k \in 1 .. Len(s) : s[k].id \in Names
  BY ModelsHaveLists
<1>2. /\ \A i, j \in 1 .. Len(s) : s[i].uuid = s[j].uuid => i = j
      /\ \A i, j \in 1 .. Len(s) : s[i].id = s[j].id => i = j
  BY IdentitiesAreUnique
<1>3. \A k \in 1 .. Len(s) : SpeciesId(s[k].uuid) = s[k].id
  BY <1>1, <1>2, IdIsFound DEF SpeciesId
<1>4. \A u \in UuidsOf(s) : \E k \in 1 .. Len(s) : u = s[k].uuid
  BY <1>1 DEF UuidsOf
<1>5. \A k \in 1 .. Len(s) : s[k].type = "Wall" => IsWall(s[k].uuid)
  <2> SUFFICES ASSUME NEW k \in 1 .. Len(s), s[k].type = "Wall"
               PROVE  IsWall(s[k].uuid)
    OBVIOUS
  <2>1. \A j \in k + 1 .. Len(s) : j \in 1 .. Len(s) /\ j # k
    BY <1>1
  <2>2. \A j \in k + 1 .. Len(s) : s[j].uuid # s[k].uuid
    BY <1>2, <2>1
  <2>3. QED
    BY <1>1, <2>2 DEF IsWall
<1> HIDE DEF s
<1>6. \A u \in UuidsOf(s) : SpeciesId(u) \in Names
  BY <1>1, <1>3, <1>4
<1>7. \A u, v \in UuidsOf(s) : SpeciesId(u) = SpeciesId(v) => u = v
  BY <1>2, <1>3, <1>4
<1>8. ASSUME NEW u \in UuidsOf(s), ~IsWall(u), NEW k \in DOMAIN s, s[k].type = "Wall", s[k].id = SpeciesId(u)
      PROVE  FALSE
  <2>1. PICK i \in 1 .. Len(s) : u = s[i].uuid
    BY <1>4
  <2>2. s[i].id = s[k].id /\ k \in 1 .. Len(s)
    BY <1>1, <1>3, <1>8, <2>1
  <2>3. i = k
    BY <1>2, <2>2
  <2>4. QED
    BY <1>5, <1>8, <2>1, <2>2, <2>3
<1>9. QED
  BY <1>6, <1>7, <1>8 DEF s

(* So do those of the parameters.                                          *)
LEMMA ParameterIdsAre ==
  ASSUME model \in Models, IdentitiesFine
  PROVE  /\ \A u \in UuidsOf(model.parameters) : ParameterId(u) \in Names
         /\ \A u, v \in UuidsOf(model.parameters) : ParameterId(u) = ParameterId(v) => u = v
<1> DEFINE s == model.parameters
<1>1. /\ IsList(s) /\ Len(s) \in Nat /\ DOMAIN s = 1 .. Len(s)
      /\ \A k \in 1 .. Len(s) : s[k].id \in Names
  BY ModelsHaveLists
<1>2. /\ \A i, j \in 1 .. Len(s) : s[i].uuid = s[j].uuid => i = j
      /\ \A i, j \in 1 .. Len(s) : s[i].id = s[j].id => i = j
  BY IdentitiesAreUnique
<1>3. \A k \in 1 .. Len(s) : ParameterId(s[k].uuid) = s[k].id
  BY <1>1, <1>2, IdIsFound DEF ParameterId
<1>4. \A u \in UuidsOf(s) : \E k \in 1 .. Len(s) : u = s[k].uuid
  BY <1>1 DEF UuidsOf
<1> HIDE DEF s
<1>5. QED
  BY <1>1, <1>2, <1>3, <1>4 DEF s

(* A pattern is found by its UUID.                                         *)
LEMMA PatternIdsAre ==
  ASSUME model \in Models, IdentitiesFine
  PROVE  \A u \in UuidsOf(model.patterns) :
           IdOf(model.patterns, u) \in Names /\ IdOf(model.patterns, u) \in IdsOf(model.patterns)
<1> DEFINE s == model.patterns
<1>1. /\ IsList(s) /\ Len(s) \in Nat /\ DOMAIN s = 1 .. Len(s)
      /\ \A k \in 1 .. Len(s) : s[k].id \in Names
  BY ModelsHaveLists
<1>2. \A i, j \in 1 .. Len(s) : s[i].uuid = s[j].uuid => i = j
  BY IdentitiesAreUnique
<1>3. \A k \in 1 .. Len(s) : IdOf(s, s[k].uuid) = s[k].id
  BY <1>1, <1>2, IdIsFound
<1>4. \A u \in UuidsOf(s) : \E k \in 1 .. Len(s) : u = s[k].uuid
  BY <1>1 DEF UuidsOf
<1>5. \A k \in 1 .. Len(s) : s[k].id \in IdsOf(s)
  BY <1>1 DEF IdsOf
<1> HIDE DEF s
<1>6. QED
  BY <1>1, <1>3, <1>4, <1>5 DEF s

(* IDs, and what a line says of them.                                      *)
LEMMA NamesAre ==
  ASSUME NEW x \in Names
  PROVE  x # NoRef /\ x \notin Nodes /\ x \notin Pipes
BY NamesAssumption

LEMMA AboutIs ==
  /\ Elems(<<>>) = {}
  /\ \A x : Elems(<<x>>) = {x}
  /\ \A x, y : Elems(<<x, y>>) = {x, y}
<1>1. Elems(<<>>) = {}
  BY DEF Elems
<1>2. \A x : Elems(<<x>>) = {x}
  BY DEF Elems
<1>3. ASSUME NEW x, NEW y
      PROVE  Elems(<<x, y>>) = {x, y}
  <2>1. DOMAIN <<x, y>> = {1, 2} /\ <<x, y>>[1] = x /\ <<x, y>>[2] = y
    OBVIOUS
  <2>2. QED
    BY <2>1 DEF Elems
<1>4. QED
  BY <1>1, <1>2, <1>3

(* A line about a species or about a species at a place, and when it is    *)
(* as it should be.                                                        *)
LEMMA SaysOne ==
  ASSUME NEW kind, kind \notin PatternKinds, NEW x \in Names, NEW symbols, symbols \subseteq IdsOf(Symbols),
         kind \in {"SOURCES", "TANKS", "DIFFUSIVITY"} =>
           \A k \in DOMAIN model.species : model.species[k].type = "Wall" => model.species[k].id # x
  PROVE  Sound(Line(kind, NoRef, <<x>>, {}, symbols))
<1> DEFINE l == Line(kind, NoRef, <<x>>, {}, symbols)
<1>1. /\ l.kind = kind /\ l.defines = NoRef /\ l.about = <<x>> /\ l.pattern = {} /\ l.symbols = symbols
  BY DEF Line
<1> HIDE DEF l
<1>2. Elems(l.about) = {x}
  BY <1>1, AboutIs
<1>3. x # NoRef /\ x \notin Nodes /\ x \notin Pipes
  BY NamesAre
<1>4. Sound(l)
  BY <1>1, <1>2, <1>3 DEF Sound, Unresolved
<1>5. QED
  BY <1>4 DEF l

LEMMA SaysTwo ==
  ASSUME NEW kind, kind \notin PatternKinds, NEW o \in Enabled, o # NoRef, NEW x \in Names,
         NEW pattern, pattern \subseteq IdsOf(model.patterns), NoRef \notin pattern,
         kind \in {"SOURCES", "TANKS", "DIFFUSIVITY"} =>
           /\ o \notin Names /\ \A k \in DOMAIN model.species : model.species[k].id \in Names
           /\ \A k \in DOMAIN model.species : model.species[k].type = "Wall" => model.species[k].id # x
  PROVE  Sound(Line(kind, NoRef, <<o, x>>, pattern, {}))
<1> DEFINE l == Line(kind, NoRef, <<o, x>>, pattern, {})
<1>1. /\ l.kind = kind /\ l.defines = NoRef /\ l.about = <<o, x>> /\ l.pattern = pattern /\ l.symbols = {}
  BY DEF Line
<1> HIDE DEF l
<1>2. Elems(l.about) = {o, x}
  BY <1>1, AboutIs
<1>3. x # NoRef /\ x \notin Nodes /\ x \notin Pipes
  BY NamesAre
<1>4. Sound(l)
  BY <1>1, <1>2, <1>3 DEF Sound, Unresolved
<1>5. QED
  BY <1>4 DEF l

(* A section whose lines say something, each of something else.            *)
LEMMA SayingIsFine ==
  ASSUME NEW n \in Nat, NEW t, t = [k \in 1 .. n |-> t[k]],
         NEW kind, kind \notin SymbolKinds, kind \notin PatternKinds,
         \A k \in 1 .. n : t[k].kind = kind /\ Sound(t[k]),
         \A i, k \in 1 .. n : t[i].about = t[k].about => i = k
  PROVE  Fine(t, {kind}, n)
<1>1. IsList(t) /\ Len(t) = n /\ DOMAIN t = 1 .. n
  BY MadeIsList
<1>2. Kinds(t) \subseteq {kind} /\ \A l \in Elems(t) : Sound(l)
  BY <1>1 DEF Kinds, Elems
<1>3. SaidOnce(t)
  BY <1>1 DEF SaidOnce
<1>4. DefinedOnce(t, SymbolKinds) /\ DefinedOnce(t, PatternKinds)
  BY <1>1 DEF DefinedOnce
<1>5. QED
  BY <1>1, <1>2, <1>3, <1>4 DEF Fine

-----------------------------------------------------------------------------
(* The sections. *)

LEMMA LineIs ==
  ASSUME NEW x, NEW kind, NEW about, NEW pattern, NEW symbols, x = Line(kind, NoRef, about, pattern, symbols)
  PROVE  x.kind = kind /\ x.about = about
BY DEF Line

LEMMA AboutTells ==
  /\ \A x, y : <<x>> = <<y>> => x = y
  /\ \A x, y, v, w : <<x, y>> = <<v, w>> => x = v /\ y = w
OBVIOUS

(* The sections, one after the other: each is as it should be, and none of *)
(* its lines is unresolved.                                                *)
LEMMA GlobalQualityIsFine ==
  ASSUME model \in Models, IdentitiesFine, ReferencesFine
  PROVE  Fine(Saying("GLOBAL_QUALITY", model.global_quality, LAMBDA q : <<SpeciesId(q.species)>>),
              {"GLOBAL_QUALITY"}, Len(model.global_quality))
<1> DEFINE s == model.global_quality
           n == Len(s)
           t == Saying("GLOBAL_QUALITY", s, LAMBDA q : <<SpeciesId(q.species)>>)
<1>1. n \in Nat /\ DOMAIN s = 1 .. n
  BY ModelsHaveLists
<1>2. t = [k \in 1 .. n |-> Line("GLOBAL_QUALITY", NoRef, <<SpeciesId(s[k].species)>>, {}, {})]
  BY <1>1 DEF Saying
<1>3. \A k \in 1 .. n : s[k].species \in UuidsOf(model.species)
  BY <1>1 DEF ReferencesFine, BadGlobalQuality, Where, LacksSpecies, Lacks
<1>4. \A i, k \in 1 .. n : s[i].species = s[k].species => i = k
  <2>1. \A k \in 1 .. n : ~\E j \in 1 .. k - 1 : s[j].species = s[k].species
    BY <1>1 DEF ReferencesFine, BadGlobalQuality, Where, Repeats
  <2>2. QED
    BY <1>1, <2>1
<1> HIDE DEF t, n, s
<1>5. \A k \in 1 .. n : t[k] = Line("GLOBAL_QUALITY", NoRef, <<SpeciesId(s[k].species)>>, {}, {})
  BY <1>2
<1>6. \A k \in 1 .. n : t[k].kind = "GLOBAL_QUALITY" /\ t[k].about = <<SpeciesId(s[k].species)>>
  <2> SUFFICES ASSUME NEW k \in 1 .. n
               PROVE  t[k].kind = "GLOBAL_QUALITY" /\ t[k].about = <<SpeciesId(s[k].species)>>
    OBVIOUS
  <2> DEFINE a == <<SpeciesId(s[k].species)>>
  <2>1. t[k] = Line("GLOBAL_QUALITY", NoRef, a, {}, {})
    BY <1>5
  <2> HIDE DEF a
  <2>2. t[k].kind = "GLOBAL_QUALITY" /\ t[k].about = a
    BY <2>1, LineIs
  <2>3. QED
    BY <2>2 DEF a
<1>7. ASSUME NEW k \in 1 .. n
      PROVE  Sound(t[k])
  <2>1. SpeciesId(s[k].species) \in Names
    BY <1>3, SpeciesIdsAre
  <2>2. Sound(Line("GLOBAL_QUALITY", NoRef, <<SpeciesId(s[k].species)>>, {}, {}))
    BY <2>1, SaysOne DEF PatternKinds
  <2>3. QED
    BY <1>5, <2>2
<1>8. ASSUME NEW i \in 1 .. n, NEW k \in 1 .. n, t[i].about = t[k].about
      PROVE  i = k
  <2>1. SpeciesId(s[i].species) = SpeciesId(s[k].species)
    <3>1. <<SpeciesId(s[i].species)>> = <<SpeciesId(s[k].species)>>
      BY <1>6, <1>8, Zenon
    <3>2. QED
      BY <3>1, AboutTells
  <2>2. QED
    BY <1>3, <1>4, <2>1, SpeciesIdsAre
<1>9. Fine(t, {"GLOBAL_QUALITY"}, n)
  BY <1>1, <1>2, <1>6, <1>7, <1>8, SayingIsFine DEF SymbolKinds, PatternKinds
<1>10. QED
  BY <1>9 DEF t, n, s

LEMMA NodeQualityIsFine ==
  ASSUME model \in Models, IdentitiesFine, ReferencesFine
  PROVE  Fine(Saying("NODE_QUALITY", model.node_quality,
                     LAMBDA q : <<Known(q.object, Nodes), SpeciesId(q.species)>>),
              {"NODE_QUALITY"}, Len(model.node_quality))
<1> DEFINE s == model.node_quality
           n == Len(s)
           t == Saying("NODE_QUALITY", s, LAMBDA q : <<Known(q.object, Nodes), SpeciesId(q.species)>>)
           ID(u) == SpeciesId(u)
<1>1. n \in Nat /\ DOMAIN s = 1 .. n
  BY ModelsHaveLists
<1>2. \A k \in 1 .. n : /\ s[k].object # NoRef /\ s[k].object \in Nodes \intersect Enabled
                        /\ s[k].species \in UuidsOf(model.species)
  BY <1>1 DEF ReferencesFine, BadNodeQuality, Where, LacksSpecies, Lacks
<1>3. \A i, k \in 1 .. n : s[i].object = s[k].object /\ s[i].species = s[k].species => i = k
  <2>1. \A k \in 1 .. n : ~\E j \in 1 .. k - 1 :
           <<s[j].object, s[j].species>> = <<s[k].object, s[k].species>>
    BY <1>1 DEF ReferencesFine, BadNodeQuality, Where, Repeats
  <2>2. QED
    BY <1>1, <2>1
<1>4. t = [k \in 1 .. n |-> Line("NODE_QUALITY", NoRef, <<Known(s[k].object, Nodes), ID(s[k].species)>>,
                               {}, {})]
  BY <1>1 DEF Saying
<1> HIDE DEF t, n, s
<1>5. \A k \in 1 .. n : t[k] = Line("NODE_QUALITY", NoRef, <<s[k].object, ID(s[k].species)>>, {}, {})
  BY <1>2, <1>4 DEF Known
<1>6. \A k \in 1 .. n : t[k].kind = "NODE_QUALITY" /\ t[k].about = <<s[k].object, ID(s[k].species)>>
  <2> SUFFICES ASSUME NEW k \in 1 .. n
               PROVE  t[k].kind = "NODE_QUALITY" /\ t[k].about = <<s[k].object, ID(s[k].species)>>
    OBVIOUS
  <2> DEFINE a == <<s[k].object, ID(s[k].species)>>
             p == {}
  <2>1. t[k] = Line("NODE_QUALITY", NoRef, a, p, {})
    BY <1>5
  <2> HIDE DEF a, p
  <2>2. t[k].kind = "NODE_QUALITY" /\ t[k].about = a
    BY <2>1, LineIs
  <2>3. QED
    BY <2>2 DEF a
<1>7. ASSUME NEW k \in 1 .. n
      PROVE  Sound(t[k])
  <2>1. ID(s[k].species) \in Names
    BY <1>2, SpeciesIdsAre
  <2>2. Sound(Line("NODE_QUALITY", NoRef, <<s[k].object, ID(s[k].species)>>, {}, {}))
    BY <1>2, <2>1, SaysTwo DEF PatternKinds
  <2>3. QED
    BY <1>5, <2>2
<1>8. ASSUME NEW i \in 1 .. n, NEW k \in 1 .. n, t[i].about = t[k].about
      PROVE  i = k
  <2>1. s[i].object = s[k].object /\ ID(s[i].species) = ID(s[k].species)
    <3>1. <<s[i].object, ID(s[i].species)>> = <<s[k].object, ID(s[k].species)>>
      BY <1>6, <1>8, Zenon
    <3>2. QED
      BY <3>1, AboutTells
  <2>2. s[i].species = s[k].species
    BY <1>2, <2>1, SpeciesIdsAre
  <2>3. QED
    BY <1>3, <2>1, <2>2
<1> HIDE DEF ID
<1>9. Fine(t, {"NODE_QUALITY"}, n)
  BY <1>1, <1>4, <1>6, <1>7, <1>8, SayingIsFine DEF SymbolKinds, PatternKinds
<1>10. QED
  BY <1>9 DEF t, n, s

LEMMA PipeQualityIsFine ==
  ASSUME model \in Models, IdentitiesFine, ReferencesFine
  PROVE  Fine(Saying("LINK_QUALITY", model.pipe_quality,
                     LAMBDA q : <<Known(q.object, Pipes), SpeciesId(q.species)>>),
              {"LINK_QUALITY"}, Len(model.pipe_quality))
<1> DEFINE s == model.pipe_quality
           n == Len(s)
           t == Saying("LINK_QUALITY", s, LAMBDA q : <<Known(q.object, Pipes), SpeciesId(q.species)>>)
           ID(u) == SpeciesId(u)
<1>1. n \in Nat /\ DOMAIN s = 1 .. n
  BY ModelsHaveLists
<1>2. \A k \in 1 .. n : /\ s[k].object # NoRef /\ s[k].object \in Pipes \intersect Enabled
                        /\ s[k].species \in UuidsOf(model.species)
  BY <1>1 DEF ReferencesFine, BadPipeQuality, Where, LacksSpecies, Lacks
<1>3. \A i, k \in 1 .. n : s[i].object = s[k].object /\ s[i].species = s[k].species => i = k
  <2>1. \A k \in 1 .. n : ~\E j \in 1 .. k - 1 :
           <<s[j].object, s[j].species>> = <<s[k].object, s[k].species>>
    BY <1>1 DEF ReferencesFine, BadPipeQuality, Where, Repeats
  <2>2. QED
    BY <1>1, <2>1
<1>4. t = [k \in 1 .. n |-> Line("LINK_QUALITY", NoRef, <<Known(s[k].object, Pipes), ID(s[k].species)>>,
                               {}, {})]
  BY <1>1 DEF Saying
<1> HIDE DEF t, n, s
<1>5. \A k \in 1 .. n : t[k] = Line("LINK_QUALITY", NoRef, <<s[k].object, ID(s[k].species)>>, {}, {})
  BY <1>2, <1>4 DEF Known
<1>6. \A k \in 1 .. n : t[k].kind = "LINK_QUALITY" /\ t[k].about = <<s[k].object, ID(s[k].species)>>
  <2> SUFFICES ASSUME NEW k \in 1 .. n
               PROVE  t[k].kind = "LINK_QUALITY" /\ t[k].about = <<s[k].object, ID(s[k].species)>>
    OBVIOUS
  <2> DEFINE a == <<s[k].object, ID(s[k].species)>>
             p == {}
  <2>1. t[k] = Line("LINK_QUALITY", NoRef, a, p, {})
    BY <1>5
  <2> HIDE DEF a, p
  <2>2. t[k].kind = "LINK_QUALITY" /\ t[k].about = a
    BY <2>1, LineIs
  <2>3. QED
    BY <2>2 DEF a
<1>7. ASSUME NEW k \in 1 .. n
      PROVE  Sound(t[k])
  <2>1. ID(s[k].species) \in Names
    BY <1>2, SpeciesIdsAre
  <2>2. Sound(Line("LINK_QUALITY", NoRef, <<s[k].object, ID(s[k].species)>>, {}, {}))
    BY <1>2, <2>1, SaysTwo DEF PatternKinds
  <2>3. QED
    BY <1>5, <2>2
<1>8. ASSUME NEW i \in 1 .. n, NEW k \in 1 .. n, t[i].about = t[k].about
      PROVE  i = k
  <2>1. s[i].object = s[k].object /\ ID(s[i].species) = ID(s[k].species)
    <3>1. <<s[i].object, ID(s[i].species)>> = <<s[k].object, ID(s[k].species)>>
      BY <1>6, <1>8, Zenon
    <3>2. QED
      BY <3>1, AboutTells
  <2>2. s[i].species = s[k].species
    BY <1>2, <2>1, SpeciesIdsAre
  <2>3. QED
    BY <1>3, <2>1, <2>2
<1> HIDE DEF ID
<1>9. Fine(t, {"LINK_QUALITY"}, n)
  BY <1>1, <1>4, <1>6, <1>7, <1>8, SayingIsFine DEF SymbolKinds, PatternKinds
<1>10. QED
  BY <1>9 DEF t, n, s

LEMMA PipeOverridesIsFine ==
  ASSUME model \in Models, IdentitiesFine, ReferencesFine
  PROVE  Fine(Saying("PIPE_PARAMETERS", model.pipe_overrides,
                     LAMBDA o : <<Known(o.object, Pipes), ParameterId(o.parameter)>>),
              {"PIPE_PARAMETERS"}, Len(model.pipe_overrides))
<1> DEFINE s == model.pipe_overrides
           n == Len(s)
           t == Saying("PIPE_PARAMETERS", s, LAMBDA o : <<Known(o.object, Pipes), ParameterId(o.parameter)>>)
           ID(u) == ParameterId(u)
<1>1. n \in Nat /\ DOMAIN s = 1 .. n
  BY ModelsHaveLists
<1>2. \A k \in 1 .. n : /\ s[k].object # NoRef /\ s[k].object \in Pipes \intersect Enabled
                        /\ s[k].parameter \in UuidsOf(model.parameters)
  BY <1>1 DEF ReferencesFine, BadPipeOverrides, Where, LacksParameter, Lacks
<1>3. \A i, k \in 1 .. n : s[i].object = s[k].object /\ s[i].parameter = s[k].parameter => i = k
  <2>1. \A k \in 1 .. n : ~\E j \in 1 .. k - 1 :
           <<s[j].object, s[j].parameter>> = <<s[k].object, s[k].parameter>>
    BY <1>1 DEF ReferencesFine, BadPipeOverrides, Where, Repeats
  <2>2. QED
    BY <1>1, <2>1
<1>4. t = [k \in 1 .. n |-> Line("PIPE_PARAMETERS", NoRef, <<Known(s[k].object, Pipes), ID(s[k].parameter)>>,
                               {}, {})]
  BY <1>1 DEF Saying
<1> HIDE DEF t, n, s
<1>5. \A k \in 1 .. n : t[k] = Line("PIPE_PARAMETERS", NoRef, <<s[k].object, ID(s[k].parameter)>>, {}, {})
  BY <1>2, <1>4 DEF Known
<1>6. \A k \in 1 .. n : t[k].kind = "PIPE_PARAMETERS" /\ t[k].about = <<s[k].object, ID(s[k].parameter)>>
  <2> SUFFICES ASSUME NEW k \in 1 .. n
               PROVE  t[k].kind = "PIPE_PARAMETERS" /\ t[k].about = <<s[k].object, ID(s[k].parameter)>>
    OBVIOUS
  <2> DEFINE a == <<s[k].object, ID(s[k].parameter)>>
             p == {}
  <2>1. t[k] = Line("PIPE_PARAMETERS", NoRef, a, p, {})
    BY <1>5
  <2> HIDE DEF a, p
  <2>2. t[k].kind = "PIPE_PARAMETERS" /\ t[k].about = a
    BY <2>1, LineIs
  <2>3. QED
    BY <2>2 DEF a
<1>7. ASSUME NEW k \in 1 .. n
      PROVE  Sound(t[k])
  <2>1. ID(s[k].parameter) \in Names
    BY <1>2, ParameterIdsAre
  <2>2. Sound(Line("PIPE_PARAMETERS", NoRef, <<s[k].object, ID(s[k].parameter)>>, {}, {}))
    BY <1>2, <2>1, SaysTwo DEF PatternKinds
  <2>3. QED
    BY <1>5, <2>2
<1>8. ASSUME NEW i \in 1 .. n, NEW k \in 1 .. n, t[i].about = t[k].about
      PROVE  i = k
  <2>1. s[i].object = s[k].object /\ ID(s[i].parameter) = ID(s[k].parameter)
    <3>1. <<s[i].object, ID(s[i].parameter)>> = <<s[k].object, ID(s[k].parameter)>>
      BY <1>6, <1>8, Zenon
    <3>2. QED
      BY <3>1, AboutTells
  <2>2. s[i].parameter = s[k].parameter
    BY <1>2, <2>1, ParameterIdsAre
  <2>3. QED
    BY <1>3, <2>1, <2>2
<1> HIDE DEF ID
<1>9. Fine(t, {"PIPE_PARAMETERS"}, n)
  BY <1>1, <1>4, <1>6, <1>7, <1>8, SayingIsFine DEF SymbolKinds, PatternKinds
<1>10. QED
  BY <1>9 DEF t, n, s

LEMMA TankOverridesIsFine ==
  ASSUME model \in Models, IdentitiesFine, ReferencesFine
  PROVE  Fine(Saying("TANK_PARAMETERS", model.tank_overrides,
                     LAMBDA o : <<Known(o.object, Tanks), ParameterId(o.parameter)>>),
              {"TANK_PARAMETERS"}, Len(model.tank_overrides))
<1> DEFINE s == model.tank_overrides
           n == Len(s)
           t == Saying("TANK_PARAMETERS", s, LAMBDA o : <<Known(o.object, Tanks), ParameterId(o.parameter)>>)
           ID(u) == ParameterId(u)
<1>1. n \in Nat /\ DOMAIN s = 1 .. n
  BY ModelsHaveLists
<1>2. \A k \in 1 .. n : /\ s[k].object # NoRef /\ s[k].object \in Tanks \intersect Enabled
                        /\ s[k].parameter \in UuidsOf(model.parameters)
  BY <1>1 DEF ReferencesFine, BadTankOverrides, Where, LacksParameter, Lacks
<1>3. \A i, k \in 1 .. n : s[i].object = s[k].object /\ s[i].parameter = s[k].parameter => i = k
  <2>1. \A k \in 1 .. n : ~\E j \in 1 .. k - 1 :
           <<s[j].object, s[j].parameter>> = <<s[k].object, s[k].parameter>>
    BY <1>1 DEF ReferencesFine, BadTankOverrides, Where, Repeats
  <2>2. QED
    BY <1>1, <2>1
<1>4. t = [k \in 1 .. n |-> Line("TANK_PARAMETERS", NoRef, <<Known(s[k].object, Tanks), ID(s[k].parameter)>>,
                               {}, {})]
  BY <1>1 DEF Saying
<1> HIDE DEF t, n, s
<1>5. \A k \in 1 .. n : t[k] = Line("TANK_PARAMETERS", NoRef, <<s[k].object, ID(s[k].parameter)>>, {}, {})
  BY <1>2, <1>4 DEF Known
<1>6. \A k \in 1 .. n : t[k].kind = "TANK_PARAMETERS" /\ t[k].about = <<s[k].object, ID(s[k].parameter)>>
  <2> SUFFICES ASSUME NEW k \in 1 .. n
               PROVE  t[k].kind = "TANK_PARAMETERS" /\ t[k].about = <<s[k].object, ID(s[k].parameter)>>
    OBVIOUS
  <2> DEFINE a == <<s[k].object, ID(s[k].parameter)>>
             p == {}
  <2>1. t[k] = Line("TANK_PARAMETERS", NoRef, a, p, {})
    BY <1>5
  <2> HIDE DEF a, p
  <2>2. t[k].kind = "TANK_PARAMETERS" /\ t[k].about = a
    BY <2>1, LineIs
  <2>3. QED
    BY <2>2 DEF a
<1>7. ASSUME NEW k \in 1 .. n
      PROVE  Sound(t[k])
  <2>1. ID(s[k].parameter) \in Names
    BY <1>2, ParameterIdsAre
  <2>2. Sound(Line("TANK_PARAMETERS", NoRef, <<s[k].object, ID(s[k].parameter)>>, {}, {}))
    BY <1>2, <2>1, SaysTwo DEF PatternKinds
  <2>3. QED
    BY <1>5, <2>2
<1>8. ASSUME NEW i \in 1 .. n, NEW k \in 1 .. n, t[i].about = t[k].about
      PROVE  i = k
  <2>1. s[i].object = s[k].object /\ ID(s[i].parameter) = ID(s[k].parameter)
    <3>1. <<s[i].object, ID(s[i].parameter)>> = <<s[k].object, ID(s[k].parameter)>>
      BY <1>6, <1>8, Zenon
    <3>2. QED
      BY <3>1, AboutTells
  <2>2. s[i].parameter = s[k].parameter
    BY <1>2, <2>1, ParameterIdsAre
  <2>3. QED
    BY <1>3, <2>1, <2>2
<1> HIDE DEF ID
<1>9. Fine(t, {"TANK_PARAMETERS"}, n)
  BY <1>1, <1>4, <1>6, <1>7, <1>8, SayingIsFine DEF SymbolKinds, PatternKinds
<1>10. QED
  BY <1>9 DEF t, n, s

LEMMA SourcesIsFine ==
  ASSUME model \in Models, IdentitiesFine, ReferencesFine
  PROVE  Fine(AppendSources,
              {"SOURCES"}, Len(model.sources))
<1> DEFINE s == model.sources
           n == Len(s)
           t == AppendSources
           ID(u) == SpeciesId(u)
<1>1. n \in Nat /\ DOMAIN s = 1 .. n
  BY ModelsHaveLists
<1>2. \A k \in 1 .. n : /\ s[k].object # NoRef /\ s[k].object \in Nodes \intersect Enabled
                        /\ s[k].species \in UuidsOf(model.species)
                        /\ ~IsWall(s[k].species)
                        /\ s[k].pattern # NoRef => s[k].pattern \in UuidsOf(model.patterns)
  BY <1>1 DEF ReferencesFine, BadSources, Where, LacksSpecies, Lacks, LacksPattern
<1>3. \A i, k \in 1 .. n : s[i].object = s[k].object /\ s[i].species = s[k].species => i = k
  <2>1. \A k \in 1 .. n : ~\E j \in 1 .. k - 1 :
           <<s[j].object, s[j].species>> = <<s[k].object, s[k].species>>
    BY <1>1 DEF ReferencesFine, BadSources, Where, Repeats
  <2>2. QED
    BY <1>1, <2>1
<1>4. t = [k \in 1 .. n |-> Line("SOURCES", NoRef, <<Known(s[k].object, Nodes), ID(s[k].species)>>,
                               IF s[k].pattern = NoRef THEN {} ELSE {IdOf(model.patterns, s[k].pattern)}, {})]
  BY <1>1 DEF AppendSources
<1> HIDE DEF t, n, s
<1>5. \A k \in 1 .. n : t[k] = Line("SOURCES", NoRef, <<s[k].object, ID(s[k].species)>>, IF s[k].pattern = NoRef THEN {} ELSE {IdOf(model.patterns, s[k].pattern)}, {})
  BY <1>2, <1>4 DEF Known
<1>6. \A k \in 1 .. n : t[k].kind = "SOURCES" /\ t[k].about = <<s[k].object, ID(s[k].species)>>
  <2> SUFFICES ASSUME NEW k \in 1 .. n
               PROVE  t[k].kind = "SOURCES" /\ t[k].about = <<s[k].object, ID(s[k].species)>>
    OBVIOUS
  <2> DEFINE a == <<s[k].object, ID(s[k].species)>>
             p == IF s[k].pattern = NoRef THEN {} ELSE {IdOf(model.patterns, s[k].pattern)}
  <2>1. t[k] = Line("SOURCES", NoRef, a, p, {})
    BY <1>5
  <2> HIDE DEF a, p
  <2>2. t[k].kind = "SOURCES" /\ t[k].about = a
    BY <2>1, LineIs
  <2>3. QED
    BY <2>2 DEF a
<1>7. ASSUME NEW k \in 1 .. n
      PROVE  Sound(t[k])
  <2>1. ID(s[k].species) \in Names
    BY <1>2, SpeciesIdsAre
  <2>2. \A j \in DOMAIN model.species :
           /\ model.species[j].id \in Names
           /\ model.species[j].type = "Wall" => model.species[j].id # ID(s[k].species)
    BY <1>2, SpeciesIdsAre, ModelsHaveLists
  <2>3. s[k].object \notin Names
    BY <1>2, NamesAssumption
  <2> DEFINE p == IF s[k].pattern = NoRef THEN {} ELSE {IdOf(model.patterns, s[k].pattern)}
  <2>4. p \subseteq IdsOf(model.patterns) /\ p \subseteq Names
    BY <1>2, PatternIdsAre
  <2>5. NoRef \notin p
    BY <2>4, NamesAssumption
  <2> HIDE DEF p, ID
  <2>6. Sound(Line("SOURCES", NoRef, <<s[k].object, ID(s[k].species)>>, p, {}))
    BY <1>2, <2>1, <2>2, <2>3, <2>4, <2>5, SaysTwo DEF PatternKinds
  <2>7. QED
    BY <1>5, <2>6 DEF p
<1>8. ASSUME NEW i \in 1 .. n, NEW k \in 1 .. n, t[i].about = t[k].about
      PROVE  i = k
  <2>1. s[i].object = s[k].object /\ ID(s[i].species) = ID(s[k].species)
    <3>1. <<s[i].object, ID(s[i].species)>> = <<s[k].object, ID(s[k].species)>>
      BY <1>6, <1>8, Zenon
    <3>2. QED
      BY <3>1, AboutTells
  <2>2. s[i].species = s[k].species
    BY <1>2, <2>1, SpeciesIdsAre
  <2>3. QED
    BY <1>3, <2>1, <2>2
<1> HIDE DEF ID
<1>9. Fine(t, {"SOURCES"}, n)
  BY <1>1, <1>4, <1>6, <1>7, <1>8, SayingIsFine DEF SymbolKinds, PatternKinds
<1>10. QED
  BY <1>9 DEF t, n, s

LEMMA IntervalIs ==
  ASSUME NEW n \in Nat
  PROVE  IsFiniteSet(1 .. n) /\ Cardinality(1 .. n) = n
<1>1. 1 \in Int /\ n \in Int
  OBVIOUS
<1>2. IsFiniteSet(1 .. n) /\ Cardinality(1 .. n) = IF 1 > n THEN 0 ELSE n - 1 + 1
  BY <1>1, FS_Interval, Zenon
<1>3. (IF 1 > n THEN 0 ELSE n - 1 + 1) = n
  OBVIOUS
<1>4. QED
  BY <1>2, <1>3

(* The elements that a loop takes from a list, by index.                   *)
LEMMA ThoseAre ==
  ASSUME NEW s, IsList(s), NEW S \in SUBSET (DOMAIN s)
  PROVE  /\ IsList(Those(s, S)) /\ Len(Those(s, S)) \in Nat
         /\ DOMAIN Those(s, S) = 1 .. Len(Those(s, S))
         /\ IsFiniteSet(S) /\ Cardinality(S) = Len(Those(s, S))
         /\ \E g : Picked(g, Those(s, S), s, S)
<1> DEFINE h == Those(s, S)
<1>1. s \in Seq(Elems(s))
  BY DEF IsList
<1>2. h \in Seq(Elems(s)) /\ \E g : Picked(g, h, s, S)
  BY <1>1, ThoseArePicked
<1> HIDE DEF h
<1>3. IsList(h) /\ Len(h) \in Nat /\ DOMAIN h = 1 .. Len(h)
  BY <1>2, SequenceIsList, ListIs
<1>4. IsFiniteSet(S) /\ Cardinality(S) = Len(h)
  BY <1>2, <1>3, PickedAreCounted
<1>5. QED
  BY <1>2, <1>3, <1>4 DEF h

At(location) == {k \in DOMAIN model.reactions : model.reactions[k].location = location}

LEMMA ReactionsAreFine ==
  ASSUME model \in Models, IdentitiesFine, ReferencesFine, ExpressionsFine,
         NEW location \in {"PIPES", "TANKS"}
  PROVE  Fine(AppendReactions(location), {location}, Cardinality(At(location)))
<1> DEFINE r == model.reactions
           S == At(location)
           h == Those(r, S)
           n == Len(h)
           t == AppendReactions(location)
<1>1. IsList(r) /\ Len(r) \in Nat /\ DOMAIN r = 1 .. Len(r)
  BY ModelsHaveLists
<1>2. S \in SUBSET (DOMAIN r) /\ \A k \in S : r[k].location = location
  BY DEF At
<1>3. t = [k \in DOMAIN h |->
             Line(location, NoRef, <<SpeciesId(h[k].species)>>, {}, h[k].expression.symbols)]
  BY DEF AppendReactions, At
<1>4. /\ \A k \in 1 .. Len(r) : r[k].species \in UuidsOf(model.species)
                                /\ (r[k].location = "TANKS" => ~IsWall(r[k].species))
      /\ \A k \in 1 .. Len(r) : r[k].expression.symbols \subseteq IdsOf(Symbols)
  BY <1>1 DEF ReferencesFine, BadReactions, Where, LacksSpecies, Lacks, ExpressionsFine, BadExpression,
              KnownSymbols
<1>5. \A i, k \in 1 .. Len(r) : r[i].species = r[k].species /\ r[i].location = r[k].location => i = k
  <2>1. \A k \in 1 .. Len(r) : ~\E j \in 1 .. k - 1 :
           <<r[j].species, r[j].location>> = <<r[k].species, r[k].location>>
    BY <1>1 DEF ReferencesFine, BadReactions, Where, Repeats
  <2>2. QED
    BY <1>1, <2>1
<1> HIDE DEF t, S, r, n, h
<1>6. n \in Nat /\ DOMAIN h = 1 .. n /\ Cardinality(S) = n /\ \E g : Picked(g, h, r, S)
  BY <1>1, <1>2, ThoseAre DEF h, n
<1>7. PICK g : Picked(g, h, r, S)
  BY <1>6
<1>8. /\ \A k \in 1 .. n : g[k] \in S /\ g[k] \in 1 .. Len(r) /\ h[k] = r[g[k]]
      /\ \A i, k \in 1 .. n : g[i] = g[k] => i = k
  BY <1>1, <1>2, <1>7 DEF Picked, n
<1>9. t = [k \in 1 .. n |->
             Line(location, NoRef, <<SpeciesId(h[k].species)>>, {}, h[k].expression.symbols)]
  BY <1>3, <1>6
<1>10. \A k \in 1 .. n :
         /\ h[k].species \in UuidsOf(model.species) /\ (location = "TANKS" => ~IsWall(h[k].species))
         /\ h[k].expression.symbols \subseteq IdsOf(Symbols)
  BY <1>2, <1>4, <1>8
<1>11. \A k \in 1 .. n : t[k].kind = location /\ t[k].about = <<SpeciesId(h[k].species)>>
  <2> SUFFICES ASSUME NEW k \in 1 .. n
               PROVE  t[k].kind = location /\ t[k].about = <<SpeciesId(h[k].species)>>
    OBVIOUS
  <2> DEFINE a == <<SpeciesId(h[k].species)>>
             y == h[k].expression.symbols
  <2>1. t[k] = Line(location, NoRef, a, {}, y)
    BY <1>9
  <2> HIDE DEF a, y
  <2>2. t[k].kind = location /\ t[k].about = a
    BY <2>1, LineIs
  <2>3. QED
    BY <2>2 DEF a
<1>12. ASSUME NEW k \in 1 .. n
       PROVE  Sound(t[k])
  <2>1. SpeciesId(h[k].species) \in Names
    BY <1>10, SpeciesIdsAre
  <2>2. location = "TANKS" =>
          \A j \in DOMAIN model.species :
             model.species[j].type = "Wall" => model.species[j].id # SpeciesId(h[k].species)
    BY <1>10, SpeciesIdsAre
  <2>3. Sound(Line(location, NoRef, <<SpeciesId(h[k].species)>>, {}, h[k].expression.symbols))
    BY <1>10, <2>1, <2>2, SaysOne DEF PatternKinds
  <2>4. QED
    BY <1>9, <2>3
<1>13. ASSUME NEW i \in 1 .. n, NEW k \in 1 .. n, t[i].about = t[k].about
       PROVE  i = k
  <2>1. SpeciesId(h[i].species) = SpeciesId(h[k].species)
    <3>1. <<SpeciesId(h[i].species)>> = <<SpeciesId(h[k].species)>>
      BY <1>11, <1>13, Zenon
    <3>2. QED
      BY <3>1, AboutTells
  <2>2. h[i].species = h[k].species
    BY <1>10, <2>1, SpeciesIdsAre
  <2>3. g[i] = g[k]
    BY <1>2, <1>5, <1>8, <2>2
  <2>4. QED
    BY <1>8, <2>3
<1>14. Fine(t, {location}, n)
  BY <1>6, <1>9, <1>11, <1>12, <1>13, SayingIsFine DEF SymbolKinds, PatternKinds
<1>15. QED
  BY <1>6, <1>14 DEF t, S

(* Every reaction is in one of the two sections.                           *)
LEMMA ReactionsAreCounted ==
  ASSUME model \in Models
  PROVE  /\ Cardinality(At("PIPES")) \in Nat /\ Cardinality(At("TANKS")) \in Nat
         /\ Cardinality(At("PIPES")) + Cardinality(At("TANKS")) = Len(model.reactions)
<1> DEFINE n == Len(model.reactions)
           a == At("PIPES")
           b == At("TANKS")
<1>1. n \in Nat /\ DOMAIN model.reactions = 1 .. n
      /\ \A k \in 1 .. n : model.reactions[k].location \in {"PIPES", "TANKS"}
  BY ModelsHaveLists
<1>2. a \union b = 1 .. n /\ a \intersect b = {}
  BY <1>1 DEF At
<1> HIDE DEF a, b, n
<1>3. IsFiniteSet(1 .. n) /\ Cardinality(1 .. n) = n
  BY <1>1, IntervalIs
<1>4. IsFiniteSet(a) /\ IsFiniteSet(b)
  <2>1. a \in SUBSET (1 .. n) /\ b \in SUBSET (1 .. n)
    BY <1>2
  <2>2. QED
    BY <1>3, <2>1, FS_Subset
<1>5. Cardinality(a \union b) = Cardinality(a) + Cardinality(b) - Cardinality(a \intersect b)
  BY <1>4, FS_Union
<1>6. Cardinality(a) \in Nat /\ Cardinality(b) \in Nat /\ Cardinality({}) = 0
  BY <1>4, FS_CardinalityType, FS_EmptySet
<1>7. Cardinality(a) + Cardinality(b) = n
  <2>1. n = Cardinality(a) + Cardinality(b) - 0
    BY <1>2, <1>3, <1>5, <1>6
  <2>2. PICK x \in Nat : x = Cardinality(a)
    BY <1>6
  <2>3. PICK y \in Nat : y = Cardinality(b)
    BY <1>6
  <2>4. n = x + y - 0
    BY <2>1, <2>2, <2>3
  <2>5. n = x + y
    BY <2>4
  <2>6. QED
    BY <2>2, <2>3, <2>5
<1>8. QED
  BY <1>6, <1>7 DEF a, b, n

(* Every pattern is defined, and once.                                     *)
LEMMA PatternsAreFine ==
  ASSUME model \in Models, IdentitiesFine, NumbersFine
  PROVE  /\ Fine(AppendPatterns, {"PATTERNS"}, Len(model.patterns))
         /\ \A m \in 1 .. Len(model.patterns) :
              \E k \in 1 .. Len(model.patterns) : AppendPatterns[k].defines = model.patterns[m].id
         /\ \A k \in 1 .. Len(model.patterns) : AppendPatterns[k].kind = "PATTERNS"
<1> DEFINE p == model.patterns
           S == {k \in DOMAIN p : p[k].multipliers > 0}
           h == Those(p, S)
           n == Len(p)
           t == AppendPatterns
<1>1. IsList(p) /\ n \in Nat /\ DOMAIN p = 1 .. n
      /\ \A k \in 1 .. n : p[k].multipliers \in Nat
  BY ModelsHaveLists
<1>2. S = 1 .. n
  <2>1. \A k \in 1 .. n : p[k].multipliers > 0
    <3> SUFFICES ASSUME NEW k \in 1 .. n
                 PROVE  p[k].multipliers > 0
      OBVIOUS
    <3>1. p[k].multipliers # 0 /\ p[k].multipliers \in Nat
      BY <1>1 DEF NumbersFine
    <3>2. QED
      BY <3>1
  <2>2. QED
    BY <1>1, <2>1
<1>3. t = [k \in DOMAIN h |-> Line("PATTERNS", h[k].id, <<>>, {}, {})]
  BY DEF AppendPatterns, Defining
<1>4. \A i, k \in 1 .. n : p[i].id = p[k].id => i = k
  BY IdentitiesAreUnique
<1>5. \A k \in 1 .. n : p[k].id \in IdsOf(p)
  BY <1>1 DEF IdsOf
<1> HIDE DEF S, h, t
<1>6. Len(h) \in Nat /\ DOMAIN h = 1 .. Len(h) /\ Cardinality(S) = Len(h) /\ \E g : Picked(g, h, p, S)
  <2>1. S \in SUBSET (DOMAIN p)
    BY <1>1, <1>2
  <2>2. QED
    BY <1>1, <2>1, ThoseAre DEF h
<1>7. Len(h) = n
  BY <1>1, <1>2, <1>6, IntervalIs
<1>8. PICK g : Picked(g, h, p, S)
  BY <1>6
<1>9. /\ \A k \in 1 .. n : g[k] \in 1 .. n /\ h[k] = p[g[k]]
      /\ \A i, k \in 1 .. n : g[i] = g[k] => i = k
      /\ \A m \in 1 .. n : \E k \in 1 .. n : g[k] = m
  BY <1>2, <1>7, <1>8 DEF Picked
<1> HIDE DEF p, n
<1>10. t = [k \in 1 .. n |-> Line("PATTERNS", h[k].id, <<>>, {}, {})]
  BY <1>3, <1>6, <1>7
<1>11. \A k \in 1 .. n : /\ t[k].kind = "PATTERNS" /\ t[k].defines = h[k].id /\ t[k].about = <<>>
                         /\ t[k].pattern = {} /\ t[k].symbols = {}
  BY <1>10 DEF Line
<1>12. IsList(t) /\ Len(t) = n /\ DOMAIN t = 1 .. n
  BY <1>1, <1>10, MadeIsList
<1>13. ASSUME NEW k \in 1 .. n
       PROVE  Sound(t[k])
  <2>1. Elems(t[k].about) = {}
    BY <1>11, AboutIs
  <2>2. t[k].defines \in IdsOf(p)
    <3>1. g[k] \in 1 .. n /\ h[k].id = p[g[k]].id
      BY <1>9
    <3>2. p[g[k]].id \in IdsOf(p)
      BY <1>5, <3>1
    <3>3. t[k].defines = h[k].id
      BY <1>11
    <3>4. QED
      BY <3>1, <3>2, <3>3
  <2>3. QED
    BY <1>11, <2>1, <2>2 DEF Sound, Unresolved, PatternKinds, p
<1>14. SaidOnce(t) /\ DefinedOnce(t, SymbolKinds)
  <2>1. SaidOnce(t)
    BY <1>11, <1>12 DEF SaidOnce
  <2>2. \A k \in 1 .. n : t[k].kind \notin SymbolKinds
    BY <1>11 DEF SymbolKinds
  <2>3. QED
    BY <1>12, <2>1, <2>2 DEF DefinedOnce
<1>15. DefinedOnce(t, PatternKinds)
  <2>1. ASSUME NEW i \in 1 .. n, NEW k \in 1 .. n, t[i].defines = t[k].defines
        PROVE  i = k
    <3>1. h[i].id = h[k].id
      BY <1>11, <2>1
    <3>2. g[i] \in 1 .. n /\ g[k] \in 1 .. n /\ p[g[i]].id = p[g[k]].id
      BY <1>9, <3>1
    <3>3. g[i] = g[k]
      BY <1>4, <3>2
    <3>4. QED
      BY <1>9, <3>3
  <2>2. QED
    BY <1>12, <2>1 DEF DefinedOnce
<1>16. Fine(t, {"PATTERNS"}, n)
  <2>1. Kinds(t) \subseteq {"PATTERNS"}
    BY <1>11, <1>12 DEF Kinds
  <2>2. \A l \in Elems(t) : Sound(l)
    BY <1>12, <1>13 DEF Elems
  <2>3. QED
    BY <1>12, <1>14, <1>15, <2>1, <2>2 DEF Fine
<1>17. \A m \in 1 .. n : \E k \in 1 .. n : t[k].defines = p[m].id
  BY <1>9, <1>11
<1>18. QED
  BY <1>11, <1>16, <1>17 DEF t, n, p

(* The diffusivities, one for each species that has one.                   *)
LEMMA DiffusivityIsFine ==
  ASSUME model \in Models, IdentitiesFine, NumbersFine
  PROVE  Fine(AppendDiffusivity, {"DIFFUSIVITY"},
              Cardinality({s \in Elems(model.species) : s.dispersion # {}}))
<1> DEFINE p == model.species
           S == {k \in DOMAIN p : p[k].dispersion # {}}
           h == Those(p, S)
           n == Len(h)
           t == AppendDiffusivity
           E == {s \in Elems(p) : s.dispersion # {}}
<1>1. IsList(p) /\ Len(p) \in Nat /\ DOMAIN p = 1 .. Len(p) /\ \A k \in 1 .. Len(p) : p[k].id \in Names
  BY ModelsHaveLists
<1>2. S \in SUBSET (DOMAIN p) /\ \A k \in S : p[k].dispersion # {} /\ p[k].type # "Wall"
  BY DEF NumbersFine, BadDispersion
<1>3. t = [k \in DOMAIN h |-> Line("DIFFUSIVITY", NoRef, <<h[k].id>>, {}, {})]
  BY DEF AppendDiffusivity, Saying
<1>4. \A i, k \in 1 .. Len(p) : p[i].id = p[k].id => i = k
  BY IdentitiesAreUnique
<1>5. /\ \A k \in S : p[k] \in E
      /\ \A x \in E : \E k \in S : p[k] = x
  BY DEF Elems
<1> HIDE DEF S, h, t, n, E
<1>6. n \in Nat /\ DOMAIN h = 1 .. n /\ Cardinality(S) = n /\ IsFiniteSet(S) /\ \E g : Picked(g, h, p, S)
  BY <1>1, <1>2, ThoseAre DEF h, n
<1>7. PICK g : Picked(g, h, p, S)
  BY <1>6
<1>8. /\ \A k \in 1 .. n : g[k] \in S /\ g[k] \in 1 .. Len(p) /\ h[k] = p[g[k]]
      /\ \A i, k \in 1 .. n : g[i] = g[k] => i = k
  BY <1>1, <1>2, <1>7 DEF Picked, n
<1>9. t = [k \in 1 .. n |-> Line("DIFFUSIVITY", NoRef, <<h[k].id>>, {}, {})]
  BY <1>3, <1>6
<1>10. \A k \in 1 .. n : t[k].kind = "DIFFUSIVITY" /\ t[k].about = <<h[k].id>>
  <2> SUFFICES ASSUME NEW k \in 1 .. n
               PROVE  t[k].kind = "DIFFUSIVITY" /\ t[k].about = <<h[k].id>>
    OBVIOUS
  <2> DEFINE a == <<h[k].id>>
  <2>1. t[k] = Line("DIFFUSIVITY", NoRef, a, {}, {})
    BY <1>9
  <2> HIDE DEF a
  <2>2. t[k].kind = "DIFFUSIVITY" /\ t[k].about = a
    BY <2>1, LineIs
  <2>3. QED
    BY <2>2 DEF a
<1>11. ASSUME NEW k \in 1 .. n
       PROVE  Sound(t[k])
  <2>1. h[k].id \in Names
    BY <1>1, <1>8
  <2>2. \A j \in DOMAIN p : p[j].type = "Wall" => p[j].id # h[k].id
    <3> SUFFICES ASSUME NEW j \in DOMAIN p, p[j].type = "Wall", p[j].id = h[k].id
                 PROVE  FALSE
      OBVIOUS
    <3>1. j = g[k]
      BY <1>1, <1>4, <1>8
    <3>2. QED
      BY <1>2, <1>8, <3>1
  <2>3. Sound(Line("DIFFUSIVITY", NoRef, <<h[k].id>>, {}, {}))
    BY <2>1, <2>2, SaysOne DEF PatternKinds
  <2>4. QED
    BY <1>9, <2>3
<1>12. ASSUME NEW i \in 1 .. n, NEW k \in 1 .. n, t[i].about = t[k].about
       PROVE  i = k
  <2>1. h[i].id = h[k].id
    <3>1. <<h[i].id>> = <<h[k].id>>
      BY <1>10, <1>12, Zenon
    <3>2. QED
      BY <3>1, AboutTells
  <2>2. g[i] = g[k]
    <3>1. g[i] \in 1 .. Len(p) /\ g[k] \in 1 .. Len(p) /\ p[g[i]].id = p[g[k]].id
      BY <1>8, <2>1
    <3>2. QED
      BY <1>4, <3>1
  <2>3. QED
    BY <1>8, <2>2
<1>13. Fine(t, {"DIFFUSIVITY"}, n)
  BY <1>6, <1>9, <1>10, <1>11, <1>12, SayingIsFine DEF SymbolKinds, PatternKinds
<1>14. Cardinality(E) = Cardinality(S)
  <2> DEFINE f == [k \in S |-> p[k]]
  <2>1. f \in [S -> E] /\ \A k \in S : f[k] = p[k]
    BY <1>5
  <2>2. \A i, k \in S : p[i] = p[k] => i = k
    BY <1>1, <1>2, <1>4
  <2>3. \A x \in E : \E k \in S : f[k] = x
    BY <1>5, <2>1
  <2> HIDE DEF f
  <2>4. f \in Bijection(S, E)
    BY <2>1, <2>2, <2>3 DEF Bijection, Injection, Surjection, IsInjective
  <2>5. ExistsBijection(S, E)
    BY <2>4 DEF ExistsBijection
  <2>6. QED
    BY <1>6, <2>5, FS_Bijection
<1>15. QED
  BY <1>6, <1>13, <1>14 DEF t, E

-----------------------------------------------------------------------------
(* The sections that define symbols. *)

(* Lines that define what is in a list, in its order.                      *)
Mirrors(t, s) ==
    /\ IsList(t) /\ IsList(s) /\ Len(t) = Len(s)
    /\ \A k \in 1 .. Len(s) :
          /\ t[k].defines = s[k].id /\ t[k].kind \in SymbolKinds /\ t[k].about = <<>>
          /\ t[k].pattern = {} /\ t[k].symbols \subseteq IdsOf(Symbols)

LEMMA MirrorsTogether ==
  ASSUME NEW a, NEW b, NEW s, NEW u, Mirrors(a, s), Mirrors(b, u)
  PROVE  Mirrors(a \o b, s \o u)
<1> DEFINE c == a \o b
           v == s \o u
<1>1. /\ IsList(a) /\ IsList(b) /\ IsList(s) /\ IsList(u) /\ Len(a) = Len(s) /\ Len(b) = Len(u)
  BY DEF Mirrors
<1>2. /\ IsList(c) /\ Len(c) = Len(a) + Len(b) /\ DOMAIN c = 1 .. Len(a) + Len(b)
      /\ \A k \in 1 .. Len(a) : c[k] = a[k]
      /\ \A k \in 1 .. Len(b) : c[Len(a) + k] = b[k]
      /\ \A k \in DOMAIN c : k \in 1 .. Len(a) \/ \E m \in 1 .. Len(b) : k = Len(a) + m
  <2>1. IsList(a) /\ IsList(b)
    BY <1>1
  <2>2. IsList(c) /\ Len(c) = Len(a) + Len(b) /\ DOMAIN c = 1 .. Len(a) + Len(b)
    BY <2>1, ConcatIs
  <2>3. \A k \in 1 .. Len(a) : c[k] = a[k]
    BY <2>1, ConcatIs
  <2>4. \A k \in 1 .. Len(b) : c[Len(a) + k] = b[k]
    BY <2>1, ConcatIs
  <2>5. \A k \in DOMAIN c : k \in 1 .. Len(a) \/ \E m \in 1 .. Len(b) : k = Len(a) + m
    BY <2>1, ConcatIs
  <2>6. QED
    BY <2>2, <2>3, <2>4, <2>5
<1>3. /\ IsList(v) /\ Len(v) = Len(s) + Len(u)
      /\ \A k \in 1 .. Len(s) : v[k] = s[k]
      /\ \A k \in 1 .. Len(u) : v[Len(s) + k] = u[k]
  <2>1. IsList(s) /\ IsList(u)
    BY <1>1
  <2>2. IsList(v) /\ Len(v) = Len(s) + Len(u)
    BY <2>1, ConcatIs
  <2>3. \A k \in 1 .. Len(s) : v[k] = s[k]
    BY <2>1, ConcatIs
  <2>4. \A k \in 1 .. Len(u) : v[Len(s) + k] = u[k]
    BY <2>1, ConcatIs
  <2>5. QED
    BY <2>2, <2>3, <2>4
<1> HIDE DEF c, v
<1>4. ASSUME NEW k \in 1 .. Len(v)
      PROVE  /\ c[k].defines = v[k].id /\ c[k].kind \in SymbolKinds /\ c[k].about = <<>>
             /\ c[k].pattern = {} /\ c[k].symbols \subseteq IdsOf(Symbols)
  <2>1. k \in DOMAIN c
    BY <1>1, <1>2, <1>3
  <2>2. CASE k \in 1 .. Len(a)
    <3>1. c[k] = a[k] /\ v[k] = s[k] /\ k \in 1 .. Len(s)
      BY <1>1, <1>2, <1>3, <2>2
    <3>2. QED
      BY <3>1 DEF Mirrors
  <2>3. CASE \E m \in 1 .. Len(b) : k = Len(a) + m
    <3>1. PICK m \in 1 .. Len(b) : k = Len(a) + m
      BY <2>3
    <3>2. c[k] = b[m] /\ v[k] = u[m] /\ m \in 1 .. Len(u)
      BY <1>1, <1>2, <1>3, <3>1
    <3>3. QED
      BY <3>2 DEF Mirrors
  <2>4. QED
    BY <1>2, <2>1, <2>2, <2>3
<1>5. QED
  BY <1>1, <1>2, <1>3, <1>4 DEF Mirrors, c, v

LEMMA ListsAssociate ==
  ASSUME NEW a, NEW b, NEW c, IsList(a), IsList(b), IsList(c)
  PROVE  (a \o b) \o c = a \o (b \o c)
<1> DEFINE T == Elems(a) \union Elems(b) \union Elems(c)
<1>1. a \in Seq(Elems(a)) /\ b \in Seq(Elems(b)) /\ c \in Seq(Elems(c))
  BY DEF IsList
<1>2. a \in Seq(T) /\ b \in Seq(T) /\ c \in Seq(T)
  BY <1>1
<1>3. QED
  BY <1>2, ConcatAssociative

(* The lines of the three sections that define symbols.                    *)
LEMMA DefiningMirrors ==
  ASSUME NEW kind \in SymbolKinds, NEW s, IsList(s)
  PROVE  Mirrors(Defining(kind, s), s)
<1> DEFINE t == Defining(kind, s)
<1>1. Len(s) \in Nat /\ DOMAIN s = 1 .. Len(s)
  BY ListIs
<1>2. t = [k \in 1 .. Len(s) |-> Line(kind, s[k].id, <<>>, {}, {})]
  BY <1>1 DEF Defining
<1> HIDE DEF t
<1>3. IsList(t) /\ Len(t) = Len(s)
  BY <1>1, <1>2, MadeIsList
<1>4. \A k \in 1 .. Len(s) : /\ t[k].kind = kind /\ t[k].defines = s[k].id /\ t[k].about = <<>>
                             /\ t[k].pattern = {} /\ t[k].symbols = {}
  BY <1>2 DEF Line
<1>5. Mirrors(t, s)
  BY <1>3, <1>4 DEF Mirrors
<1>6. QED
  BY <1>5 DEF t

LEMMA TermsMirror ==
  ASSUME model \in Models, ExpressionsFine
  PROVE  Mirrors(AppendTerms, model.terms)
<1> DEFINE s == model.terms
           t == AppendTerms
<1>1. IsList(s) /\ Len(s) \in Nat /\ DOMAIN s = 1 .. Len(s)
  BY ModelsHaveLists
<1>2. t = [k \in 1 .. Len(s) |-> Line("TERMS", s[k].id, <<>>, {}, s[k].expression.symbols)]
  BY <1>1 DEF AppendTerms
<1>3. \A k \in 1 .. Len(s) : s[k].expression.symbols \subseteq IdsOf(Symbols)
  BY <1>1 DEF ExpressionsFine, BadExpression, KnownSymbols
<1> HIDE DEF t, s
<1>4. IsList(t) /\ Len(t) = Len(s)
  BY <1>1, <1>2, MadeIsList
<1>5. \A k \in 1 .. Len(s) : /\ t[k].kind = "TERMS" /\ t[k].defines = s[k].id /\ t[k].about = <<>>
                             /\ t[k].pattern = {} /\ t[k].symbols = s[k].expression.symbols
  BY <1>2 DEF Line
<1>6. \A k \in 1 .. Len(s) : t[k].symbols \subseteq IdsOf(Symbols)
  BY <1>3, <1>5
<1>7. Mirrors(t, s)
  BY <1>1, <1>4, <1>5, <1>6 DEF Mirrors, SymbolKinds
<1>8. QED
  BY <1>7 DEF t, s

Opening == (AppendSpecies \o AppendCoefficients) \o AppendTerms

LEMMA OpeningMirrors ==
  ASSUME model \in Models, ExpressionsFine
  PROVE  Mirrors(Opening, Symbols)
<1>1. IsList(model.species) /\ IsList(model.constants) /\ IsList(model.parameters)
  BY ModelsHaveLists
<1>2. Mirrors(AppendSpecies, model.species)
  BY <1>1, DefiningMirrors DEF AppendSpecies, SymbolKinds
<1>3. Mirrors(AppendCoefficients, model.constants \o model.parameters)
  <2>1. Mirrors(Defining("COEFFICIENTS", model.constants), model.constants)
    BY <1>1, DefiningMirrors DEF SymbolKinds
  <2>2. Mirrors(Defining("COEFFICIENTS", model.parameters), model.parameters)
    BY <1>1, DefiningMirrors DEF SymbolKinds
  <2>3. QED
    BY <2>1, <2>2, MirrorsTogether DEF AppendCoefficients
<1>4. Mirrors(AppendSpecies \o AppendCoefficients, model.species \o (model.constants \o model.parameters))
  BY <1>2, <1>3, MirrorsTogether
<1>5. Mirrors(Opening, (model.species \o (model.constants \o model.parameters)) \o model.terms)
  BY <1>4, TermsMirror, MirrorsTogether DEF Opening
<1>6. (model.species \o model.constants) \o model.parameters
      = model.species \o (model.constants \o model.parameters)
  <2> DEFINE a == model.species
             b == model.constants
             c == model.parameters
  <2>1. IsList(a) /\ IsList(b) /\ IsList(c)
    BY <1>1
  <2> HIDE DEF a, b, c
  <2>2. (a \o b) \o c = a \o (b \o c)
    BY <2>1, ListsAssociate
  <2>3. QED
    BY <2>2 DEF a, b, c
<1>7. QED
  BY <1>5, <1>6 DEF Symbols

LEMMA MirrorsIsSound ==
  ASSUME NEW t, NEW s, Mirrors(t, s), NEW k \in 1 .. Len(s), s[k].id \in IdsOf(Symbols)
  PROVE  Sound(t[k])
<1>1. /\ t[k].defines = s[k].id /\ t[k].kind \in SymbolKinds /\ t[k].about = <<>>
      /\ t[k].pattern = {} /\ t[k].symbols \subseteq IdsOf(Symbols)
  BY DEF Mirrors
<1>2. Elems(t[k].about) = {}
  BY <1>1, AboutIs
<1>3. QED
  BY <1>1, <1>2 DEF Sound, Unresolved, SymbolKinds, PatternKinds

(* The opening of the text defines every symbol, and once.                    *)
LEMMA OpeningIsFine ==
  ASSUME model \in Models, IdentitiesFine, ExpressionsFine
  PROVE  /\ Fine(Opening, SymbolKinds, Len(Symbols))
         /\ \A k \in 1 .. Len(Symbols) : Opening[k].defines = Symbols[k].id /\ Opening[k].kind \in SymbolKinds
<1> DEFINE n == Len(Symbols)
<1>1. Mirrors(Opening, Symbols)
  BY OpeningMirrors
<1>2. IsList(Opening) /\ Len(Opening) = n /\ DOMAIN Opening = 1 .. n /\ IsList(Symbols) /\ DOMAIN Symbols = 1 .. n
      /\ n \in Nat
  BY <1>1, ListIs DEF Mirrors
<1>3. \A k \in 1 .. n : Opening[k].defines = Symbols[k].id /\ Opening[k].kind \in SymbolKinds
                        /\ Opening[k].about = <<>>
  BY <1>1 DEF Mirrors
<1>4. \A k \in 1 .. n : Sound(Opening[k])
  <2>1. \A k \in 1 .. n : Symbols[k].id \in IdsOf(Symbols)
    BY <1>2 DEF IdsOf
  <2>2. QED
    BY <1>1, <2>1, MirrorsIsSound
<1>5. \A i, k \in 1 .. n : Symbols[i].id = Symbols[k].id => i = k
  BY IdentitiesAreUnique
<1> HIDE DEF n
<1>6. Kinds(Opening) \subseteq SymbolKinds
  BY <1>2, <1>3 DEF Kinds
<1>7. SaidOnce(Opening)
  BY <1>2, <1>3 DEF SaidOnce
<1>8. DefinedOnce(Opening, SymbolKinds)
  BY <1>2, <1>3, <1>5 DEF DefinedOnce
<1>9. DefinedOnce(Opening, PatternKinds)
  <2>1. \A k \in 1 .. n : Opening[k].kind \notin PatternKinds
    BY <1>3 DEF SymbolKinds, PatternKinds
  <2>2. QED
    BY <1>2, <2>1 DEF DefinedOnce
<1>10. \A l \in Elems(Opening) : Sound(l)
  BY <1>2, <1>4 DEF Elems
<1>11. QED
  BY <1>2, <1>3, <1>6, <1>7, <1>8, <1>9, <1>10 DEF Fine, n

(* No line of these sections is unresolved either.                         *)
LEMMA SymbolSectionsAreResolved ==
  ASSUME model \in Models, ExpressionsFine
  PROVE  \A l \in Elems(AppendSpecies) \union Elems(AppendCoefficients) \union Elems(AppendTerms) :
            ~Unresolved(l)
<1>1. ASSUME NEW t, NEW s, Mirrors(t, s), NEW l \in Elems(t)
      PROVE  ~Unresolved(l)
  <2>1. PICK k \in 1 .. Len(s) : l = t[k]
    BY <1>1, ListIs DEF Mirrors
  <2>2. l.about = <<>> /\ l.pattern = {}
    BY <1>1, <2>1 DEF Mirrors
  <2>3. QED
    BY <2>2, AboutIs DEF Unresolved
<1>2. IsList(model.species) /\ IsList(model.constants) /\ IsList(model.parameters)
  BY ModelsHaveLists
<1>3. Mirrors(AppendSpecies, model.species) /\ Mirrors(AppendTerms, model.terms)
  BY <1>2, DefiningMirrors, TermsMirror DEF AppendSpecies, SymbolKinds
<1>4. Mirrors(AppendCoefficients, model.constants \o model.parameters)
  <2>1. Mirrors(Defining("COEFFICIENTS", model.constants), model.constants)
    BY <1>2, DefiningMirrors DEF SymbolKinds
  <2>2. Mirrors(Defining("COEFFICIENTS", model.parameters), model.parameters)
    BY <1>2, DefiningMirrors DEF SymbolKinds
  <2>3. QED
    BY <2>1, <2>2, MirrorsTogether DEF AppendCoefficients
<1>5. QED
  BY <1>1, <1>3, <1>4

-----------------------------------------------------------------------------
(* The text, and the invariant of its writing. *)

(* The text, section by section.                                           *)
BeforeTanks == Opening \o AppendReactions("PIPES")
BeforeSources == BeforeTanks \o AppendReactions("TANKS")
BeforeQuality == BeforeSources \o AppendSources
BeforeParameters == BeforeQuality \o AppendQuality
BeforePatterns == BeforeParameters \o AppendParameters
BeforeDiffusivity == BeforePatterns \o AppendPatterns
WholeText == BeforeDiffusivity \o AppendDiffusivity

(* The functions before the first section, and an end without one.        *)
Checking == {"content", "identities", "references", "numerics", "expressions", "search", "run", "invalid"}

TextSoFar ==
    /\ phase \in Checking \union {"SPECIES"} => lines = <<>>
    /\ phase = "COEFFICIENTS" => lines = AppendSpecies
    /\ phase = "TERMS" => lines = AppendSpecies \o AppendCoefficients
    /\ phase = "PIPES" => lines = Opening
    /\ phase = "TANKS" => lines = BeforeTanks
    /\ phase = "SOURCES" => lines = BeforeSources
    /\ phase = "QUALITY" => lines = BeforeQuality
    /\ phase = "PARAMETERS" => lines = BeforeParameters
    /\ phase = "PATTERNS" => lines = BeforePatterns
    /\ phase = "DIFFUSIVITY" => lines = BeforeDiffusivity
    /\ phase = "written" => lines = WholeText

(* A model with species and without a failure has passed every check so    *)
(* far.                                                                    *)
Passed ==
    failures = {} /\ model.species # <<>> =>
        /\ phase \notin {"content", "identities"} => IdentitiesFine
        /\ phase \notin {"content", "identities", "references"} => ReferencesFine
        /\ phase \notin {"content", "identities", "references", "numerics"} => NumbersFine
        /\ phase \notin {"content", "identities", "references", "numerics", "expressions"} => ExpressionsFine

(* Only such a model is written down.                                      *)
OnlyThen == phase \notin Checking => failures = {} /\ model.species # <<>>

MInv ==
    /\ model \in Models
    /\ phase \in Checking \union Elems(Sections) \union {"written"}
    /\ Passed
    /\ OnlyThen
    /\ TextSoFar

Valid == model \in Models /\ IdentitiesFine /\ ReferencesFine /\ NumbersFine /\ ExpressionsFine

(* Sections that are made of several.                                      *)
LEMMA QualityIsFine ==
  ASSUME Valid
  PROVE  Fine(AppendQuality, {"GLOBAL_QUALITY", "NODE_QUALITY", "LINK_QUALITY"},
              (Len(model.global_quality) + Len(model.node_quality)) + Len(model.pipe_quality))
<1> DEFINE a == Saying("GLOBAL_QUALITY", model.global_quality, LAMBDA q : <<SpeciesId(q.species)>>)
           b == Saying("NODE_QUALITY", model.node_quality,
                       LAMBDA q : <<Known(q.object, Nodes), SpeciesId(q.species)>>)
           c == Saying("LINK_QUALITY", model.pipe_quality,
                       LAMBDA q : <<Known(q.object, Pipes), SpeciesId(q.species)>>)
           na == Len(model.global_quality)
           nb == Len(model.node_quality)
           nc == Len(model.pipe_quality)
<1>1. Fine(a, {"GLOBAL_QUALITY"}, na)
  BY GlobalQualityIsFine DEF Valid
<1>2. Fine(b, {"NODE_QUALITY"}, nb)
  BY NodeQualityIsFine DEF Valid
<1>3. Fine(c, {"LINK_QUALITY"}, nc)
  BY PipeQualityIsFine DEF Valid
<1>4. AppendQuality = (a \o b) \o c
  BY DEF AppendQuality
<1> HIDE DEF a, b, c, na, nb, nc
<1>5. Fine(a \o b, {"GLOBAL_QUALITY"} \union {"NODE_QUALITY"}, na + nb)
  BY <1>1, <1>2, FineTogether DEF SymbolKinds, PatternKinds
<1> DEFINE ab == a \o b
           kinds == {"GLOBAL_QUALITY"} \union {"NODE_QUALITY"}
           nab == na + nb
<1>6. Fine(ab, kinds, nab)
  BY <1>5
<1>7. kinds \intersect {"LINK_QUALITY"} = {} /\ {"LINK_QUALITY"} \intersect SymbolKinds = {}
      /\ {"LINK_QUALITY"} \intersect PatternKinds = {}
  BY DEF SymbolKinds, PatternKinds
<1>8. kinds \union {"LINK_QUALITY"} = {"GLOBAL_QUALITY", "NODE_QUALITY", "LINK_QUALITY"}
  OBVIOUS
<1> HIDE DEF ab, kinds, nab
<1>9. Fine(ab \o c, kinds \union {"LINK_QUALITY"}, nab + nc)
  BY <1>3, <1>6, <1>7, FineTogether
<1>10. QED
  BY <1>4, <1>8, <1>9 DEF ab, nab, na, nb, nc

LEMMA ParametersAreFine ==
  ASSUME Valid
  PROVE  Fine(AppendParameters, {"PIPE_PARAMETERS", "TANK_PARAMETERS"},
              Len(model.pipe_overrides) + Len(model.tank_overrides))
<1> DEFINE a == Saying("PIPE_PARAMETERS", model.pipe_overrides,
                       LAMBDA o : <<Known(o.object, Pipes), ParameterId(o.parameter)>>)
           b == Saying("TANK_PARAMETERS", model.tank_overrides,
                       LAMBDA o : <<Known(o.object, Tanks), ParameterId(o.parameter)>>)
           na == Len(model.pipe_overrides)
           nb == Len(model.tank_overrides)
<1>1. Fine(a, {"PIPE_PARAMETERS"}, na)
  BY PipeOverridesIsFine DEF Valid
<1>2. Fine(b, {"TANK_PARAMETERS"}, nb)
  BY TankOverridesIsFine DEF Valid
<1>3. AppendParameters = a \o b
  BY DEF AppendParameters
<1> HIDE DEF a, b, na, nb
<1>4. Fine(a \o b, {"PIPE_PARAMETERS"} \union {"TANK_PARAMETERS"}, na + nb)
  BY <1>1, <1>2, FineTogether DEF SymbolKinds, PatternKinds
<1>5. {"PIPE_PARAMETERS"} \union {"TANK_PARAMETERS"} = {"PIPE_PARAMETERS", "TANK_PARAMETERS"}
  OBVIOUS
<1>6. QED
  BY <1>3, <1>4, <1>5 DEF na, nb

(* The IDs of a valid model are all found.                                 *)
LEMMA SectionsAreResolved ==
  ASSUME Valid, NEW name \in Elems(Sections), NEW l \in Elems(Section(name))
  PROVE  ~Unresolved(l)
<1>1. ASSUME NEW s, NEW kinds, NEW n, Fine(s, kinds, n), l \in Elems(s)
      PROVE  ~Unresolved(l)
  BY <1>1 DEF Fine, Sound
<1>2. name \in {"SPECIES", "COEFFICIENTS", "TERMS", "PIPES", "TANKS", "SOURCES", "QUALITY",
                "PARAMETERS", "PATTERNS", "DIFFUSIVITY"}
  BY DEF Elems, Sections
<1>3. CASE name \in {"SPECIES", "COEFFICIENTS", "TERMS"}
  <2>1. Section(name) \in {AppendSpecies, AppendCoefficients, AppendTerms}
    BY <1>3 DEF Section
  <2>2. QED
    BY <2>1, SymbolSectionsAreResolved DEF Valid
<1>4. CASE name \in {"PIPES", "TANKS"}
  <2>1. Section(name) = AppendReactions(name)
    BY <1>4 DEF Section
  <2>2. Fine(AppendReactions(name), {name}, Cardinality(At(name)))
    BY <1>4, ReactionsAreFine DEF Valid
  <2>3. QED
    BY <1>1, <2>1, <2>2
<1>5. CASE name = "SOURCES"
  <2>1. Section(name) = AppendSources
    BY <1>5 DEF Section
  <2>2. QED
    BY <1>1, <2>1, SourcesIsFine DEF Valid
<1>6. CASE name = "QUALITY"
  <2>1. Section(name) = AppendQuality
    BY <1>6 DEF Section
  <2>2. QED
    BY <1>1, <2>1, QualityIsFine
<1>7. CASE name = "PARAMETERS"
  <2>1. Section(name) = AppendParameters
    BY <1>7 DEF Section
  <2>2. QED
    BY <1>1, <2>1, ParametersAreFine
<1>8. CASE name = "PATTERNS"
  <2>1. Section(name) = AppendPatterns
    BY <1>8 DEF Section
  <2>2. QED
    BY <1>1, <2>1, PatternsAreFine DEF Valid
<1>9. CASE name = "DIFFUSIVITY"
  <2>1. Section(name) = AppendDiffusivity
    BY <1>9 DEF Section
  <2>2. QED
    BY <1>1, <2>1, DiffusivityIsFine DEF Valid
<1>10. QED
  BY <1>2, <1>3, <1>4, <1>5, <1>6, <1>7, <1>8, <1>9

(* A part that is added keeps what was there.                              *)
LEMMA FineAndMore ==
  ASSUME NEW a, NEW b, NEW ka, NEW kb, NEW na, NEW nb, Fine(a, ka, na), Fine(b, kb, nb),
         ka \intersect kb = {}, kb \intersect SymbolKinds = {},
         ka \intersect PatternKinds = {} \/ kb \intersect PatternKinds = {}
  PROVE  Fine(a \o b, ka \union kb, na + nb) /\ Elems(a \o b) = Elems(a) \union Elems(b)
<1>1. Fine(a \o b, ka \union kb, na + nb)
  BY FineTogether
<1>2. IsList(a) /\ IsList(b)
  BY DEF Fine
<1>3. QED
  BY <1>1, <1>2, ConcatIs

BeforeKinds == SymbolKinds \union {"PIPES", "TANKS", "SOURCES", "GLOBAL_QUALITY", "NODE_QUALITY",
                                   "LINK_QUALITY", "PIPE_PARAMETERS", "TANK_PARAMETERS"}

(* The text of a valid model: every line is as it should be, and as many   *)
(* as there are entries.                                                   *)
LEMMA WholeTextIsFine ==
  ASSUME Valid
  PROVE  /\ Fine(WholeText, BeforeKinds \union {"PATTERNS", "DIFFUSIVITY"},
                 ((((((Len(Symbols) + Cardinality(At("PIPES"))) + Cardinality(At("TANKS")))
                      + Len(model.sources))
                     + ((Len(model.global_quality) + Len(model.node_quality)) + Len(model.pipe_quality)))
                    + (Len(model.pipe_overrides) + Len(model.tank_overrides)))
                   + Len(model.patterns))
                  + Cardinality({s \in Elems(model.species) : s.dispersion # {}}))
         /\ Elems(Opening) \union Elems(AppendPatterns) \subseteq Elems(WholeText)
<1> DEFINE n0 == Len(Symbols)
           n1 == n0 + Cardinality(At("PIPES"))
           n2 == n1 + Cardinality(At("TANKS"))
           n3 == n2 + Len(model.sources)
           n4 == n3 + ((Len(model.global_quality) + Len(model.node_quality)) + Len(model.pipe_quality))
           n5 == n4 + (Len(model.pipe_overrides) + Len(model.tank_overrides))
           n6 == n5 + Len(model.patterns)
           n7 == n6 + Cardinality({s \in Elems(model.species) : s.dispersion # {}})
           k1 == SymbolKinds \union {"PIPES"}
           k2 == k1 \union {"TANKS"}
           k3 == k2 \union {"SOURCES"}
           k4 == k3 \union {"GLOBAL_QUALITY", "NODE_QUALITY", "LINK_QUALITY"}
           k5 == k4 \union {"PIPE_PARAMETERS", "TANK_PARAMETERS"}
           k6 == k5 \union {"PATTERNS"}
           k7 == k6 \union {"DIFFUSIVITY"}
<1>1. /\ \A x \in {"PIPES", "TANKS", "SOURCES", "GLOBAL_QUALITY", "NODE_QUALITY", "LINK_QUALITY",
                   "PIPE_PARAMETERS", "TANK_PARAMETERS", "DIFFUSIVITY"} :
            x \notin SymbolKinds /\ x \notin PatternKinds
      /\ "PATTERNS" \notin SymbolKinds
      /\ SymbolKinds \intersect PatternKinds = {} /\ PatternKinds = {"PATTERNS"}
  BY DEF SymbolKinds, PatternKinds
<1>2. Fine(Opening, SymbolKinds, n0)
  BY OpeningIsFine DEF Valid
<1>3. Fine(BeforeTanks, k1, n1) /\ Elems(Opening) \subseteq Elems(BeforeTanks)
  <2>1. Fine(AppendReactions("PIPES"), {"PIPES"}, Cardinality(At("PIPES")))
    BY ReactionsAreFine DEF Valid
  <2>2. SymbolKinds \intersect {"PIPES"} = {} /\ {"PIPES"} \intersect SymbolKinds = {}
        /\ {"PIPES"} \intersect PatternKinds = {}
    BY <1>1
  <2>3. QED
    BY <1>2, <2>1, <2>2, FineAndMore DEF BeforeTanks
<1>4. Fine(BeforeSources, k2, n2) /\ Elems(Opening) \subseteq Elems(BeforeSources)
  <2>1. Fine(AppendReactions("TANKS"), {"TANKS"}, Cardinality(At("TANKS")))
    BY ReactionsAreFine DEF Valid
  <2>2. k1 \intersect {"TANKS"} = {} /\ {"TANKS"} \intersect SymbolKinds = {}
        /\ {"TANKS"} \intersect PatternKinds = {}
    BY <1>1
  <2> HIDE DEF k1, n1
  <2>3. QED
    BY <1>3, <2>1, <2>2, FineAndMore DEF BeforeSources
<1>5. Fine(BeforeQuality, k3, n3) /\ Elems(Opening) \subseteq Elems(BeforeQuality)
  <2>1. Fine(AppendSources, {"SOURCES"}, Len(model.sources))
    BY SourcesIsFine DEF Valid
  <2>2. k2 \intersect {"SOURCES"} = {} /\ {"SOURCES"} \intersect SymbolKinds = {}
        /\ {"SOURCES"} \intersect PatternKinds = {}
    BY <1>1
  <2> HIDE DEF k2, n2
  <2>3. QED
    BY <1>4, <2>1, <2>2, FineAndMore DEF BeforeQuality
<1>6. Fine(BeforeParameters, k4, n4) /\ Elems(Opening) \subseteq Elems(BeforeParameters)
  <2> DEFINE kinds == {"GLOBAL_QUALITY", "NODE_QUALITY", "LINK_QUALITY"}
             n == (Len(model.global_quality) + Len(model.node_quality)) + Len(model.pipe_quality)
  <2>1. Fine(AppendQuality, kinds, n)
    BY QualityIsFine
  <2>2. k3 \intersect kinds = {} /\ kinds \intersect SymbolKinds = {} /\ kinds \intersect PatternKinds = {}
    BY <1>1
  <2>3. k4 = k3 \union kinds /\ n4 = n3 + n
    OBVIOUS
  <2> HIDE DEF k3, n3, kinds, n, k4, n4
  <2>4. QED
    BY <1>5, <2>1, <2>2, <2>3, FineAndMore DEF BeforeParameters
<1>7. Fine(BeforePatterns, k5, n5) /\ Elems(Opening) \subseteq Elems(BeforePatterns)
  <2> DEFINE kinds == {"PIPE_PARAMETERS", "TANK_PARAMETERS"}
             n == Len(model.pipe_overrides) + Len(model.tank_overrides)
  <2>1. Fine(AppendParameters, kinds, n)
    BY ParametersAreFine
  <2>2. k4 \intersect kinds = {} /\ kinds \intersect SymbolKinds = {} /\ kinds \intersect PatternKinds = {}
    BY <1>1
  <2>3. k5 = k4 \union kinds /\ n5 = n4 + n
    OBVIOUS
  <2> HIDE DEF k4, n4, kinds, n, k5, n5
  <2>4. QED
    BY <1>6, <2>1, <2>2, <2>3, FineAndMore DEF BeforePatterns
<1>8. Fine(BeforeDiffusivity, k6, n6)
      /\ Elems(Opening) \union Elems(AppendPatterns) \subseteq Elems(BeforeDiffusivity)
  <2>1. Fine(AppendPatterns, {"PATTERNS"}, Len(model.patterns))
    BY PatternsAreFine DEF Valid
  <2>2. k5 \intersect {"PATTERNS"} = {} /\ {"PATTERNS"} \intersect SymbolKinds = {}
        /\ k5 \intersect PatternKinds = {}
    BY <1>1
  <2> HIDE DEF k5, n5
  <2>3. QED
    BY <1>7, <2>1, <2>2, FineAndMore DEF BeforeDiffusivity
<1>9. Fine(WholeText, k7, n7)
      /\ Elems(Opening) \union Elems(AppendPatterns) \subseteq Elems(WholeText)
  <2> DEFINE n == Cardinality({s \in Elems(model.species) : s.dispersion # {}})
  <2>1. Fine(AppendDiffusivity, {"DIFFUSIVITY"}, n)
    BY DiffusivityIsFine DEF Valid
  <2>2. k6 \intersect {"DIFFUSIVITY"} = {} /\ {"DIFFUSIVITY"} \intersect SymbolKinds = {}
        /\ {"DIFFUSIVITY"} \intersect PatternKinds = {}
    BY <1>1
  <2>3. n7 = n6 + n
    OBVIOUS
  <2> HIDE DEF k6, n6, n, n7
  <2>4. QED
    BY <1>8, <2>1, <2>2, <2>3, FineAndMore DEF WholeText
<1>10. k7 = BeforeKinds \union {"PATTERNS", "DIFFUSIVITY"}
  BY DEF BeforeKinds
<1> HIDE DEF k7
<1>11. QED
  BY <1>9, <1>10

-----------------------------------------------------------------------------
(* What the text of a valid model means. *)

(* The number of lines is the one the property names.                      *)
LEMMA LinesAreCounted ==
  ASSUME Valid
  PROVE  Len(WholeText) = Len(Symbols) + Len(model.reactions) + Len(model.sources)
                  + Len(model.global_quality) + Len(model.node_quality) + Len(model.pipe_quality)
                  + Len(model.pipe_overrides) + Len(model.tank_overrides) + Len(model.patterns)
                  + Cardinality({s \in Elems(model.species) : s.dispersion # {}})
<1> DEFINE y == Len(Symbols)
           p == Cardinality(At("PIPES"))
           t == Cardinality(At("TANKS"))
           r == Len(model.reactions)
           s == Len(model.sources)
           q == Len(model.global_quality)
           qn == Len(model.node_quality)
           qp == Len(model.pipe_quality)
           o == Len(model.pipe_overrides)
           ot == Len(model.tank_overrides)
           m == Len(model.patterns)
           d == Cardinality({x \in Elems(model.species) : x.dispersion # {}})
<1>1. Len(WholeText) = ((((((y + p) + t) + s) + ((q + qn) + qp)) + (o + ot)) + m) + d
  BY WholeTextIsFine DEF Fine
<1>2. /\ y \in Nat /\ r \in Nat /\ s \in Nat /\ q \in Nat /\ qn \in Nat /\ qp \in Nat /\ o \in Nat
      /\ ot \in Nat /\ m \in Nat
  BY SymbolsAre, ModelsHaveLists, ListIs DEF Valid
<1>3. p \in Nat /\ t \in Nat /\ p + t = r
  BY ReactionsAreCounted DEF Valid
<1>4. d \in Nat
  <2>1. Fine(AppendDiffusivity, {"DIFFUSIVITY"}, d)
    BY DiffusivityIsFine DEF Valid
  <2>2. IsList(AppendDiffusivity) /\ Len(AppendDiffusivity) = d
    BY <2>1 DEF Fine
  <2>3. QED
    BY <2>2, ListIs
<1> HIDE DEF y, p, t, r, s, q, qn, qp, o, ot, m, d
<1>5. ((((((y + p) + t) + s) + ((q + qn) + qp)) + (o + ot)) + m) + d
      = y + r + s + q + qn + qp + o + ot + m + d
  BY <1>2, <1>3, <1>4
<1>6. Len(WholeText) = y + r + s + q + qn + qp + o + ot + m + d
  BY <1>1, <1>5
<1>7. QED
  BY <1>6 DEF y, r, s, q, qn, qp, o, ot, m, d

(* Of the lines of some kinds exactly one defines a name that one does.    *)
LEMMA DefinedIsOne ==
  ASSUME NEW s, NEW K, DefinedOnce(s, K), NEW k \in DOMAIN s, s[k].kind \in K
  PROVE  Cardinality({i \in DOMAIN s : s[i].kind \in K /\ s[i].defines = s[k].defines}) = 1
<1> DEFINE D == {i \in DOMAIN s : s[i].kind \in K /\ s[i].defines = s[k].defines}
<1>1. D = {k}
  BY DEF DefinedOnce
<1> HIDE DEF D
<1>2. Cardinality(D) = 1
  BY <1>1, FS_Singleton
<1>3. QED
  BY <1>2 DEF D

LEMMA TextMeansTheModel ==
  ASSUME Valid, phase = "written", lines = WholeText
  PROVE  ExportMeansTheModel
<1> DEFINE written == Elems(lines)
           patterns == {l.defines : l \in {w \in written : w.kind = "PATTERNS"}}
           symbols == {l.defines : l \in {w \in written : w.kind # "PATTERNS"}} \ {NoRef}
           kinds == BeforeKinds \union {"PATTERNS", "DIFFUSIVITY"}
<1>1. /\ IsList(lines) /\ DOMAIN lines = 1 .. Len(lines) /\ Kinds(lines) \subseteq kinds
      /\ SaidOnce(lines) /\ DefinedOnce(lines, SymbolKinds) /\ DefinedOnce(lines, PatternKinds)
      /\ \A l \in written : Sound(l)
      /\ Elems(Opening) \union Elems(AppendPatterns) \subseteq written
  BY WholeTextIsFine, ListIs DEF Fine
<1>2. /\ IsList(Symbols) /\ DOMAIN Symbols = 1 .. Len(Symbols) /\ IsList(model.patterns)
      /\ DOMAIN model.patterns = 1 .. Len(model.patterns)
      /\ \A k \in 1 .. Len(model.patterns) : model.patterns[k].id \in Names
  BY SymbolsAre, ModelsHaveLists, ListIs DEF Valid
<1>3. IdsOf(Symbols) \subseteq Names
  <2>1. \A x \in Elems(Symbols) : x.id \in Names
    <3>1. /\ IsList(model.species) /\ IsList(model.constants) /\ IsList(model.parameters) /\ IsList(model.terms)
          /\ \A s \in {model.species, model.constants, model.parameters, model.terms} :
                \A x \in Elems(s) : x.id \in Names
      <4>1. \A s \in {model.species, model.constants, model.parameters, model.terms} :
              IsList(s) /\ DOMAIN s = 1 .. Len(s) /\ \A k \in 1 .. Len(s) : s[k].id \in Names
        BY ModelsHaveLists DEF Valid
      <4>2. \A s \in {model.species, model.constants, model.parameters, model.terms} :
              \A x \in Elems(s) : x.id \in Names
        BY <4>1 DEF Elems
      <4>3. QED
        BY <4>1, <4>2
    <3> DEFINE a == model.species
               b == model.constants
               c == model.parameters
               d == model.terms
               ab == a \o b
               abc == ab \o c
    <3>2. Symbols = abc \o d
      BY DEF Symbols
    <3>3. /\ IsList(a) /\ IsList(b) /\ IsList(c) /\ IsList(d)
          /\ \A x \in Elems(a) \union Elems(b) \union Elems(c) \union Elems(d) : x.id \in Names
      BY <3>1
    <3> HIDE DEF a, b, c, d
    <3>4. IsList(ab) /\ Elems(ab) = Elems(a) \union Elems(b)
      BY <3>3, ConcatIs
    <3> HIDE DEF ab
    <3>5. IsList(abc) /\ Elems(abc) = Elems(ab) \union Elems(c)
      BY <3>3, <3>4, ConcatIs
    <3> HIDE DEF abc
    <3>6. Elems(Symbols) = Elems(abc) \union Elems(d)
      BY <3>2, <3>3, <3>5, ConcatIs
    <3>7. QED
      BY <3>3, <3>4, <3>5, <3>6
  <2>2. QED
    BY <2>1 DEF IdsOf, Elems
<1>4. IdsOf(Symbols) \subseteq symbols
  <2> SUFFICES ASSUME NEW k \in 1 .. Len(Symbols)
               PROVE  Symbols[k].id \in symbols
    BY <1>2 DEF IdsOf
  <2>1. Opening[k].defines = Symbols[k].id /\ Opening[k].kind \in SymbolKinds
    BY OpeningIsFine DEF Valid
  <2>2. Opening[k] \in Elems(Opening)
    <3>1. IsList(Opening) /\ Len(Opening) = Len(Symbols)
      BY OpeningIsFine DEF Valid, Fine
    <3>2. QED
      BY <3>1, ListIs
  <2>3. Opening[k] \in written /\ Opening[k].kind # "PATTERNS"
    BY <1>1, <2>1, <2>2 DEF SymbolKinds
  <2>4. Symbols[k].id # NoRef
    <3>1. Symbols[k].id \in Names
      BY <1>2, <1>3 DEF IdsOf
    <3>2. QED
      BY <3>1, NamesAssumption
  <2>5. QED
    BY <2>1, <2>3, <2>4
<1>5. IdsOf(model.patterns) \subseteq patterns
  <2> SUFFICES ASSUME NEW m \in 1 .. Len(model.patterns)
               PROVE  model.patterns[m].id \in patterns
    BY <1>2 DEF IdsOf
  <2>1. PICK k \in 1 .. Len(model.patterns) :
           AppendPatterns[k].defines = model.patterns[m].id /\ AppendPatterns[k].kind = "PATTERNS"
    BY PatternsAreFine DEF Valid
  <2>2. AppendPatterns[k] \in Elems(AppendPatterns)
    <3>1. IsList(AppendPatterns) /\ Len(AppendPatterns) = Len(model.patterns)
      BY PatternsAreFine DEF Valid, Fine
    <3>2. QED
      BY <3>1, ListIs
  <2>3. AppendPatterns[k] \in written
    BY <1>1, <2>2
  <2>4. QED
    BY <2>1, <2>3
<1>6. \A l \in written : \E k \in DOMAIN lines : lines[k] = l
  BY DEF Elems
<1>7. ASSUME NEW n \in symbols
      PROVE  Cardinality({k \in DOMAIN lines :
                            lines[k].kind \in {"SPECIES", "COEFFICIENTS", "TERMS"} /\ lines[k].defines = n}) = 1
  <2>1. PICK w \in written : w.kind # "PATTERNS" /\ w.defines = n /\ n # NoRef
    OBVIOUS
  <2>2. n \in IdsOf(Symbols)
    BY <1>1, <2>1 DEF Sound, PatternKinds
  <2>3. PICK j \in 1 .. Len(Symbols) : Symbols[j].id = n
    BY <1>2, <2>2 DEF IdsOf
  <2>4. Opening[j].defines = n /\ Opening[j].kind \in SymbolKinds /\ Opening[j] \in written
    <3>1. Opening[j].defines = Symbols[j].id /\ Opening[j].kind \in SymbolKinds
      BY OpeningIsFine DEF Valid
    <3>2. IsList(Opening) /\ Len(Opening) = Len(Symbols)
      BY OpeningIsFine DEF Valid, Fine
    <3>3. Opening[j] \in Elems(Opening)
      BY <3>2, ListIs
    <3>4. QED
      BY <1>1, <2>3, <3>1, <3>3
  <2>5. PICK k \in DOMAIN lines : lines[k] = Opening[j]
    BY <1>6, <2>4
  <2>6. lines[k].kind \in SymbolKinds /\ lines[k].defines = n
    BY <2>4, <2>5
  <2>7. Cardinality({i \in DOMAIN lines : lines[i].kind \in SymbolKinds /\ lines[i].defines = lines[k].defines}) = 1
    BY <1>1, <2>6, DefinedIsOne
  <2>8. QED
    BY <2>6, <2>7 DEF SymbolKinds
<1>8. ASSUME NEW p \in patterns
      PROVE  Cardinality({k \in DOMAIN lines : lines[k].kind \in {"PATTERNS"} /\ lines[k].defines = p}) = 1
  <2>1. PICK w \in written : w.kind = "PATTERNS" /\ w.defines = p
    OBVIOUS
  <2>2. PICK k \in DOMAIN lines : lines[k] = w
    BY <1>6
  <2>3. lines[k].kind \in PatternKinds /\ lines[k].defines = p
    BY <2>1, <2>2 DEF PatternKinds
  <2>4. Cardinality({i \in DOMAIN lines : lines[i].kind \in PatternKinds /\ lines[i].defines = lines[k].defines}) = 1
    BY <1>1, <2>3, DefinedIsOne
  <2>5. QED
    BY <2>3, <2>4 DEF PatternKinds
<1>9. \A l \in written : /\ l.symbols \subseteq symbols /\ l.pattern \subseteq patterns
                         /\ Elems(l.about) \intersect (Nodes \union Pipes) \subseteq Enabled
  <2> HIDE DEF symbols, patterns, written
  <2>1. QED
    BY <1>1, <1>4, <1>5 DEF Sound
<1>10. \A i, k \in DOMAIN lines :
          lines[i].about = lines[k].about /\ lines[i].kind = lines[k].kind => i = k \/ lines[i].about = <<>>
  BY <1>1 DEF SaidOnce
<1>11. \A s \in Elems(model.species) : s.type = "Wall" =>
          ~\E l \in written : l.kind \in {"SOURCES", "TANKS", "DIFFUSIVITY"} /\ s.id \in Elems(l.about)
  <2> SUFFICES ASSUME NEW s \in Elems(model.species), s.type = "Wall", NEW l \in written,
                      l.kind \in {"SOURCES", "TANKS", "DIFFUSIVITY"}, s.id \in Elems(l.about)
               PROVE  FALSE
    OBVIOUS
  <2>1. PICK k \in DOMAIN model.species : model.species[k] = s
    BY DEF Elems
  <2>2. Sound(l)
    BY <1>1
  <2>3. QED
    BY <2>1, <2>2 DEF Sound
<1>12. Len(lines) = Len(Symbols) + Len(model.reactions) + Len(model.sources)
                  + Len(model.global_quality) + Len(model.node_quality) + Len(model.pipe_quality)
                  + Len(model.pipe_overrides) + Len(model.tank_overrides) + Len(model.patterns)
                  + Cardinality({s \in Elems(model.species) : s.dispersion # {}})
  BY LinesAreCounted
<1> HIDE DEF symbols, patterns, written
<1>13. QED
  BY <1>7, <1>8, <1>9, <1>10, <1>11, <1>12 DEF ExportMeansTheModel, symbols, patterns, written

-----------------------------------------------------------------------------
(* The steps. *)

(* What is said of a model does not change with what is done to it.        *)
LEMMA ChecksStay ==
  ASSUME UNCHANGED model
  PROVE  /\ IdentitiesFine' <=> IdentitiesFine
         /\ ReferencesFine' <=> ReferencesFine
         /\ NumbersFine' <=> NumbersFine
         /\ ExpressionsFine' <=> ExpressionsFine
<1>1. Symbols' = Symbols
  BY DEF Symbols
<1>2. BadUuids' = BadUuids
  <2>1. EveryUuid' = EveryUuid
    BY <1>1 DEF EveryUuid
  <2>2. QED
    BY <2>1 DEF BadUuids, Repeats
<1>3. BadSymbols' = BadSymbols
  BY <1>1 DEF BadSymbols, Repeats
<1>4. BadPatternIds' = BadPatternIds
  BY DEF BadPatternIds, Repeats
<1>5. \A u : /\ LacksSpecies(u)' = LacksSpecies(u) /\ IsWall(u)' = IsWall(u)
             /\ LacksParameter(u)' = LacksParameter(u) /\ LacksPattern(u)' = LacksPattern(u)
  BY DEF LacksSpecies, IsWall, LacksParameter, LacksPattern
<1>6. BadReactions' = BadReactions
  BY <1>5 DEF BadReactions, Where, Repeats
<1>7. BadPipeOverrides' = BadPipeOverrides /\ BadTankOverrides' = BadTankOverrides
  BY <1>5 DEF BadPipeOverrides, BadTankOverrides, Where, Repeats
<1>8. BadGlobalQuality' = BadGlobalQuality
  BY <1>5 DEF BadGlobalQuality, Where, Repeats
<1>9. BadNodeQuality' = BadNodeQuality
  BY <1>5 DEF BadNodeQuality, Where, Repeats
<1>10. BadPipeQuality' = BadPipeQuality
  BY <1>5 DEF BadPipeQuality, Where, Repeats
<1>11. BadSources' = BadSources
  BY <1>5 DEF BadSources, Where, Repeats
<1>12. NumbersFine' <=> NumbersFine
  BY DEF NumbersFine
<1>13. ExpressionsFine' <=> ExpressionsFine
  BY <1>1 DEF ExpressionsFine, BadExpression, KnownSymbols
<1>14. QED
  BY <1>2, <1>3, <1>4, <1>6, <1>7, <1>8, <1>9, <1>10, <1>11, <1>12, <1>13
     DEF IdentitiesFine, ReferencesFine

LEMMA TextStays ==
  ASSUME UNCHANGED model
  PROVE  /\ AppendSpecies' = AppendSpecies /\ AppendCoefficients' = AppendCoefficients
         /\ Opening' = Opening /\ BeforeTanks' = BeforeTanks /\ BeforeSources' = BeforeSources
         /\ BeforeQuality' = BeforeQuality /\ BeforeParameters' = BeforeParameters
         /\ BeforePatterns' = BeforePatterns /\ BeforeDiffusivity' = BeforeDiffusivity
         /\ WholeText' = WholeText
<1>1. AppendSpecies' = AppendSpecies /\ AppendCoefficients' = AppendCoefficients
  BY DEF AppendSpecies, AppendCoefficients
<1>2. AppendTerms' = AppendTerms
  BY DEF AppendTerms
<1>3. AppendReactions("PIPES")' = AppendReactions("PIPES") /\ AppendReactions("TANKS")' = AppendReactions("TANKS")
  BY DEF AppendReactions, SpeciesId
<1>4. AppendSources' = AppendSources
  BY DEF AppendSources, SpeciesId
<1>5. AppendQuality' = AppendQuality
  BY DEF AppendQuality, Saying, SpeciesId
<1>6. AppendParameters' = AppendParameters
  BY DEF AppendParameters, Saying, ParameterId
<1>7. AppendPatterns' = AppendPatterns
  BY DEF AppendPatterns
<1>8. AppendDiffusivity' = AppendDiffusivity
  BY DEF AppendDiffusivity, Saying
<1>9. Opening' = Opening
  BY <1>1, <1>2 DEF Opening
<1>10. BeforeTanks' = BeforeTanks
  BY <1>3, <1>9 DEF BeforeTanks
<1>11. BeforeSources' = BeforeSources
  BY <1>3, <1>10 DEF BeforeSources
<1>12. BeforeQuality' = BeforeQuality
  BY <1>4, <1>11 DEF BeforeQuality
<1>13. BeforeParameters' = BeforeParameters
  BY <1>5, <1>12 DEF BeforeParameters
<1>14. BeforePatterns' = BeforePatterns
  BY <1>6, <1>13 DEF BeforePatterns
<1>15. BeforeDiffusivity' = BeforeDiffusivity
  BY <1>7, <1>14 DEF BeforeDiffusivity
<1>16. WholeText' = WholeText
  BY <1>8, <1>15 DEF WholeText
<1>17. QED
  BY <1>1, <1>9, <1>10, <1>11, <1>12, <1>13, <1>14, <1>15, <1>16

LEMMA MInit == ExportInit => MInv
<1> SUFFICES ASSUME ExportInit PROVE MInv
  OBVIOUS
<1>1. model \in Models /\ phase = "content" /\ lines = <<>>
  BY DEF ExportInit
<1>2. QED
  BY <1>1 DEF MInv, Checking, Passed, OnlyThen, TextSoFar

(* While the text has not begun.                                           *)
LEMMA StillChecking ==
  ASSUME MInv, UNCHANGED <<model, lines>>, phase \in Checking, failures \subseteq failures', phase' \in Checking, Passed'
  PROVE  MInv'
BY DEF MInv, OnlyThen, TextSoFar, Checking

LEMMA MChecks ==
  ASSUME MInv,
         \/ ModelHasContent \/ ValidateIdentities \/ ValidateReferencesAndAssignments
         \/ ValidateNumerics \/ ValidateExpressions
  PROVE  MInv'
<1>1. UNCHANGED <<model, lines>> /\ failures \subseteq failures' /\ phase \in Checking
  BY DEF ModelHasContent, ValidateIdentities, ValidateReferencesAndAssignments, ValidateNumerics,
         ValidateExpressions, Check, Checking
<1>2. /\ IdentitiesFine' <=> IdentitiesFine
      /\ ReferencesFine' <=> ReferencesFine
      /\ NumbersFine' <=> NumbersFine
      /\ ExpressionsFine' <=> ExpressionsFine
  BY <1>1, ChecksStay
<1>3. failures' = {} => failures = {}
  BY <1>1
<1>4. Passed
  BY DEF MInv
<1>5. CASE ModelHasContent
  <2>1. CASE HasContent
    <3>1. phase' = "identities"
      BY <1>5, <2>1 DEF ModelHasContent, Check
    <3>2. QED
      BY <1>1, <3>1, StillChecking DEF Passed, Checking
  <2>2. CASE ~HasContent
    <3>1. phase' = "run" /\ model.species = <<>>
      BY <1>5, <2>2 DEF ModelHasContent, Check, HasContent
    <3>2. QED
      BY <1>1, <3>1, StillChecking DEF Passed, Checking
  <2>3. QED
    BY <2>1, <2>2
<1>6. CASE ValidateIdentities
  <2>1. phase = "identities" /\ phase' = "references"
        /\ failures' = failures \union ({<<"uuid", k>> : k \in BadUuids} \union {<<"symbol", k>> : k \in BadSymbols}
                                        \union {<<"pattern", k>> : k \in BadPatternIds})
    BY <1>6 DEF ValidateIdentities, Check
  <2>2. failures' = {} => IdentitiesFine
    BY <2>1 DEF IdentitiesFine
  <2>3. Passed'
    BY <1>1, <1>2, <2>1, <2>2 DEF Passed
  <2>4. QED
    BY <1>1, <2>1, <2>3, StillChecking DEF Checking
<1>7. CASE ValidateReferencesAndAssignments
  <2>1. phase = "references" /\ phase' = "numerics"
        /\ failures' = failures \union
             ({<<"reaction", k>> : k \in BadReactions}
             \union {<<"pipe override", k>> : k \in BadPipeOverrides}
             \union {<<"tank override", k>> : k \in BadTankOverrides}
             \union {<<"global quality", k>> : k \in BadGlobalQuality}
             \union {<<"node quality", k>> : k \in BadNodeQuality}
             \union {<<"pipe quality", k>> : k \in BadPipeQuality}
             \union {<<"source", k>> : k \in BadSources})
    BY <1>7 DEF ValidateReferencesAndAssignments, Check
  <2>2. failures' = {} => ReferencesFine
    BY <2>1 DEF ReferencesFine
  <2>3. Passed'
    BY <1>1, <1>2, <1>3, <1>4, <2>1, <2>2 DEF Passed
  <2>4. QED
    BY <1>1, <2>1, <2>3, StillChecking DEF Checking
<1>8. CASE ValidateNumerics
  <2> DEFINE spread == {l \in DOMAIN model.species : BadDispersion(model.species[l])}
             empty == {l \in DOMAIN model.patterns : model.patterns[l].multipliers = 0}
  <2>1. phase = "numerics" /\ phase' = "expressions"
        /\ {<<"dispersion", k>> : k \in spread} \union {<<"empty pattern", k>> : k \in empty} \subseteq failures'
    BY <1>8 DEF ValidateNumerics, Check
  <2>2. failures' = {} => spread = {} /\ empty = {}
    <3> HIDE DEF spread, empty
    <3>1. QED
      BY <2>1
  <2>3. failures' = {} => NumbersFine
    BY <2>2 DEF NumbersFine
  <2>4. Passed'
    BY <1>1, <1>2, <1>3, <1>4, <2>1, <2>3 DEF Passed
  <2>5. QED
    BY <1>1, <2>1, <2>4, StillChecking DEF Checking
<1>9. CASE ValidateExpressions
  <2> DEFINE t == {l \in DOMAIN model.terms : BadExpression(model.terms[l].expression)}
             f == {l \in DOMAIN model.reactions : BadExpression(model.reactions[l].expression)}
  <2>1. phase = "expressions" /\ phase' = "search"
        /\ {<<"term", k>> : k \in t} \union {<<"formula", k>> : k \in f} \subseteq failures'
    BY <1>9 DEF ValidateExpressions, Check
  <2>2. failures' = {} => t = {} /\ f = {}
    <3> HIDE DEF t, f
    <3>1. QED
      BY <2>1
  <2>3. failures' = {} => ExpressionsFine
    BY <2>2 DEF ExpressionsFine
  <2>4. Passed'
    BY <1>1, <1>2, <1>3, <1>4, <2>1, <2>3 DEF Passed
  <2>5. QED
    BY <1>1, <2>1, <2>4, StillChecking DEF Checking
<1>10. QED
  BY <1>5, <1>6, <1>7, <1>8, <1>9

LEMMA MSearches ==
  ASSUME MInv, NextTerm \/ Skip \/ Enter \/ FindCycle \/ Leave \/ EndSearch
  PROVE  MInv'
<1>1. /\ UNCHANGED <<model, lines>> /\ failures \subseteq failures' /\ phase = "search" /\ phase' \in {"search", "run"}
  BY DEF NextTerm, Skip, Enter, FindCycle, Leave, EndSearch, Searching, Check
<1>2. Passed'
  BY <1>1, ChecksStay DEF MInv, Passed
<1>3. QED
  BY <1>1, <1>2, StillChecking DEF Checking

LEMMA MRuns == ASSUME MInv, ValidateRun PROVE MInv'
<1>1. UNCHANGED <<model, lines>> /\ failures \subseteq failures' /\ phase = "run" /\ phase \in Checking
  BY DEF ValidateRun, Check, Checking
<1>2. Passed'
  <2>1. phase' \in {"SPECIES", "invalid"}
    BY DEF ValidateRun, Check
  <2>2. QED
    BY <1>1, <2>1, ChecksStay DEF MInv, Passed
<1>3. CASE phase' = "invalid"
  BY <1>1, <1>2, <1>3, StillChecking DEF Checking
<1>4. CASE phase' # "invalid"
  <2> DEFINE found == {<<"selection", k>> : k \in BadSelections}
                      \union (IF model.species = <<>> THEN {<<"nothing to run">>} ELSE {})
  <2>1. failures = {} /\ phase' = "SPECIES" /\ found = {} /\ failures' = failures \union found
    BY <1>4 DEF ValidateRun, Check
  <2>2. model.species # <<>>
    BY <2>1
  <2> HIDE DEF found
  <2>3. lines = <<>>
    BY <1>1 DEF MInv, TextSoFar
  <2>4. TextSoFar'
    BY <1>1, <2>1, <2>3 DEF TextSoFar, Checking
  <2>5. OnlyThen'
    BY <1>1, <2>1, <2>2 DEF OnlyThen
  <2>6. phase' \in Elems(Sections)
    BY <2>1 DEF Elems, Sections
  <2>7. QED
    BY <1>1, <1>2, <2>4, <2>5, <2>6 DEF MInv
<1>5. QED
  BY <1>3, <1>4

(* A model that is written down has passed everything.                     *)
LEMMA WritingIsValid ==
  ASSUME MInv, phase \notin Checking
  PROVE  Valid
BY DEF MInv, OnlyThen, Passed, Checking, Valid

LEMMA MWrites == ASSUME MInv, WriteSection PROVE MInv'
<1>1. PICK k \in DOMAIN Sections :
        /\ phase = Sections[k]
        /\ IF \E line \in Elems(Section(phase)) : Unresolved(line)
           THEN phase' = "stuck" /\ lines' = <<>>
           ELSE /\ phase' = IF k < Len(Sections) THEN Sections[k + 1] ELSE "written"
                /\ lines' = lines \o Section(phase)
        /\ UNCHANGED <<model, failures>>
  BY DEF WriteSection
<1>2. DOMAIN Sections = 1 .. 10 /\ Len(Sections) = 10 /\ phase \in Elems(Sections)
  BY <1>1 DEF Sections, Elems
<1>3. Elems(Sections) = {"SPECIES", "COEFFICIENTS", "TERMS", "PIPES", "TANKS", "SOURCES", "QUALITY",
                         "PARAMETERS", "PATTERNS", "DIFFUSIVITY"}
  <2>1. \A x \in Elems(Sections) : x \in {"SPECIES", "COEFFICIENTS", "TERMS", "PIPES", "TANKS", "SOURCES",
                                        "QUALITY", "PARAMETERS", "PATTERNS", "DIFFUSIVITY"}
    BY DEF Elems, Sections
  <2>2. /\ Sections[1] = "SPECIES" /\ Sections[2] = "COEFFICIENTS" /\ Sections[3] = "TERMS"
        /\ Sections[4] = "PIPES" /\ Sections[5] = "TANKS" /\ Sections[6] = "SOURCES"
        /\ Sections[7] = "QUALITY" /\ Sections[8] = "PARAMETERS" /\ Sections[9] = "PATTERNS"
        /\ Sections[10] = "DIFFUSIVITY"
    BY DEF Sections
  <2>3. \A i \in 1 .. 10 : Sections[i] \in Elems(Sections)
    BY <1>2 DEF Elems
  <2>4. 1 \in 1 .. 10 /\ 2 \in 1 .. 10 /\ 3 \in 1 .. 10 /\ 4 \in 1 .. 10 /\ 5 \in 1 .. 10
        /\ 6 \in 1 .. 10 /\ 7 \in 1 .. 10 /\ 8 \in 1 .. 10 /\ 9 \in 1 .. 10 /\ 10 \in 1 .. 10
    OBVIOUS
  <2>5. QED
    BY <2>1, <2>2, <2>3, <2>4
<1>4. phase \notin Checking
  BY <1>2, <1>3 DEF Checking
<1>5. Valid
  BY <1>4, WritingIsValid
<1>6. /\ phase' = IF k < Len(Sections) THEN Sections[k + 1] ELSE "written"
      /\ lines' = lines \o Section(phase)
  BY <1>1, <1>2, <1>5, SectionsAreResolved
<1>7. TextSoFar /\ OnlyThen /\ Passed
  BY DEF MInv
<1>8. k \in {1, 2, 3, 4, 5, 6, 7, 8, 9, 10}
  BY <1>2
<1>9. \/ phase = "SPECIES" /\ phase' = "COEFFICIENTS"
      \/ phase = "COEFFICIENTS" /\ phase' = "TERMS"
      \/ phase = "TERMS" /\ phase' = "PIPES"
      \/ phase = "PIPES" /\ phase' = "TANKS"
      \/ phase = "TANKS" /\ phase' = "SOURCES"
      \/ phase = "SOURCES" /\ phase' = "QUALITY"
      \/ phase = "QUALITY" /\ phase' = "PARAMETERS"
      \/ phase = "PARAMETERS" /\ phase' = "PATTERNS"
      \/ phase = "PATTERNS" /\ phase' = "DIFFUSIVITY"
      \/ phase = "DIFFUSIVITY" /\ phase' = "written"
  BY <1>1, <1>2, <1>6, <1>8 DEF Sections
<1>10. UNCHANGED <<model, failures>>
  BY <1>1
<1>11. phase' \notin Checking /\ phase' \in Elems(Sections) \union {"written"} /\ phase' # "SPECIES"
  BY <1>3, <1>9 DEF Checking
<1>12. OnlyThen' /\ Passed'
  <2>1. OnlyThen'
    BY <1>4, <1>7, <1>10 DEF OnlyThen
  <2>2. Passed'
    BY <1>5, <1>10, ChecksStay DEF Passed, Valid
  <2>3. QED
    BY <2>1, <2>2
<1>13. TextSoFar'
  <2>1. CASE phase = "SPECIES" /\ phase' = "COEFFICIENTS"
    <3>1. lines = <<>> /\ Section(phase) = AppendSpecies
      BY <1>7, <2>1 DEF TextSoFar, Section
    <3>2. IsList(AppendSpecies)
      <4>1. IsList(model.species)
        BY <1>5, ModelsHaveLists DEF Valid
      <4>2. QED
        BY <4>1, DefiningMirrors DEF AppendSpecies, SymbolKinds, Mirrors
    <3>3. <<>> \o AppendSpecies = AppendSpecies
      <4>1. AppendSpecies \in Seq(Elems(AppendSpecies))
        BY <3>2 DEF IsList
      <4>2. QED
        BY <4>1, ConcatEmptySeq
    <3>4. lines' = AppendSpecies'
      BY <1>6, <1>10, <3>1, <3>3, TextStays
    <3>5. QED
      BY <2>1, <3>4 DEF TextSoFar, Checking
  <2>2. CASE phase = "COEFFICIENTS" /\ phase' = "TERMS"
    <3>1. lines' = AppendSpecies \o AppendCoefficients
      BY <1>6, <1>7, <2>2 DEF TextSoFar, Section
    <3>2. lines' = AppendSpecies' \o AppendCoefficients'
      BY <1>10, <3>1, TextStays
    <3>3. QED
      BY <2>2, <3>2 DEF TextSoFar, Checking
  <2>3. CASE phase = "TERMS" /\ phase' = "PIPES"
    <3>1. Section(phase) = AppendTerms
      BY <2>3 DEF Section
    <3>2. lines' = Opening
      BY <1>6, <1>7, <2>3, <3>1 DEF TextSoFar, Opening
    <3>3. lines' = Opening'
      BY <1>10, <3>2, TextStays
    <3>4. QED
      BY <2>3, <3>3 DEF TextSoFar, Checking
  <2>4. CASE phase = "PIPES" /\ phase' = "TANKS"
    <3>1. Section(phase) = AppendReactions("PIPES")
      BY <2>4 DEF Section
    <3>2. lines' = BeforeTanks
      BY <1>6, <1>7, <2>4, <3>1 DEF TextSoFar, BeforeTanks
    <3>3. lines' = BeforeTanks'
      BY <1>10, <3>2, TextStays
    <3>4. QED
      BY <2>4, <3>3 DEF TextSoFar, Checking
  <2>5. CASE phase = "TANKS" /\ phase' = "SOURCES"
    <3>1. Section(phase) = AppendReactions("TANKS")
      BY <2>5 DEF Section
    <3>2. lines' = BeforeSources
      BY <1>6, <1>7, <2>5, <3>1 DEF TextSoFar, BeforeSources
    <3>3. lines' = BeforeSources'
      BY <1>10, <3>2, TextStays
    <3>4. QED
      BY <2>5, <3>3 DEF TextSoFar, Checking
  <2>6. CASE phase = "SOURCES" /\ phase' = "QUALITY"
    <3>1. Section(phase) = AppendSources
      BY <2>6 DEF Section
    <3>2. lines' = BeforeQuality
      BY <1>6, <1>7, <2>6, <3>1 DEF TextSoFar, BeforeQuality
    <3>3. lines' = BeforeQuality'
      BY <1>10, <3>2, TextStays
    <3>4. QED
      BY <2>6, <3>3 DEF TextSoFar, Checking
  <2>7. CASE phase = "QUALITY" /\ phase' = "PARAMETERS"
    <3>1. Section(phase) = AppendQuality
      BY <2>7 DEF Section
    <3>2. lines' = BeforeParameters
      BY <1>6, <1>7, <2>7, <3>1 DEF TextSoFar, BeforeParameters
    <3>3. lines' = BeforeParameters'
      BY <1>10, <3>2, TextStays
    <3>4. QED
      BY <2>7, <3>3 DEF TextSoFar, Checking
  <2>8. CASE phase = "PARAMETERS" /\ phase' = "PATTERNS"
    <3>1. Section(phase) = AppendParameters
      BY <2>8 DEF Section
    <3>2. lines' = BeforePatterns
      BY <1>6, <1>7, <2>8, <3>1 DEF TextSoFar, BeforePatterns
    <3>3. lines' = BeforePatterns'
      BY <1>10, <3>2, TextStays
    <3>4. QED
      BY <2>8, <3>3 DEF TextSoFar, Checking
  <2>9. CASE phase = "PATTERNS" /\ phase' = "DIFFUSIVITY"
    <3>1. Section(phase) = AppendPatterns
      BY <2>9 DEF Section
    <3>2. lines' = BeforeDiffusivity
      BY <1>6, <1>7, <2>9, <3>1 DEF TextSoFar, BeforeDiffusivity
    <3>3. lines' = BeforeDiffusivity'
      BY <1>10, <3>2, TextStays
    <3>4. QED
      BY <2>9, <3>3 DEF TextSoFar, Checking
  <2>10. CASE phase = "DIFFUSIVITY" /\ phase' = "written"
    <3>1. Section(phase) = AppendDiffusivity
      BY <2>10 DEF Section
    <3>2. lines' = WholeText
      BY <1>6, <1>7, <2>10, <3>1 DEF TextSoFar, WholeText
    <3>3. lines' = WholeText'
      BY <1>10, <3>2, TextStays
    <3>4. QED
      BY <2>10, <3>3 DEF TextSoFar, Checking
  <2>11. QED
    BY <1>9, <2>1, <2>2, <2>3, <2>4, <2>5, <2>6, <2>7, <2>8, <2>9, <2>10
<1>14. QED
  BY <1>10, <1>11, <1>12, <1>13 DEF MInv

LEMMA MNext == ASSUME MInv, [ExportNext]_exportVars PROVE MInv'
<1>1. CASE UNCHANGED exportVars
  <2>1. UNCHANGED <<model, phase, failures, lines>>
    BY <1>1 DEF exportVars
  <2>2. Passed'
    BY <2>1, ChecksStay DEF MInv, Passed
  <2>3. TextSoFar'
    BY <2>1, TextStays DEF MInv, TextSoFar
  <2>4. QED
    BY <2>1, <2>2, <2>3 DEF MInv, OnlyThen
<1>2. CASE ExportNext
  BY <1>2, MChecks, MSearches, MRuns, MWrites DEF ExportNext
<1>3. QED
  BY <1>1, <1>2

(* Only a valid model gets as far as the text, and it does not get stuck.  *)
LEMMA MImplies == ASSUME MInv PROVE ExportMeansTheModel
<1>1. phase # "stuck"
  BY DEF MInv, Checking, Elems, Sections
<1>2. CASE phase = "written"
  <2>1. Valid
    BY <1>2, WritingIsValid DEF Checking
  <2>2. lines = WholeText
    BY <1>2 DEF MInv, TextSoFar
  <2>3. QED
    BY <1>2, <2>1, <2>2, TextMeansTheModel
<1>3. CASE phase # "written"
  BY <1>1, <1>3 DEF ExportMeansTheModel
<1>4. QED
  BY <1>2, <1>3

(* For every model and network: a model that passes the validation is      *)
(* written down without getting stuck, and its text says the whole of it,  *)
(* every name defined once, every name used defined, nothing said twice,   *)
(* of a disabled part or of a wall that cannot have it                     *)
(* (retrieveEpanetMsxText).                                                *)
THEOREM ExportMeansTheModelAlways == ExportSpec => []ExportMeansTheModel
<1>1. ExportInit => MInv
  BY MInit
<1>2. MInv /\ [ExportNext]_exportVars => MInv'
  BY MNext
<1>3. MInv => ExportMeansTheModel
  BY MImplies
<1>4. QED
  BY <1>1, <1>2, <1>3, PTL DEF ExportSpec

=============================================================================
