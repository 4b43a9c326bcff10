----------------------- MODULE HydraulicSolverProofs -----------------------
(***************************************************************************)
(* The hydraulic solver's safety for any bounds on the times and steps the *)
(* toolkit reports.  The inductive invariant adds where the session is     *)
(* before and after the loop, that the last time accepted bounds the times *)
(* of the results, and that inside the loop a step that was read has a     *)
(* result to be completed.  What run() returns is proved from a second     *)
(* invariant on top: a failure is diagnosed, or the report could not be    *)
(* configured; the loop was left for a cancellation, at the end, or for a  *)
(* failure that invalidates the results.  A third one says that the flow   *)
(* balance covers the timeline at every moment; what a timeline accounts   *)
(* for is a sum, unfolded by induction on its length.                      *)
(***************************************************************************)
EXTENDS HydraulicSolver, FiniteSetTheorems, TLAPS

SessionPlaces ==
    /\ pc \in {"entry", "report", "ready", "open"} => session = "closed"
    /\ pc = "begun" => session = "initialised"

ResultsBounded == \A i \in DOMAIN results : results[i].time <= previous_time

ReadHasResult == available /\ pc \notin {"close", "returned"} => results # <<>>

IInv ==
    /\ TypeOK
    /\ SessionPlaces
    /\ SessionBalanced
    /\ ResultsBounded
    /\ ReadHasResult
    /\ TimesIncrease

Entry == [time : 0 .. MaxTime, event_next : Unset .. MaxStep]

LEMMA RangesAreInt == \A n \in Nat : \A i \in Unset .. n : i \in Int
BY DEF Unset

LEMMA ResultsAreEntries ==
  ASSUME TypeOK
  PROVE  /\ results \in Seq(Entry)
         /\ DOMAIN results = 1 .. Len(results) /\ Len(results) \in Nat
         /\ \A i \in DOMAIN results :
              results[i] \in Entry /\ results[i].time \in 0 .. MaxTime
<1>1. results \in Seq(Entry)
  BY DEF TypeOK, Entry
<1>2. \A i \in DOMAIN results : results[i] \in Entry
  BY <1>1
<1>3. \A e \in Entry : e.time \in 0 .. MaxTime
  BY DEF Entry
<1>4. QED
  BY <1>1, <1>2, <1>3

-----------------------------------------------------------------------------
(* Appending a later result, and completing the last one. *)

LEMMA AppendLater ==
  ASSUME IInv, NEW t \in 0 .. MaxTime, \A i \in DOMAIN results : results[i].time < t,
         results' = Append(results, [time |-> t, event_next |-> Unset])
  PROVE  /\ results' \in Seq(Entry)
         /\ results' # <<>>
         /\ TimesIncrease'
         /\ \A i \in DOMAIN results' : results'[i].time <= t
<1> DEFINE e == [time |-> t, event_next |-> Unset]
<1>1. results \in Seq(Entry) /\ e \in Entry
  BY BoundsAssumption DEF IInv, TypeOK, Entry, Unset
<1>2. e.time = t
  OBVIOUS
<1> HIDE DEF e
<1>3. results' = Append(results, e)
  BY DEF e
<1>4. /\ Len(results') = Len(results) + 1
      /\ DOMAIN results' = 1 .. Len(results) + 1
      /\ results'[Len(results) + 1] = e
      /\ \A i \in DOMAIN results : results'[i] = results[i]
      /\ DOMAIN results = 1 .. Len(results) /\ Len(results) \in Nat
      /\ results' \in Seq(Entry)
  BY <1>1, <1>3
<1>5. \A i \in DOMAIN results : results[i].time \in Int
  <2> SUFFICES ASSUME NEW i \in DOMAIN results PROVE results[i].time \in Int
    OBVIOUS
  <2>1. results[i] \in Entry
    BY <1>1
  <2>2. results[i].time \in 0 .. MaxTime
    BY <2>1 DEF Entry
  <2>3. QED
    BY <2>2
<1>6. TimesIncrease'
  <2> SUFFICES ASSUME NEW i \in DOMAIN results', NEW k \in DOMAIN results', i < k
               PROVE  results'[i].time < results'[k].time
    BY DEF TimesIncrease
  <2>1. i \in DOMAIN results
    BY <1>4
  <2>2. CASE k = Len(results) + 1
    BY <2>1, <2>2, <1>2, <1>4
  <2>3. CASE k # Len(results) + 1
    <3>1. k \in DOMAIN results
      BY <2>3, <1>4
    <3>2. QED
      BY <2>1, <3>1, <1>4 DEF IInv, TimesIncrease
  <2>4. QED
    BY <2>2, <2>3
<1>7. \A i \in DOMAIN results' : results'[i].time <= t
  <2> SUFFICES ASSUME NEW i \in DOMAIN results' PROVE results'[i].time <= t
    OBVIOUS
  <2>1. CASE i = Len(results) + 1
    BY <2>1, <1>2, <1>4
  <2>2. CASE i # Len(results) + 1
    <3>1. i \in DOMAIN results
      BY <2>2, <1>4
    <3>2. QED
      BY <3>1, <1>4, <1>5
  <2>3. QED
    BY <2>1, <2>2
<1>8. QED
  BY <1>4, <1>6, <1>7

LEMMA CompleteLast ==
  ASSUME IInv, results # <<>>, NEW s \in 0 .. MaxStep,
         results' = [results EXCEPT ![Len(results)].event_next = s]
  PROVE  /\ results' \in Seq(Entry)
         /\ DOMAIN results' = DOMAIN results
         /\ \A i \in DOMAIN results : results'[i].time = results[i].time
<1> DEFINE n == Len(results)
           e == [results[n] EXCEPT !.event_next = s]
<1>1. results \in Seq(Entry) /\ n \in DOMAIN results /\ results[n] \in Entry
  <2>1. TypeOK
    BY DEF IInv
  <2>2. Len(results) # 0
    BY <2>1, ResultsAreEntries
  <2>3. QED
    BY <2>1, <2>2, ResultsAreEntries
<1>2. e \in Entry /\ e.time = results[n].time
  <2>1. s \in Unset .. MaxStep
    BY BoundsAssumption DEF Unset
  <2>2. QED
    BY <1>1, <2>1 DEF Entry
<1> HIDE DEF e
<1>3. results' = [results EXCEPT ![n] = e]
  BY DEF e
<1>4. results' \in Seq(Entry) /\ DOMAIN results' = DOMAIN results
  BY <1>1, <1>2, <1>3
<1>5. \A i \in DOMAIN results : results'[i] = IF i = n THEN e ELSE results[i]
  BY <1>1, <1>3
<1>6. QED
  BY <1>2, <1>4, <1>5

-----------------------------------------------------------------------------
(* The invariant is inductive. *)

LEMMA InvInit == Init => IInv
<1> SUFFICES ASSUME Init PROVE IInv
  OBVIOUS
<1>1. TypeOK
  <2>1. 0 \in Unset .. MaxTime /\ Unset \in Unset .. MaxTime /\ 0 \in Unset .. MaxStep
    BY BoundsAssumption DEF Unset
  <2>2. "entry" \in Places
    BY DEF Places, PollPoints
  <2>3. results \in Seq([time : 0 .. MaxTime, event_next : Unset .. MaxStep])
    BY DEF Init
  <2>4. QED
    BY <2>1, <2>2, <2>3 DEF Init, TypeOK, Codes
<1>2. QED
  BY <1>1 DEF Init, IInv, SessionPlaces, SessionBalanced, ResultsBounded,
              ReadHasResult, TimesIncrease

(* The steps that leave the results alone.                                 *)
LEMMA InvQuiet ==
  ASSUME IInv, TypeOK', UNCHANGED <<results, previous_time, available>>,
         pc \in {"close", "returned"} => pc' \in {"close", "returned"}
  PROVE  /\ ResultsBounded' /\ ReadHasResult' /\ TimesIncrease'
BY DEF IInv, ResultsBounded, ReadHasResult, TimesIncrease

LEMMA InvStep == IInv /\ [Next]_vars => IInv'
<1> SUFFICES ASSUME IInv, [Next]_vars PROVE IInv'
  OBVIOUS
<1> DEFINE Severe == [severity : Severities, stage : {"RunHydraulics", "CloseHydraulics"}]
<1>a. \A sev \in {"Warning", "Error", "Fatal"}, st \in {"RunHydraulics", "CloseHydraulics"} :
        Diag(sev, st) \in Severe
  BY DEF Diag, Severities
<1>b. TypeOK /\ SessionPlaces /\ SessionBalanced /\ ResultsBounded /\ ReadHasResult
      /\ TimesIncrease
  BY DEF IInv
<1>c. diags \subseteq Severe
  BY <1>b DEF TypeOK
<1> HIDE DEF Severe
<1>1. CASE RequestCancel
  <2>1. TypeOK'
    BY <1>1, <1>b DEF RequestCancel, TypeOK, loopVars
  <2>2. QED
    BY <1>1, <1>b, <2>1, InvQuiet
       DEF RequestCancel, loopVars, IInv, SessionPlaces, SessionBalanced
<1>2. CASE Poll
  <2>1. pc \in DOMAIN PollPoints /\ pc' \in {PollPoints[pc].exit, PollPoints[pc].next}
    BY <1>2 DEF Poll
  <2>2. pc' \in Places
    BY <2>1 DEF PollPoints, Places
  <2>3. TypeOK'
    BY <1>2, <1>b, <2>2 DEF Poll, TypeOK, loopVars
  <2>4. SessionPlaces' /\ SessionBalanced'
    BY <1>2, <1>b, <2>1 DEF Poll, PollPoints, SessionPlaces, SessionBalanced
  <2>5. pc \notin {"close", "returned"}
    BY <2>1 DEF PollPoints
  <2>6. QED
    BY <1>2, <1>b, <2>3, <2>4, <2>5, InvQuiet DEF Poll, loopVars, IInv
<1>3. CASE ConfigureReport \/ OpenH \/ InitH \/ CloseH
  <2>1. diags' \subseteq Severe /\ failed' \in BOOLEAN
    BY <1>3, <1>a, <1>b, <1>c
       DEF ConfigureReport, OpenH, InitH, CloseH, Collect, Quiet, TypeOK
  <2>2. pc' \in Places /\ session' \in {"closed", "open", "initialised"}
    BY <1>3, <1>b DEF ConfigureReport, OpenH, InitH, CloseH, Places, TypeOK, PollPoints
  <2>3. stored' \in Nat \union {Unset}
    BY <1>3, <1>b DEF ConfigureReport, OpenH, InitH, CloseH, TypeOK
  <2>4. UNCHANGED <<requested, cancelled, steady, code, current_time, next_step, ended,
                    loopVars>>
    BY <1>3 DEF ConfigureReport, OpenH, InitH, CloseH
  <2>5. TypeOK'
    BY <1>b, <2>1, <2>2, <2>3, <2>4 DEF TypeOK, loopVars, Severe
  <2>6. SessionPlaces' /\ SessionBalanced'
    BY <1>3, <1>b DEF ConfigureReport, OpenH, InitH, CloseH, SessionPlaces, SessionBalanced
  <2>7. pc \in {"close", "returned"} => pc' \in {"close", "returned"}
    BY <1>3 DEF ConfigureReport, OpenH, InitH, CloseH
  <2>8. QED
    BY <2>4, <2>5, <2>6, <2>7, InvQuiet DEF loopVars, IInv
<1>4. CASE RunH \/ Again
  <2>1. pc' \in Places /\ code' \in Codes /\ ended' \in BOOLEAN
        /\ current_time' \in Unset .. MaxTime
    <3>1. pc' \in Places
      BY <1>4 DEF RunH, Again, Places, PollPoints
    <3>2. CASE RunH
      BY <3>1, <3>2, <1>b DEF RunH, Codes, TypeOK
    <3>3. CASE Again
      BY <3>1, <3>3, <1>b DEF Again, TypeOK
    <3>4. QED
      BY <1>4, <3>2, <3>3
  <2>2. UNCHANGED <<requested, cancelled, steady, session, next_step, stored, failed,
                    diags, loopVars>>
    BY <1>4 DEF RunH, Again
  <2>3. TypeOK'
    BY <1>b, <2>1, <2>2 DEF TypeOK, loopVars
  <2>4. SessionPlaces' /\ SessionBalanced'
    BY <1>4, <1>b DEF RunH, Again, SessionPlaces, SessionBalanced
  <2>5. pc \notin {"close", "returned"}
    BY <1>4 DEF RunH, Again
  <2>6. QED
    BY <2>2, <2>3, <2>4, <2>5, InvQuiet DEF loopVars, IInv
<1>5. CASE Break \/ NoResult
  <2>1. CodeDiags \subseteq Severe
    BY <1>a, <1>b DEF CodeDiags, TypeOK, Codes
  <2>2. diags' \subseteq Severe
    BY <1>5, <1>a, <1>c, <2>1 DEF Break, NoResult
  <2>3. pc = "judge" /\ pc' \in {"close", "sampled"} /\ failed' \in BOOLEAN
        /\ available' \in BOOLEAN /\ missed' \in BOOLEAN
        /\ (pc' = "sampled" => ~available')
    <3>1. (code \in {"ok", "warning"}) \in BOOLEAN
      OBVIOUS
    <3>2. CASE Break
      BY <3>1, <3>2 DEF Break
    <3>3. CASE NoResult
      BY <3>3 DEF NoResult
    <3>4. QED
      BY <1>5, <3>2, <3>3
  <2>4. previous_time' \in {previous_time, current_time}
        /\ (previous_time' # previous_time =>
              previous_time < 0 \/ previous_time < previous_time')
    <3>1. CASE Break
      BY <3>1 DEF Break
    <3>2. CASE NoResult
      <4>1. previous_time' = current_time
        BY <3>2 DEF NoResult
      <4>2. ~(previous_time >= 0 /\ current_time <= previous_time)
        BY <3>2 DEF NoResult, TimeIsBad, NotAdvanced
      <4>3. previous_time \in Int /\ current_time \in Int
        BY <1>b, RangesAreInt, BoundsAssumption DEF TypeOK
      <4>4. QED
        BY <4>1, <4>2, <4>3
    <3>3. QED
      BY <1>5, <3>1, <3>2
  <2>5. UNCHANGED <<requested, cancelled, steady, session, code, current_time, next_step,
                    results, covered, stored, ended>>
    BY <1>5 DEF Break, NoResult
  <2>6. TypeOK'
    <3>1. pc' \in Places
      BY <2>3 DEF Places, PollPoints
    <3>2. previous_time' \in Unset .. MaxTime
      BY <2>4, <1>b DEF TypeOK
    <3>3. QED
      BY <1>b, <2>2, <2>3, <2>5, <3>1, <3>2 DEF TypeOK, Severe
  <2>7. SessionPlaces' /\ SessionBalanced'
    BY <1>b, <2>3, <2>5 DEF SessionPlaces, SessionBalanced
  <2>8. ResultsBounded'
    <3> SUFFICES ASSUME NEW i \in DOMAIN results
                 PROVE  results[i].time <= previous_time'
      BY <2>5 DEF ResultsBounded
    <3>1. results[i].time \in 0 .. MaxTime /\ results[i].time <= previous_time
      BY <1>b, ResultsAreEntries DEF ResultsBounded
    <3>2. previous_time \in Int /\ previous_time' \in Int
      BY <1>b, <2>6, RangesAreInt, BoundsAssumption DEF TypeOK
    <3>3. QED
      BY <2>4, <3>1, <3>2
  <2>9. ReadHasResult' /\ TimesIncrease'
    BY <1>b, <2>3, <2>5 DEF ReadHasResult, TimesIncrease
  <2>10. QED
    BY <2>6, <2>7, <2>8, <2>9 DEF IInv
<1>6. CASE ReadResult
  <2>1. current_time \in 0 .. MaxTime
    BY <1>6, <1>b DEF ReadResult, TimeIsBad, TypeOK, Unset
  <2>2. \A i \in DOMAIN results : results[i].time < current_time
    <3> SUFFICES ASSUME NEW i \in DOMAIN results PROVE results[i].time < current_time
      OBVIOUS
    <3>1. results[i].time \in 0 .. MaxTime /\ results[i].time <= previous_time
      BY <1>b, ResultsAreEntries DEF ResultsBounded
    <3>2. previous_time \in Int
      BY <1>b, RangesAreInt, BoundsAssumption DEF TypeOK
    <3>3. QED
      BY <1>6, <2>1, <3>1, <3>2 DEF ReadResult, TimeIsBad, NotAdvanced
  <2>3. /\ results' \in Seq(Entry) /\ results' # <<>> /\ TimesIncrease'
        /\ \A i \in DOMAIN results' : results'[i].time <= current_time
    BY <1>6, <2>1, <2>2, AppendLater DEF ReadResult
  <2>4. diags' \subseteq Severe
    BY <1>6, <1>a, <1>b, <1>c DEF ReadResult, CodeDiags, TypeOK, Codes
  <2>5. TypeOK'
    <3>1. pc' \in Places
      BY <1>6 DEF ReadResult, Places, PollPoints
    <3>2. QED
      BY <1>6, <1>b, <2>3, <2>4, <3>1 DEF ReadResult, TypeOK, Severe, Entry
  <2>6. SessionPlaces' /\ SessionBalanced'
    BY <1>6, <1>b DEF ReadResult, SessionPlaces, SessionBalanced
  <2>7. ResultsBounded' /\ ReadHasResult'
    BY <1>6, <2>3 DEF ReadResult, ResultsBounded, ReadHasResult
  <2>8. QED
    BY <2>3, <2>5, <2>6, <2>7 DEF IInv
<1>7. CASE NextH
  <2>1. PICK s \in Unset .. MaxStep, warned \in SUBSET {Diag("Warning", "RunHydraulics")} :
          /\ next_step' = s
          /\ \/ /\ s >= 0
                /\ pc' = "advanced"
                /\ results' = IF available
                              THEN [results EXCEPT ![Len(results)].event_next = s]
                              ELSE results
                /\ covered' = covered + Interval(s)
                /\ diags' = diags \union warned
                /\ UNCHANGED failed
             \/ /\ pc' = "close"
                /\ diags' = diags \union warned \union {Diag("Fatal", "RunHydraulics")}
                /\ failed' = TRUE
                /\ UNCHANGED <<results, covered>>
    BY <1>7 DEF NextH
  <2>2. pc = "next" /\ pc' \in {"advanced", "close"}
        /\ UNCHANGED <<requested, cancelled, steady, session, code, previous_time,
                       current_time, available, stored, missed, ended>>
    BY <1>7, <2>1 DEF NextH
  <2>3. diags' \subseteq Severe
    BY <2>1, <1>a, <1>c
  <2>4. covered' \in Nat
    <3>1. s \in Int /\ covered \in Nat
      BY <2>1, <1>b DEF TypeOK, Unset
    <3>2. Interval(s) \in Nat
      BY <3>1 DEF Interval
    <3>3. QED
      BY <2>1, <3>1, <3>2
  <2>5. /\ results' \in Seq(Entry)
        /\ DOMAIN results' = DOMAIN results
        /\ results' = <<>> => results = <<>>
        /\ \A i \in DOMAIN results : results'[i].time = results[i].time
    <3>1. CASE UNCHANGED results
      BY <3>1, <1>b DEF TypeOK, Entry
    <3>2. CASE results' # results
      <4>1. s \in 0 .. MaxStep /\ available
            /\ results' = [results EXCEPT ![Len(results)].event_next = s]
        BY <2>1, <3>2 DEF Unset
      <4>2. results # <<>>
        BY <4>1, <2>2, <1>b DEF ReadHasResult
      <4>3. /\ results' \in Seq(Entry)
            /\ DOMAIN results' = DOMAIN results
            /\ \A i \in DOMAIN results : results'[i].time = results[i].time
        BY <4>1, <4>2, CompleteLast
      <4>4. results' # <<>>
        <5>1. results \in Seq(Entry)
          BY <1>b DEF TypeOK, Entry
        <5>2. 1 \in DOMAIN results
          BY <5>1, <4>2
        <5>3. QED
          BY <5>2, <4>3
      <4>5. QED
        BY <4>3, <4>4
    <3>3. QED
      BY <3>1, <3>2
  <2>6. TypeOK'
    <3>1. pc' \in Places /\ next_step' \in Unset .. MaxStep /\ failed' \in BOOLEAN
      BY <2>1, <2>2, <1>b DEF Places, PollPoints, TypeOK
    <3>2. QED
      BY <1>b, <2>2, <2>3, <2>4, <2>5, <3>1 DEF TypeOK, Severe, Entry
  <2>7. SessionPlaces' /\ SessionBalanced'
    BY <1>b, <2>2 DEF SessionPlaces, SessionBalanced
  <2>8. ResultsBounded' /\ ReadHasResult' /\ TimesIncrease'
    BY <1>b, <2>2, <2>5 DEF ResultsBounded, ReadHasResult, TimesIncrease
  <2>9. QED
    BY <2>6, <2>7, <2>8 DEF IInv
<1>8. CASE UNCHANGED vars
  BY <1>8, <1>b DEF vars, IInv, TypeOK, SessionPlaces, SessionBalanced, ResultsBounded,
                    ReadHasResult, TimesIncrease
<1>9. QED
  BY <1>1, <1>2, <1>3, <1>4, <1>5, <1>6, <1>7, <1>8 DEF Next, Solve

LEMMA Inductive == Spec => []IInv
BY InvInit, InvStep, PTL DEF Spec

-----------------------------------------------------------------------------
(* Every state of the solver is well typed.                                *)
THEOREM TypeCorrect == Spec => []TypeOK
<1>1. IInv => TypeOK
  BY DEF IInv
<1>2. QED
  BY <1>1, Inductive, PTL

(* Whatever the toolkit answers and whenever cancellation is requested,    *)
(* the toolkit is stepped only in an initialised session and every session *)
(* is closed before run() returns.                                         *)
THEOREM SessionsAreBalanced == Spec => []SessionBalanced
<1>1. IInv => SessionBalanced
  BY DEF IInv
<1>2. QED
  BY <1>1, Inductive, PTL

(* The times of the timeline's results strictly increase, for any times    *)
(* EN_runH reports.                                                        *)
THEOREM TimesAreIncreasing == Spec => []TimesIncrease
<1>1. IInv => TimesIncrease
  BY DEF IInv
<1>2. QED
  BY <1>1, Inductive, PTL

-----------------------------------------------------------------------------
(* What run() returns: why the solver failed, and why it left the loop.    *)

Fresh == pc \in {"entry", "report"} => diags = {} /\ ~failed /\ results = <<>>

CancelledAtPoll == cancelled => requested /\ pc \in {"close", "returned"}

(* The failure that is reported by the status alone.                       *)
Unconfigured == failed /\ ~HasError(diags)

FailuresDiagnosed ==
    /\ HasError(diags) => failed
    /\ Unconfigured => pc = "returned" /\ diags = {} /\ results = <<>> /\ ~cancelled

(* An error of the simulation itself, which no close comes after.          *)
Invalid == \E d \in diags : d.severity \in {"Error", "Fatal"} /\ d.stage = "RunHydraulics"

LostSteps == missed => Invalid

EndHasResult ==
    /\ pc \in {"sampled", "next", "advanced", "again"} => missed \/ results # <<>>
    /\ ended => missed \/ results # <<>>

WhyLeft == pc \in {"close", "returned"} => cancelled \/ ended \/ Invalid \/ Unconfigured

CInv == /\ Fresh
        /\ CancelledAtPoll
        /\ FailuresDiagnosed
        /\ LostSteps
        /\ EndHasResult
        /\ WhyLeft

LEMMA DiagFields ==
  ASSUME NEW sev, NEW st
  PROVE  Diag(sev, st).severity = sev /\ Diag(sev, st).stage = st
BY DEF Diag

(* A step that adds warnings, or that adds an error and fails.             *)
LEMMA WarningsKeep ==
  ASSUME NEW new, diags' = diags \union new, \A d \in new : d.severity = "Warning"
  PROVE  (HasError(diags)' <=> HasError(diags)) /\ (Invalid' <=> Invalid)
BY DEF HasError, Invalid

LEMMA ErrorsInvalidate ==
  ASSUME NEW new, diags' = diags \union new,
         NEW sev \in {"Error", "Fatal"}, Diag(sev, "RunHydraulics") \in new
  PROVE  HasError(diags)' /\ Invalid'
BY DiagFields DEF HasError, Invalid

LEMMA CollectKeeps ==
  ASSUME NEW sev \in {"Warning", "Error", "Fatal"}, NEW st, Collect(sev, st)
  PROVE  /\ HasError(diags)' <=> HasError(diags) \/ sev # "Warning"
         /\ failed' <=> failed \/ sev # "Warning"
         /\ Invalid => Invalid'
         /\ sev # "Warning" /\ st = "RunHydraulics" => Invalid'
<1> DEFINE d == Diag(sev, st)
<1>1. d.severity = sev /\ d.stage = st
  BY DiagFields
<1> HIDE DEF d
<1>2. diags' = diags \union {d} /\ failed' = (failed \/ sev # "Warning")
  BY DEF Collect, d
<1>3. QED
  BY <1>1, <1>2 DEF HasError, Invalid

(* A call of the toolkit outside the loop: it diagnoses and moves on.      *)
LEMMA CallKeeps ==
  ASSUME TypeOK, CInv, pc # "returned",
         UNCHANGED <<requested, cancelled, ended, results, missed>>,
         pc' \in {"ready", "init", "begun", "close", "returned"},
         pc = "close" => pc' = "returned",
         \/ Quiet
         \/ \E sev \in {"Warning", "Error", "Fatal"},
              st \in {"RunHydraulics", "CloseHydraulics"} : Collect(sev, st),
         pc' \in {"close", "returned"} => pc = "close" \/ Collect("Fatal", "RunHydraulics")
  PROVE  CInv'
<1>1. CancelledAtPoll /\ FailuresDiagnosed /\ LostSteps /\ EndHasResult /\ WhyLeft
      /\ (failed <=> HasError(diags)) /\ ~Unconfigured
  BY DEF CInv, FailuresDiagnosed, Unconfigured, TypeOK
<1>2. (failed' <=> HasError(diags)') /\ (Invalid => Invalid')
  <2>1. CASE Quiet
    BY <1>1, <2>1 DEF Quiet, HasError, Invalid
  <2>2. ASSUME NEW sev \in {"Warning", "Error", "Fatal"},
               NEW st \in {"RunHydraulics", "CloseHydraulics"}, Collect(sev, st)
        PROVE  (failed' <=> HasError(diags)') /\ (Invalid => Invalid')
    BY <1>1, <2>2, CollectKeeps
  <2>3. QED
    BY <2>1, <2>2
<1>3. Fresh' /\ CancelledAtPoll' /\ LostSteps' /\ EndHasResult'
  BY <1>1, <1>2 DEF Fresh, CancelledAtPoll, LostSteps, EndHasResult
<1>4. FailuresDiagnosed' /\ ~Unconfigured'
  BY <1>2 DEF FailuresDiagnosed, Unconfigured
<1>5. WhyLeft'
  <2>1. CASE pc = "close"
    BY <1>1, <1>2, <2>1 DEF WhyLeft
  <2>2. CASE Collect("Fatal", "RunHydraulics")
    BY <2>2, CollectKeeps DEF WhyLeft
  <2>3. QED
    BY <2>1, <2>2 DEF WhyLeft
<1>6. QED
  BY <1>3, <1>4, <1>5 DEF CInv

LEMMA ContractInit == Init => CInv
BY DEF Init, CInv, Fresh, CancelledAtPoll, FailuresDiagnosed, Unconfigured, HasError, Invalid,
       LostSteps, EndHasResult, WhyLeft

LEMMA ContractStep == IInv /\ CInv /\ [Next]_vars => CInv'
<1> SUFFICES ASSUME IInv, CInv, [Next]_vars PROVE CInv'
  OBVIOUS
<1>a. Fresh /\ CancelledAtPoll /\ FailuresDiagnosed /\ LostSteps /\ EndHasResult /\ WhyLeft
  BY DEF CInv
<1>b. TypeOK
  BY DEF IInv
<1>c. pc # "returned" => (failed <=> HasError(diags)) /\ ~Unconfigured
  BY <1>a, <1>b DEF FailuresDiagnosed, Unconfigured, TypeOK
<1>1. CASE RequestCancel
  <2>1. UNCHANGED <<pc, cancelled, ended, failed, diags, results, missed>> /\ requested'
    BY <1>1 DEF RequestCancel, loopVars
  <2>2. (Invalid' <=> Invalid) /\ (HasError(diags)' <=> HasError(diags))
        /\ (Unconfigured' <=> Unconfigured)
    BY <2>1 DEF Invalid, Unconfigured, HasError
  <2>3. QED
    BY <1>a, <2>1, <2>2 DEF CInv, Fresh, CancelledAtPoll, FailuresDiagnosed, LostSteps,
                            EndHasResult, WhyLeft
<1>2. CASE Poll
  <2>1. UNCHANGED <<requested, ended, failed, diags, results, missed>>
        /\ pc \in DOMAIN PollPoints /\ cancelled' = requested
        /\ pc' = IF requested THEN PollPoints[pc].exit ELSE PollPoints[pc].next
    BY <1>2 DEF Poll, loopVars
  <2>2. (Invalid' <=> Invalid) /\ (HasError(diags)' <=> HasError(diags))
        /\ (Unconfigured' <=> Unconfigured)
    BY <2>1 DEF Invalid, Unconfigured, HasError
  <2>3. pc \notin {"close", "returned"} /\ requested \in BOOLEAN
    BY <1>b, <2>1 DEF PollPoints, TypeOK
  <2>4. Fresh' /\ EndHasResult'
    BY <1>a, <2>1 DEF PollPoints, Fresh, EndHasResult
  <2>5. CancelledAtPoll' /\ WhyLeft'
    BY <2>1, <2>3 DEF PollPoints, CancelledAtPoll, WhyLeft
  <2>6. FailuresDiagnosed' /\ LostSteps'
    BY <1>a, <1>c, <2>1, <2>2, <2>3 DEF FailuresDiagnosed, LostSteps
  <2>7. QED
    BY <2>4, <2>5, <2>6 DEF CInv
<1>3. CASE OpenH \/ InitH \/ CloseH
  <2>1. /\ pc \in {"open", "init", "close"}
        /\ UNCHANGED <<requested, cancelled, ended, results, missed>>
        /\ pc' \in {"init", "begun", "close", "returned"}
        /\ pc = "close" => pc' = "returned"
    BY <1>3 DEF OpenH, InitH, CloseH, loopVars
  <2>2. \/ Quiet
        \/ \E sev \in {"Warning", "Error", "Fatal"},
             st \in {"RunHydraulics", "CloseHydraulics"} : Collect(sev, st)
    BY <1>3 DEF OpenH, InitH, CloseH
  <2>3. pc' \in {"close", "returned"} => pc = "close" \/ Collect("Fatal", "RunHydraulics")
    BY <1>3 DEF OpenH, InitH, CloseH
  <2>4. QED
    BY <1>b, <2>1, <2>2, <2>3, CallKeeps
<1>4. CASE ConfigureReport
  <2>1. pc = "report" /\ UNCHANGED <<requested, cancelled, ended, results, missed>>
    BY <1>4 DEF ConfigureReport, loopVars
  <2>2. diags = {} /\ results = <<>> /\ ~cancelled
    BY <1>a, <2>1 DEF Fresh, CancelledAtPoll
  <2>3. CASE pc' = "ready" /\ (Quiet \/ Collect("Warning", "RunHydraulics"))
    BY <1>b, <2>1, <2>3, CallKeeps
  <2>4. CASE pc' = "returned" /\ failed' = TRUE /\ UNCHANGED diags
    <3>1. ~HasError(diags)' /\ (Invalid' <=> Invalid)
      BY <2>2, <2>4 DEF HasError, Invalid
    <3>2. Unconfigured'
      BY <2>4, <3>1 DEF Unconfigured
    <3>3. QED
      BY <1>a, <2>1, <2>2, <2>4, <3>1, <3>2
         DEF CInv, Fresh, CancelledAtPoll, FailuresDiagnosed, LostSteps, EndHasResult, WhyLeft
  <2>5. QED
    BY <1>4, <2>3, <2>4 DEF ConfigureReport
<1>5. CASE RunH \/ Again
  <2>1. /\ UNCHANGED <<requested, cancelled, failed, diags, results, missed>>
        /\ pc \in {"run", "again"} /\ pc' \in {"ran", "close", "top"}
        /\ ended' # ended => pc = "again"
        /\ pc' = "close" => ended'
    BY <1>5 DEF RunH, Again, loopVars
  <2>2. (Invalid' <=> Invalid) /\ (HasError(diags)' <=> HasError(diags))
        /\ (Unconfigured' <=> Unconfigured)
    BY <2>1 DEF Invalid, Unconfigured, HasError
  <2>3. QED
    BY <1>a, <1>c, <2>1, <2>2 DEF CInv, Fresh, CancelledAtPoll, FailuresDiagnosed, LostSteps,
                                  EndHasResult, WhyLeft
<1>6. CASE Break \/ NoResult
  <2>1. /\ UNCHANGED <<requested, cancelled, results, ended>>
        /\ pc = "judge" /\ pc' \in {"close", "sampled"} /\ failed' = TRUE /\ missed' = TRUE
    BY <1>6 DEF Break, NoResult
  <2>2. PICK new : \E sev \in {"Error", "Fatal"} :
          diags' = diags \union new /\ Diag(sev, "RunHydraulics") \in new
    <3>1. CASE Break /\ canAdvance
      BY <3>1 DEF Break
    <3>2. CASE Break /\ ~canAdvance
      BY <3>2 DEF Break, CodeDiags, canAdvance
    <3>3. CASE NoResult
      BY <3>3 DEF NoResult
    <3>4. QED
      BY <1>6, <3>1, <3>2, <3>3
  <2>3. HasError(diags)' /\ Invalid' /\ ~Unconfigured'
    BY <2>2, ErrorsInvalidate DEF Unconfigured
  <2>4. QED
    BY <1>a, <2>1, <2>3 DEF CInv, Fresh, CancelledAtPoll, FailuresDiagnosed, LostSteps,
                            EndHasResult, WhyLeft
<1>7. CASE ReadResult
  <2>1. /\ UNCHANGED <<requested, cancelled, failed, missed, ended>>
        /\ pc = "judge" /\ pc' = "sampled" /\ diags' = diags \union CodeDiags
    BY <1>7 DEF ReadResult
  <2>2. results' # <<>>
    <3>1. results \in Seq(Entry)
      BY <1>b, ResultsAreEntries
    <3>2. QED
      BY <1>7, <3>1 DEF ReadResult
  <2>3. \A d \in CodeDiags : d.severity = "Warning"
    BY <1>7, DiagFields DEF ReadResult, CodeDiags
  <2>4. (HasError(diags)' <=> HasError(diags)) /\ (Invalid' <=> Invalid)
    BY <2>1, <2>3, WarningsKeep
  <2>5. QED
    BY <1>a, <1>c, <2>1, <2>2, <2>4
       DEF CInv, Fresh, CancelledAtPoll, FailuresDiagnosed, LostSteps, EndHasResult, WhyLeft,
           Unconfigured
<1>8. CASE NextH
  <2>1. PICK s \in Unset .. MaxStep, warned \in SUBSET {Diag("Warning", "RunHydraulics")} :
          \/ /\ s >= 0
             /\ pc' = "advanced"
             /\ results' = IF available
                           THEN [results EXCEPT ![Len(results)].event_next = s]
                           ELSE results
             /\ diags' = diags \union warned
             /\ UNCHANGED failed
          \/ /\ pc' = "close"
             /\ diags' = diags \union warned \union {Diag("Fatal", "RunHydraulics")}
             /\ failed' = TRUE
             /\ UNCHANGED results
    BY <1>8 DEF NextH
  <2>2. pc = "next" /\ UNCHANGED <<requested, cancelled, missed, ended>>
    BY <1>8 DEF NextH
  <2>3. results # <<>> => results' # <<>>
    <3>1. CASE UNCHANGED results
      BY <3>1
    <3>2. CASE results # <<>> /\ ~UNCHANGED results
      <4>1. s \in 0 .. MaxStep /\ results' = [results EXCEPT ![Len(results)].event_next = s]
        BY <2>1, <3>2 DEF Unset
      <4>2. DOMAIN results' = DOMAIN results
        BY <3>2, <4>1, CompleteLast
      <4>3. 1 \in DOMAIN results
        BY <1>b, <3>2, ResultsAreEntries
      <4>4. QED
        BY <4>2, <4>3
    <3>3. QED
      BY <3>1, <3>2
  <2>4. CASE pc' = "advanced"
    <3>1. \A d \in warned : d.severity = "Warning"
      BY DiagFields
    <3>2. (HasError(diags)' <=> HasError(diags)) /\ (Invalid' <=> Invalid)
      BY <2>1, <2>4, <3>1, WarningsKeep
    <3>3. UNCHANGED failed
      BY <2>1, <2>4
    <3>4. QED
      BY <1>a, <1>c, <2>2, <2>3, <2>4, <3>2, <3>3
         DEF CInv, Fresh, CancelledAtPoll, FailuresDiagnosed, LostSteps, EndHasResult, WhyLeft,
             Unconfigured
  <2>5. CASE pc' = "close"
    <3>1. failed' /\ diags' = diags \union (warned \union {Diag("Fatal", "RunHydraulics")})
      BY <2>1, <2>5
    <3>2. HasError(diags)' /\ Invalid' /\ ~Unconfigured'
      BY <3>1, ErrorsInvalidate DEF Unconfigured
    <3>3. QED
      BY <1>a, <2>2, <2>3, <2>5, <3>1, <3>2
         DEF CInv, Fresh, CancelledAtPoll, FailuresDiagnosed, LostSteps, EndHasResult, WhyLeft
  <2>6. QED
    BY <2>1, <2>4, <2>5
<1>9. CASE UNCHANGED vars
  BY <1>9, <1>a DEF vars, CInv, Fresh, CancelledAtPoll, FailuresDiagnosed, LostSteps,
                    EndHasResult, WhyLeft, Unconfigured, HasError, Invalid
<1>10. QED
  BY <1>1, <1>2, <1>3, <1>4, <1>5, <1>6, <1>7, <1>8, <1>9 DEF Next, Solve

(* What run() returns is what the executor relies on, whatever the toolkit *)
(* answers: success means every step of a simulation that reached its end, *)
(* a failure is diagnosed or is that of the report configuration, and a    *)
(* cancellation was requested and is no failure.                           *)
THEOREM ReturnsAreWithinContract == Spec => []ReturnsWithinContract
<1>1. IInv /\ CInv => ReturnsWithinContract
  <2> SUFFICES ASSUME IInv, CInv, pc = "returned" PROVE SolverContract(Outcome, requested)
    BY DEF ReturnsWithinContract
  <2>1. /\ CancelledAtPoll /\ FailuresDiagnosed /\ LostSteps /\ EndHasResult /\ WhyLeft
        /\ cancelled \in BOOLEAN /\ failed \in BOOLEAN /\ missed \in BOOLEAN
        /\ ended \in BOOLEAN
    BY DEF IInv, CInv, TypeOK
  <2>2. Outcome.unconfigured <=> Unconfigured
    <3>1. Unconfigured => Outcome.unconfigured
      BY <2>1 DEF FailuresDiagnosed, Unconfigured, Outcome
    <3>2. diags \subseteq {Diag("Warning", "RunHydraulics")} => ~HasError(diags)
      BY DiagFields DEF HasError
    <3>3. QED
      BY <3>1, <3>2 DEF Outcome, Unconfigured
  <2>3. /\ Outcome.cancelled = cancelled /\ Outcome.success = (cancelled \/ ~failed)
        /\ Outcome.nonempty = (results # <<>>) /\ Outcome.complete = (ended /\ ~missed)
        /\ Outcome.diags = diags
    BY DEF Outcome
  <2>4. Invalid => HasError(diags) /\ \E d \in diags : Invalidates(d)
    BY DEF HasError, Invalid, Invalidates
  <2>5. QED
    BY <2>1, <2>2, <2>3, <2>4
       DEF SolverContract, CancelledAtPoll, FailuresDiagnosed, Unconfigured, LostSteps,
           EndHasResult, WhyLeft
<1>2. QED
  BY <1>1, Inductive, ContractInit, ContractStep, PTL DEF Spec

-----------------------------------------------------------------------------
(* What is true of 0 and passes from n to n + 1 is true of every n.        *)
LEMMA SetInduction ==
  ASSUME NEW T, 0 \in T, \A n \in Nat : n \in T => n + 1 \in T
  PROVE  \A n \in Nat : n \in T
<1> DEFINE R == OpToRel(<, Nat)
           B == {n \in Nat : n \notin T}
<1>1. IsWellFoundedOn(R, Nat)
  BY NatLessThanWellFounded
<1>2. \A x, y \in Nat : <<x, y>> \in R <=> x < y
  BY DEF OpToRel
<1> HIDE DEF R
<1>3. SUFFICES ASSUME B # {} PROVE FALSE
  OBVIOUS
<1>4. B \subseteq Nat
  OBVIOUS
<1> HIDE DEF B
<1>5. PICK x \in B : \A y \in B : ~ (<<y, x>> \in R)
  BY <1>1, <1>3, <1>4, WFMin
<1>6. x \in Nat /\ x \notin T /\ x # 0
  BY <1>5 DEF B
<1>7. x - 1 \in Nat /\ x - 1 < x
  BY <1>6
<1>8. x - 1 \in T
  BY <1>2, <1>5, <1>6, <1>7 DEF B
<1>9. QED
  BY <1>6, <1>7, <1>8

-----------------------------------------------------------------------------
(* The seconds of a timeline, one result more at a time. *)

IsTotal(f, rs, n, single) ==
    f = [i \in 0 .. n |-> IF i = 0 THEN 0 ELSE f[i - 1] + Seconds(rs[i], single)]

LEMMA TotalExists ==
  ASSUME NEW rs, NEW single
  PROVE  \A n \in Nat : \E f : IsTotal(f, rs, n, single)
<1> DEFINE T == {n \in Nat : \E f : IsTotal(f, rs, n, single)}
<1>1. 0 \in T
  <2>1. IsTotal([i \in 0 .. 0 |-> 0], rs, 0, single)
    BY DEF IsTotal
  <2>2. QED
    BY <2>1
<1>2. \A n \in Nat : n \in T => n + 1 \in T
  <2> SUFFICES ASSUME NEW n \in Nat, NEW f, IsTotal(f, rs, n, single)
               PROVE  \E g : IsTotal(g, rs, n + 1, single)
    OBVIOUS
  <2> DEFINE g == [i \in 0 .. n + 1 |->
                     IF i = n + 1 THEN f[i - 1] + Seconds(rs[i], single) ELSE f[i]]
  <2>1. \A i \in 0 .. n : f[i] = IF i = 0 THEN 0 ELSE f[i - 1] + Seconds(rs[i], single)
    BY DEF IsTotal
  <2>2. \A i \in 0 .. n + 1 : g[i] = IF i = 0 THEN 0 ELSE g[i - 1] + Seconds(rs[i], single)
    BY <2>1
  <2>3. IsTotal(g, rs, n + 1, single)
    BY <2>2 DEF IsTotal
  <2>4. QED
    BY <2>3
<1> HIDE DEF T
<1>3. \A n \in Nat : n \in T
  BY <1>1, <1>2, SetInduction
<1>4. QED
  BY <1>3 DEF T

LEMMA TotalIsSum ==
  ASSUME NEW rs, NEW single, NEW n \in Nat
  PROVE  \E f : IsTotal(f, rs, n, single) /\ SecondsUpTo(rs, n, single) = f[n]
<1> DEFINE f == CHOOSE g : IsTotal(g, rs, n, single)
<1>1. IsTotal(f, rs, n, single)
  BY TotalExists
<1>2. SecondsUpTo(rs, n, single) = f[n]
  BY DEF SecondsUpTo, IsTotal
<1>3. QED
  BY <1>1, <1>2

(* Two totals agree where both are defined, when the results do.           *)
LEMMA TotalsAgree ==
  ASSUME NEW rs, NEW qs, NEW single, NEW m \in Nat, NEW n \in Nat, NEW f, NEW g,
         IsTotal(f, rs, m, single), IsTotal(g, qs, n, single), NEW k \in Nat,
         k <= m, k <= n, \A i \in 1 .. k : rs[i] = qs[i]
  PROVE  f[k] = g[k]
<1>1. /\ \A i \in 0 .. m : f[i] = IF i = 0 THEN 0 ELSE f[i - 1] + Seconds(rs[i], single)
      /\ \A i \in 0 .. n : g[i] = IF i = 0 THEN 0 ELSE g[i - 1] + Seconds(qs[i], single)
  BY DEF IsTotal
<1> DEFINE T == {i \in Nat : i <= k => f[i] = g[i]}
<1>2. 0 \in T
  BY <1>1
<1>3. \A i \in Nat : i \in T => i + 1 \in T
  <2> SUFFICES ASSUME NEW i \in Nat, i \in T, i + 1 <= k PROVE f[i + 1] = g[i + 1]
    OBVIOUS
  <2>1. f[i] = g[i] /\ rs[i + 1] = qs[i + 1] /\ i + 1 \in 0 .. m /\ i + 1 \in 0 .. n
    OBVIOUS
  <2>2. f[i + 1] = f[i] + Seconds(rs[i + 1], single)
        /\ g[i + 1] = g[i] + Seconds(qs[i + 1], single)
    BY <1>1, <2>1
  <2>3. QED
    BY <2>1, <2>2
<1> HIDE DEF T
<1>4. k \in T
  BY <1>2, <1>3, SetInduction
<1>5. QED
  BY <1>4 DEF T

LEMMA SumUnfolds ==
  ASSUME NEW rs, NEW single, NEW n \in Nat
  PROVE  /\ SecondsUpTo(rs, 0, single) = 0
         /\ SecondsUpTo(rs, n + 1, single)
              = SecondsUpTo(rs, n, single) + Seconds(rs[n + 1], single)
<1>1. PICK z : IsTotal(z, rs, 0, single) /\ SecondsUpTo(rs, 0, single) = z[0]
  BY TotalIsSum
<1>2. PICK f : IsTotal(f, rs, n, single) /\ SecondsUpTo(rs, n, single) = f[n]
  BY TotalIsSum
<1>3. PICK g : IsTotal(g, rs, n + 1, single) /\ SecondsUpTo(rs, n + 1, single) = g[n + 1]
  <2>1. n + 1 \in Nat
    OBVIOUS
  <2>2. QED
    BY <2>1, TotalIsSum
<1>4. f[n] = g[n]
  <2>1. n + 1 \in Nat /\ n <= n /\ n <= n + 1 /\ \A i \in 1 .. n : rs[i] = rs[i]
    OBVIOUS
  <2>2. QED
    BY <1>2, <1>3, <2>1, TotalsAgree
<1>5. z[0] = 0
  BY <1>1 DEF IsTotal
<1>6. g[n + 1] = g[n] + Seconds(rs[n + 1], single)
  BY <1>3 DEF IsTotal
<1>7. QED
  BY <1>1, <1>2, <1>3, <1>4, <1>5, <1>6

LEMMA SumsAgree ==
  ASSUME NEW rs, NEW qs, NEW single, NEW n \in Nat, \A i \in 1 .. n : rs[i] = qs[i]
  PROVE  SecondsUpTo(rs, n, single) = SecondsUpTo(qs, n, single)
<1>1. PICK f : IsTotal(f, rs, n, single) /\ SecondsUpTo(rs, n, single) = f[n]
  BY TotalIsSum
<1>2. PICK g : IsTotal(g, qs, n, single) /\ SecondsUpTo(qs, n, single) = g[n]
  BY TotalIsSum
<1>3. f[n] = g[n]
  <2>1. n <= n
    OBVIOUS
  <2>2. QED
    BY <1>1, <1>2, <2>1, TotalsAgree
<1>4. QED
  BY <1>1, <1>2, <1>3

LEMMA SumIsNat ==
  ASSUME NEW rs \in Seq(Entry), NEW single
  PROVE  \A n \in 0 .. Len(rs) : SecondsUpTo(rs, n, single) \in Nat
<1> DEFINE T == {n \in Nat : n <= Len(rs) => SecondsUpTo(rs, n, single) \in Nat}
<1>1. 0 \in T
  BY SumUnfolds
<1>2. \A n \in Nat : n \in T => n + 1 \in T
  <2> SUFFICES ASSUME NEW n \in Nat, n \in T, n + 1 <= Len(rs)
               PROVE  SecondsUpTo(rs, n + 1, single) \in Nat
    OBVIOUS
  <2>1. SecondsUpTo(rs, n, single) \in Nat /\ rs[n + 1] \in Entry
    OBVIOUS
  <2>2. rs[n + 1].event_next \in Int
    BY <2>1, BoundsAssumption DEF Entry, Unset
  <2>3. Seconds(rs[n + 1], single) \in Nat
    BY <2>2 DEF Seconds
  <2>4. SecondsUpTo(rs, n + 1, single)
          = SecondsUpTo(rs, n, single) + Seconds(rs[n + 1], single)
    BY SumUnfolds
  <2>5. QED
    BY <2>1, <2>3, <2>4
<1> HIDE DEF T
<1>3. \A n \in Nat : n \in T
  BY <1>1, <1>2, SetInduction
<1>4. QED
  BY <1>3 DEF T

LEMMA SumOfAppended ==
  ASSUME NEW rs \in Seq(Entry), NEW single, NEW e \in Entry, e.event_next = Unset
  PROVE  SecondsUpTo(Append(rs, e), Len(Append(rs, e)), single)
           = SecondsUpTo(rs, Len(rs), single)
<1> DEFINE n == Len(rs)
           qs == Append(rs, e)
<1>1. n \in Nat /\ Len(qs) = n + 1 /\ qs[n + 1] = e /\ \A i \in 1 .. n : rs[i] = qs[i]
  OBVIOUS
<1>2. Seconds(e, single) = 0
  BY DEF Seconds, Unset
<1> HIDE DEF qs, n
<1>3. SecondsUpTo(rs, n, single) = SecondsUpTo(qs, n, single)
  BY <1>1, SumsAgree
<1>4. SecondsUpTo(qs, n + 1, single) = SecondsUpTo(qs, n, single) + Seconds(e, single)
  BY <1>1, SumUnfolds
<1>5. QED
  <2>1. SecondsUpTo(rs, n, single) \in Nat
    BY SumIsNat DEF n
  <2>2. QED
    BY <1>1, <1>2, <1>3, <1>4, <2>1 DEF qs, n

LEMMA SumOfCompleted ==
  ASSUME NEW rs \in Seq(Entry), rs # <<>>, rs[Len(rs)].event_next = Unset, NEW single,
         NEW s \in Nat
  PROVE  LET qs == [rs EXCEPT ![Len(rs)].event_next = s]
         IN  SecondsUpTo(qs, Len(qs), single)
               = SecondsUpTo(rs, Len(rs), single)
                   + (IF s > 0 THEN s ELSE IF single THEN 1 ELSE 0)
<1> DEFINE n == Len(rs)
           e == [rs[n] EXCEPT !.event_next = s]
           qs == [rs EXCEPT ![n].event_next = s]
           m == n - 1
<1>1. m \in Nat /\ n = m + 1 /\ n \in DOMAIN rs /\ rs[n] \in Entry
  OBVIOUS
<1>2. Len(qs) = n /\ qs[n] = e /\ \A i \in 1 .. m : rs[i] = qs[i]
  OBVIOUS
<1>3. e.event_next = s
  BY <1>1 DEF Entry
<1>4. Seconds(e, single) = (IF s > 0 THEN s ELSE IF single THEN 1 ELSE 0)
  BY <1>3 DEF Seconds
<1>5. Seconds(rs[n], single) = 0
  BY DEF Seconds, Unset
<1> HIDE DEF qs, e, m, n
<1>6. SecondsUpTo(rs, m, single) = SecondsUpTo(qs, m, single)
  BY <1>1, <1>2, SumsAgree
<1>7. SecondsUpTo(qs, n, single) = SecondsUpTo(qs, m, single) + Seconds(e, single)
  BY <1>1, <1>2, SumUnfolds
<1>8. SecondsUpTo(rs, n, single) = SecondsUpTo(rs, m, single)
  <2>1. SecondsUpTo(rs, m, single) \in Nat
    BY <1>1, SumIsNat DEF n
  <2>2. SecondsUpTo(rs, n, single) = SecondsUpTo(rs, m, single) + 0
    BY <1>1, <1>5, SumUnfolds
  <2>3. QED
    BY <2>1, <2>2
<1>9. SecondsUpTo(qs, Len(qs), single)
        = SecondsUpTo(rs, n, single) + (IF s > 0 THEN s ELSE IF single THEN 1 ELSE 0)
  BY <1>2, <1>4, <1>6, <1>7, <1>8
<1>10. QED
  BY <1>9 DEF qs, n, e

-----------------------------------------------------------------------------
(* The flow balance covers the timeline at every moment; it is stored once, *)
(* when the session is closed.                                              *)

CoversResults == covered = AccountedSeconds

AwaitsNext ==
    pc \in {"sampled", "next"} /\ available => results[Len(results)].event_next = Unset

EmptyBeforeLoop == pc \in {"entry", "report", "ready", "open", "init"} => results = <<>>

StoredAtEnd ==
    /\ pc # "returned" => stored = Unset
    /\ pc = "returned" =>
        /\ stored # Unset <=> ~cancelled /\ results # <<>>
        /\ stored # Unset => stored = covered

BInv == CoversResults /\ AwaitsNext /\ EmptyBeforeLoop /\ StoredAtEnd

LEMMA BalanceInit == Init => BInv
<1> SUFFICES ASSUME Init PROVE BInv
  OBVIOUS
<1>1. Len(results) = 0 /\ covered = 0
  BY DEF Init
<1>2. SecondsUpTo(results, 0, steady) = 0
  <2>1. 0 \in Nat
    OBVIOUS
  <2>2. QED
    BY <2>1, SumUnfolds
<1>3. CoversResults
  BY <1>1, <1>2 DEF CoversResults, AccountedSeconds
<1>4. QED
  BY <1>3 DEF Init, BInv, AwaitsNext, EmptyBeforeLoop, StoredAtEnd

LEMMA BalanceQuiet ==
  ASSUME BInv, UNCHANGED <<steady, results, covered>>
  PROVE  CoversResults'
BY DEF BInv, CoversResults, AccountedSeconds

LEMMA BalanceStep == IInv /\ BInv /\ [Next]_vars => BInv'
<1> SUFFICES ASSUME IInv, BInv, [Next]_vars PROVE BInv'
  OBVIOUS
<1>a. TypeOK /\ CoversResults /\ AwaitsNext /\ EmptyBeforeLoop /\ StoredAtEnd
      /\ ReadHasResult
  BY DEF IInv, BInv
<1>b. results \in Seq(Entry) /\ covered \in Nat
  BY <1>a DEF TypeOK, Entry
<1>1. CASE RequestCancel
  BY <1>1, <1>a, BalanceQuiet
     DEF RequestCancel, loopVars, BInv, AwaitsNext, EmptyBeforeLoop, StoredAtEnd
<1>2. CASE Poll
  <2>1. /\ pc \in DOMAIN PollPoints
        /\ pc' = IF requested THEN PollPoints[pc].exit ELSE PollPoints[pc].next
        /\ cancelled' = requested /\ UNCHANGED <<steady, stored, loopVars>>
    BY <1>2 DEF Poll
  <2>2. /\ pc' = "returned" => cancelled' /\ results = <<>>
        /\ pc' \in {"entry", "report", "ready", "open", "init"} => results = <<>>
        /\ pc' \in {"sampled", "next"} => pc \in {"sampled", "next"}
        /\ pc # "returned"
    BY <2>1, <1>a DEF PollPoints, EmptyBeforeLoop
  <2>3. CoversResults' /\ AwaitsNext' /\ EmptyBeforeLoop'
    BY <2>1, <2>2, <1>a, BalanceQuiet DEF loopVars, AwaitsNext, EmptyBeforeLoop
  <2>4. StoredAtEnd'
    BY <2>1, <2>2, <1>a DEF loopVars, StoredAtEnd
  <2>5. QED
    BY <2>3, <2>4 DEF BInv
<1>3. CASE ConfigureReport \/ OpenH \/ InitH \/ RunH \/ Again
  <2>1. UNCHANGED <<steady, stored, cancelled, loopVars>> /\ pc # "returned"
        /\ pc' \notin {"sampled", "next"}
        /\ (pc' = "returned" => pc \in {"report", "open"})
        /\ (pc' \in {"entry", "report", "ready", "open", "init"}
              => pc \in {"report", "open"})
    BY <1>3 DEF ConfigureReport, OpenH, InitH, RunH, Again
  <2>2. QED
    BY <2>1, <1>a, BalanceQuiet
       DEF loopVars, BInv, AwaitsNext, EmptyBeforeLoop, StoredAtEnd
<1>4. CASE Break \/ NoResult
  <2>1. UNCHANGED <<steady, stored, cancelled, results, covered>> /\ pc = "judge"
        /\ pc' \in {"close", "sampled"} /\ (pc' = "sampled" => ~available')
    BY <1>4 DEF Break, NoResult
  <2>2. QED
    BY <2>1, <1>a, BalanceQuiet DEF BInv, AwaitsNext, EmptyBeforeLoop, StoredAtEnd
<1>5. CASE ReadResult
  <2> DEFINE e == [time |-> current_time, event_next |-> Unset]
  <2>1. results' = Append(results, e) /\ UNCHANGED <<steady, stored, covered>>
        /\ pc = "judge" /\ pc' = "sampled"
    BY <1>5 DEF ReadResult
  <2>2. e \in Entry
    <3>1. current_time \in 0 .. MaxTime
      BY <1>5, <1>a DEF ReadResult, TimeIsBad, TypeOK, Unset
    <3>2. QED
      BY <3>1, BoundsAssumption DEF Entry, Unset
  <2>3. e.event_next = Unset
    OBVIOUS
  <2> HIDE DEF e
  <2>4. results'[Len(results')] = e
    BY <2>1, <1>b
  <2>5. SecondsUpTo(results', Len(results'), steady)
          = SecondsUpTo(results, Len(results), steady)
    BY <2>1, <2>2, <2>3, <1>b, SumOfAppended
  <2>6. CoversResults'
    BY <2>1, <2>5, <1>a DEF CoversResults, AccountedSeconds
  <2>7. QED
    BY <2>1, <2>3, <2>4, <2>6, <1>a DEF BInv, AwaitsNext, EmptyBeforeLoop, StoredAtEnd
<1>6. CASE NextH
  <2>1. PICK s \in Unset .. MaxStep :
          \/ /\ s >= 0
             /\ pc' = "advanced"
             /\ results' = IF available
                           THEN [results EXCEPT ![Len(results)].event_next = s]
                           ELSE results
             /\ covered' = covered + Interval(s)
          \/ pc' = "close" /\ UNCHANGED <<results, covered>>
    BY <1>6 DEF NextH
  <2>2. pc = "next" /\ UNCHANGED <<steady, cancelled, available, stored>>
    BY <1>6 DEF NextH
  <2>3. CoversResults'
    <3>1. CASE UNCHANGED <<results, covered>>
      BY <2>2, <3>1, BalanceQuiet
    <3>2. CASE s >= 0 /\ ~available /\ results' = results /\ covered' = covered + Interval(s)
      BY <2>2, <3>2, <1>b, BalanceQuiet DEF Interval
    <3>3. CASE s >= 0 /\ available /\ covered' = covered + Interval(s)
               /\ results' = [results EXCEPT ![Len(results)].event_next = s]
      <4>1. s \in Nat
        BY <3>3, BoundsAssumption DEF Unset
      <4>2. results # <<>> /\ results[Len(results)].event_next = Unset
        BY <3>3, <2>2, <1>a DEF ReadHasResult, AwaitsNext
      <4>3. SecondsUpTo(results', Len(results'), steady)
              = SecondsUpTo(results, Len(results), steady)
                  + (IF s > 0 THEN s ELSE IF steady THEN 1 ELSE 0)
        BY <3>3, <4>1, <4>2, <1>b, SumOfCompleted
      <4>4. Interval(s) = (IF s > 0 THEN s ELSE IF steady THEN 1 ELSE 0)
        BY <3>3 DEF Interval
      <4>5. QED
        BY <2>2, <3>3, <4>3, <4>4, <1>a DEF CoversResults, AccountedSeconds
    <3>4. QED
      BY <2>1, <3>1, <3>2, <3>3
  <2>4. pc' \in {"advanced", "close"}
    BY <2>1
  <2>5. QED
    BY <2>2, <2>3, <2>4, <1>a DEF BInv, AwaitsNext, EmptyBeforeLoop, StoredAtEnd
<1>7. CASE CloseH
  <2>1. pc = "close" /\ pc' = "returned" /\ UNCHANGED <<steady, cancelled, loopVars>>
        /\ stored' = IF ~cancelled /\ results # <<>> THEN covered ELSE stored
    BY <1>7 DEF CloseH
  <2>2. stored = Unset /\ covered # Unset
    BY <2>1, <1>a, <1>b DEF StoredAtEnd, Unset
  <2>3. StoredAtEnd'
    BY <2>1, <2>2 DEF loopVars, StoredAtEnd
  <2>4. QED
    BY <2>1, <2>3, <1>a, BalanceQuiet DEF loopVars, BInv, AwaitsNext, EmptyBeforeLoop
<1>8. CASE UNCHANGED vars
  BY <1>8, <1>a, BalanceQuiet DEF vars, BInv, AwaitsNext, EmptyBeforeLoop, StoredAtEnd
<1>9. QED
  BY <1>1, <1>2, <1>3, <1>4, <1>5, <1>6, <1>7, <1>8 DEF Next, Solve

(* The flow balance and the energy usage stored with the last result cover *)
(* exactly the intervals the results report, whatever steps were lost, and *)
(* are stored unless the run was cancelled or has no result.               *)
THEOREM BalanceIsExact == Spec => []BalanceCoversTimeline
<1>1. BInv => BalanceCoversTimeline
  BY DEF BInv, CoversResults, StoredAtEnd, BalanceCoversTimeline
<1>2. QED
  BY <1>1, Inductive, BalanceInit, BalanceStep, PTL DEF Spec

=============================================================================
