------------------------- MODULE QualitySolverProofs -------------------------
(***************************************************************************)
(* The quality solver's safety for any bound on the times the toolkit      *)
(* reports.  The inductive invariant adds where the session is before the  *)
(* loop, that the last time accepted bounds the samples, that a failure    *)
(* and an error among the diagnostics are the same thing, and why the loop *)
(* was left: for a cancellation, at the end, or for a failure that         *)
(* invalidates the results.                                                *)
(***************************************************************************)
EXTENDS QualitySolver, TLAPS

SessionPlaces ==
    /\ pc \in {"entry", "open"} => session = "closed"
    /\ pc = "init" => session = "open"

SamplesBounded ==
    /\ \A i \in DOMAIN times : times[i] <= previous_time
    /\ \A i, k \in DOMAIN times : i < k => times[i] < times[k]

(* A steady-state analysis takes its sample once.                          *)
SteadyOnce ==
    /\ steady => Len(times) <= 1
    /\ steady /\ pc \in {"entry", "open", "init", "top", "run", "ran", "judge"} => Len(times) = 0

CancelledAtPoll == cancelled => requested /\ pc \in {"close", "returned"}

IsError(d) == d.severity \in {"Error", "Fatal"}

FailuresDiagnosed == failed <=> \E d \in diags : IsError(d)

(* An error of the analysis itself, which no close comes after.            *)
Invalid == \E d \in diags : IsError(d) /\ d.stage = "RunQuality"

LostSamples == missed => Invalid

EndHasSample ==
    /\ pc \in {"sampled", "step"} => missed \/ times # <<>>
    /\ ended => missed \/ times # <<>>

WhyLeft == pc \in {"close", "returned"} => cancelled \/ ended \/ Invalid

IInv ==
    /\ TypeOK
    /\ SessionPlaces
    /\ SessionBalanced
    /\ SamplesBounded
    /\ SteadyOnce
    /\ CancelledAtPoll
    /\ FailuresDiagnosed
    /\ LostSamples
    /\ EndHasSample
    /\ WhyLeft

-----------------------------------------------------------------------------
(* What a diagnostic does to the invariant. *)

Severe == [severity : Severities, stage : {"RunQuality", "CloseQuality"}]

LEMMA DiagIsSevere ==
  \A sev \in Severities, st \in {"RunQuality", "CloseQuality"} :
    /\ Diag(sev, st) \in Severe
    /\ Diag(sev, st).severity = sev /\ Diag(sev, st).stage = st
BY DEF Diag, Severe

LEMMA QuietKeeps ==
  ASSUME Quiet
  PROVE  /\ FailuresDiagnosed => FailuresDiagnosed'
         /\ Invalid => Invalid'
         /\ TypeOK => diags' \subseteq Severe /\ failed' \in BOOLEAN
BY DEF Quiet, FailuresDiagnosed, Invalid, TypeOK, Severe

LEMMA CollectKeeps ==
  ASSUME NEW sev \in Severities, NEW st \in {"RunQuality", "CloseQuality"}, Collect(sev, st)
  PROVE  /\ FailuresDiagnosed => FailuresDiagnosed'
         /\ Invalid => Invalid'
         /\ sev # "Warning" /\ st = "RunQuality" => Invalid'
         /\ TypeOK => diags' \subseteq Severe /\ failed' \in BOOLEAN
<1> DEFINE d == Diag(sev, st)
<1>1. d \in Severe /\ d.severity = sev /\ d.stage = st
  BY DiagIsSevere
<1> HIDE DEF d
<1>2. diags' = diags \union {d} /\ failed' = (failed \/ sev # "Warning")
  BY DEF Collect, d
<1>3. IsError(d) <=> sev # "Warning"
  BY <1>1 DEF IsError, Severities
<1>4. FailuresDiagnosed => FailuresDiagnosed'
  BY <1>2, <1>3 DEF FailuresDiagnosed
<1>5. (Invalid => Invalid') /\ (sev # "Warning" /\ st = "RunQuality" => Invalid')
  BY <1>1, <1>2, <1>3 DEF Invalid
<1>6. TypeOK => diags' \subseteq Severe /\ failed' \in BOOLEAN
  BY <1>1, <1>2 DEF TypeOK, Severe
<1>7. QED
  BY <1>4, <1>5, <1>6

LEMMA SamplesAreTimes ==
  ASSUME NEW S, NEW s \in Seq(S)
  PROVE  \A i \in DOMAIN s : s[i] \in S
OBVIOUS

(* The steps that only diagnose and move on.                               *)
LEMMA InvQuiet ==
  ASSUME IInv, UNCHANGED <<times, previous_time, missed, steady>>, TypeOK',
         FailuresDiagnosed', Invalid => Invalid'
  PROVE  SamplesBounded' /\ FailuresDiagnosed' /\ LostSamples'
BY DEF IInv, SamplesBounded, FailuresDiagnosed, LostSamples

-----------------------------------------------------------------------------
(* The invariant is inductive. *)

LEMMA InvInit == Init => IInv
<1> SUFFICES ASSUME Init PROVE IInv
  OBVIOUS
<1>1. TypeOK
  <2>1. 0 \in Unset .. MaxTime /\ Unset \in Unset .. MaxTime
    BY BoundAssumption DEF Unset
  <2>2. "entry" \in Places
    BY DEF Places, PollPoints
  <2>3. times \in Seq(0 .. MaxTime)
    BY DEF Init
  <2>4. diags \subseteq Severe
    BY DEF Init
  <2>5. QED
    BY <2>1, <2>2, <2>3, <2>4 DEF Init, TypeOK, Severe
<1>2. Len(times) = 0 /\ DOMAIN times = {}
  BY DEF Init
<1>3. QED
  BY <1>1, <1>2 DEF Init, IInv, SessionPlaces, SessionBalanced, SamplesBounded, SteadyOnce,
              CancelledAtPoll, FailuresDiagnosed, LostSamples, EndHasSample, WhyLeft

LEMMA InvStep == IInv /\ [Next]_vars => IInv'
<1> SUFFICES ASSUME IInv, [Next]_vars PROVE IInv'
  OBVIOUS
<1>a. /\ TypeOK /\ SessionPlaces /\ SessionBalanced /\ SamplesBounded /\ SteadyOnce
      /\ CancelledAtPoll /\ FailuresDiagnosed /\ LostSamples /\ EndHasSample /\ WhyLeft
  BY DEF IInv
<1>b. {"Warning", "Error", "Fatal"} = Severities
  BY DEF Severities
<1>1. CASE RequestCancel
  <2>1. TypeOK'
    BY <1>1, <1>a DEF RequestCancel, TypeOK
  <2>2. QED
    BY <1>1, <1>a, <2>1
       DEF RequestCancel, IInv, SessionPlaces, SessionBalanced, SamplesBounded, SteadyOnce,
           CancelledAtPoll, FailuresDiagnosed, LostSamples, EndHasSample, WhyLeft, Invalid
<1>2. CASE Poll
  <2>1. /\ pc \in {"entry", "top", "ran", "sampled"}
        /\ pc = "entry"   => pc' \in {"open", "returned"}
        /\ pc = "top"     => pc' \in {"run", "close"}
        /\ pc = "ran"     => pc' \in {"judge", "close"}
        /\ pc = "sampled" => pc' \in {"step", "close"}
        /\ pc' \in {"close", "returned"} <=> requested
        /\ cancelled' = requested
        /\ UNCHANGED <<requested, steady, session, code, previous_time, current_time,
                       times, failed, diags, missed, ended>>
    BY <1>2, <1>a DEF Poll, PollPoints, TypeOK
  <2>2. TypeOK'
    <3>1. pc' \in Places
      BY <2>1 DEF Places, PollPoints
    <3>2. QED
      BY <2>1, <3>1, <1>a DEF TypeOK
  <2>3. SessionPlaces' /\ SessionBalanced'
    BY <2>1, <1>a DEF SessionPlaces, SessionBalanced
  <2>4. SamplesBounded' /\ FailuresDiagnosed' /\ LostSamples'
    BY <2>1, <1>a DEF SamplesBounded, FailuresDiagnosed, LostSamples, Invalid
  <2>5. SteadyOnce' /\ EndHasSample'
    BY <2>1, <1>a DEF SteadyOnce, EndHasSample
  <2>6. CancelledAtPoll' /\ WhyLeft'
    BY <2>1 DEF CancelledAtPoll, WhyLeft
  <2>7. QED
    BY <2>2, <2>3, <2>4, <2>5, <2>6 DEF IInv
<1>3. CASE OpenQ \/ InitQ \/ FinishSteady \/ StepQ \/ CloseQ
  <2>1. /\ UNCHANGED <<requested, cancelled, steady, code, previous_time, current_time,
                       times, missed>>
        /\ pc = "open" => pc' \in {"init", "returned"}
        /\ pc = "init" => pc' \in {"top", "close"}
        /\ pc = "step" => pc' \in {"top", "close"} /\ (pc' = "top" => ~steady)
        /\ pc = "close" => pc' = "returned"
        /\ pc \in {"open", "init", "step", "close"}
        /\ pc' = "init" => session' = "open"
        /\ pc' = "top" /\ pc = "init" => session' = "initialised"
        /\ pc = "step" => session' = session
        /\ pc' = "returned" /\ pc = "open" => session' = session
        /\ pc = "close" => session' = "closed"
        /\ session' \in {session, "open", "initialised", "closed"}
        /\ UNCHANGED ended \/ (pc = "step" /\ ended' = TRUE)
    BY <1>3 DEF OpenQ, InitQ, FinishSteady, StepQ, CloseQ
  <2>2. \/ Quiet
        \/ \E sev \in Severities, st \in {"RunQuality", "CloseQuality"} : Collect(sev, st)
        \/ /\ diags' = diags \union {Diag("Warning", "RunQuality"), Diag("Fatal", "RunQuality")}
           /\ failed' = TRUE
    BY <1>3, <1>b DEF OpenQ, InitQ, FinishSteady, StepQ, CloseQ
  <2>3. /\ FailuresDiagnosed' /\ (Invalid => Invalid')
        /\ diags' \subseteq Severe /\ failed' \in BOOLEAN
    <3>1. CASE Quiet
      BY <3>1, <1>a, QuietKeeps
    <3>2. CASE \E sev \in Severities, st \in {"RunQuality", "CloseQuality"} : Collect(sev, st)
      BY <3>2, <1>a, CollectKeeps
    <3>3. CASE /\ diags' = diags \union {Diag("Warning", "RunQuality"), Diag("Fatal", "RunQuality")}
               /\ failed' = TRUE
      <4>1. /\ Diag("Fatal", "RunQuality") \in Severe /\ Diag("Warning", "RunQuality") \in Severe
            /\ IsError(Diag("Fatal", "RunQuality"))
        BY DiagIsSevere, <1>b DEF IsError
      <4>2. diags \subseteq Severe
        BY <1>a DEF TypeOK, Severe
      <4>3. FailuresDiagnosed'
        BY <3>3, <4>1 DEF FailuresDiagnosed
      <4>4. Invalid => Invalid'
        BY <3>3 DEF Invalid
      <4>5. QED
        BY <3>3, <4>1, <4>2, <4>3, <4>4
    <3>4. QED
      BY <2>2, <3>1, <3>2, <3>3
  <2>4. pc' \in {"close", "returned"} /\ pc # "close" => ended' \/ Invalid'
    <3>1. SUFFICES ASSUME pc' \in {"close", "returned"}, pc # "close", ended' # TRUE
                   PROVE  Invalid'
      BY <1>3, <1>a DEF OpenQ, InitQ, FinishSteady, StepQ, TypeOK
    <3>2. \/ Collect("Fatal", "RunQuality")
          \/ diags' = diags \union {Diag("Warning", "RunQuality"), Diag("Fatal", "RunQuality")}
      BY <1>3, <3>1 DEF OpenQ, InitQ, FinishSteady, StepQ, CloseQ
    <3>3. Diag("Fatal", "RunQuality") \in diags'
      BY <3>2 DEF Collect
    <3>4. QED
      BY <3>3, DiagIsSevere, <1>b DEF Invalid, IsError
  <2>5. TypeOK'
    <3>1. pc' \in Places /\ session' \in {"closed", "open", "initialised"}
      BY <2>1, <1>a DEF Places, PollPoints, TypeOK
    <3>2. ended' \in BOOLEAN
      BY <2>1, <1>a DEF TypeOK
    <3>3. QED
      BY <2>1, <2>3, <3>1, <3>2, <1>a DEF TypeOK, Severe
  <2>6. SessionPlaces' /\ SessionBalanced'
    BY <2>1, <1>a DEF SessionPlaces, SessionBalanced
  <2>7. SteadyOnce' /\ EndHasSample' /\ CancelledAtPoll'
    BY <2>1, <1>a DEF SteadyOnce, EndHasSample, CancelledAtPoll
  <2>8. WhyLeft'
    <3>1. CASE pc = "close"
      BY <2>1, <2>3, <3>1, <1>a DEF WhyLeft
    <3>2. CASE pc # "close"
      BY <2>4, <3>2 DEF WhyLeft
    <3>3. QED
      BY <3>1, <3>2
  <2>9. SamplesBounded' /\ LostSamples'
    BY <2>1, <2>3, <2>5, InvQuiet
  <2>10. QED
    BY <2>3, <2>5, <2>6, <2>7, <2>8, <2>9 DEF IInv
<1>4. CASE RunQ
  <2>1. TypeOK'
    <3>1. pc' \in Places
      BY <1>4 DEF RunQ, Places, PollPoints
    <3>2. QED
      BY <1>4, <3>1, <1>a DEF RunQ, TypeOK
  <2>2. QED
    BY <1>4, <1>a, <2>1
       DEF RunQ, IInv, SessionPlaces, SessionBalanced, SamplesBounded, SteadyOnce,
           CancelledAtPoll, FailuresDiagnosed, LostSamples, EndHasSample, WhyLeft, Invalid
<1>c. /\ CodeDiags \subseteq Severe /\ \A d \in CodeDiags : ~IsError(d)
      /\ \A sev \in {"Error", "Fatal"} :
            /\ Diag(sev, "RunQuality") \in Severe /\ IsError(Diag(sev, "RunQuality"))
            /\ Diag(sev, "RunQuality").stage = "RunQuality"
      /\ diags \subseteq Severe
  <2>1. diags \subseteq Severe
    BY <1>a DEF TypeOK, Severe
  <2>2. CodeDiags \subseteq {Diag("Warning", "RunQuality")}
    BY DEF CodeDiags
  <2>3. Diag("Warning", "RunQuality") \in Severe /\ ~IsError(Diag("Warning", "RunQuality"))
    BY DiagIsSevere, <1>b DEF IsError
  <2>4. ASSUME NEW sev \in {"Error", "Fatal"}
        PROVE  /\ Diag(sev, "RunQuality") \in Severe /\ IsError(Diag(sev, "RunQuality"))
               /\ Diag(sev, "RunQuality").stage = "RunQuality"
    BY DiagIsSevere, <1>b DEF IsError
  <2>5. QED
    BY <2>1, <2>2, <2>3, <2>4
<1>5. CASE Break
  <2>1. /\ pc = "judge" /\ pc' = "close" /\ failed' = TRUE /\ missed' = TRUE
        /\ diags' = diags \union CodeDiags \union {Diag("Fatal", "RunQuality")}
        /\ UNCHANGED <<requested, cancelled, steady, session, code, previous_time,
                       current_time, times, ended>>
    BY <1>5 DEF Break
  <2>2. diags' \subseteq Severe /\ FailuresDiagnosed' /\ Invalid'
    BY <2>1, <1>c DEF FailuresDiagnosed, Invalid
  <2>3. TypeOK'
    <3>1. pc' \in Places
      BY <2>1 DEF Places, PollPoints
    <3>2. QED
      BY <2>1, <2>2, <3>1, <1>a DEF TypeOK, Severe
  <2>4. SessionPlaces' /\ SessionBalanced' /\ CancelledAtPoll'
    BY <2>1, <1>a DEF SessionPlaces, SessionBalanced, CancelledAtPoll
  <2>5. SamplesBounded' /\ SteadyOnce' /\ EndHasSample' /\ LostSamples' /\ WhyLeft'
    BY <2>1, <2>2, <1>a DEF SamplesBounded, SteadyOnce, EndHasSample, LostSamples, WhyLeft
  <2>6. QED
    BY <2>2, <2>3, <2>4, <2>5 DEF IInv
<1>6. CASE Sample
  <2>1. /\ pc = "judge" /\ pc' = "sampled" /\ previous_time' = current_time /\ ~TimeIsBad
        /\ UNCHANGED <<requested, cancelled, steady, session, code, current_time, ended>>
    BY <1>6 DEF Sample
  <2>2. \/ /\ times' = Append(times, current_time)
           /\ diags' = diags \union CodeDiags
           /\ UNCHANGED <<failed, missed>>
        \/ /\ diags' = diags \union CodeDiags \union {Diag("Error", "RunQuality")}
           /\ failed' = TRUE /\ missed' = TRUE
           /\ UNCHANGED times
    BY <1>6 DEF Sample
  <2>3. /\ diags' \subseteq Severe /\ FailuresDiagnosed' /\ LostSamples'
        /\ failed' \in BOOLEAN /\ missed' \in BOOLEAN
    <3>1. CASE diags' = diags \union CodeDiags /\ UNCHANGED <<failed, missed>>
      <4>1. Invalid => Invalid'
        BY <3>1 DEF Invalid
      <4>2. FailuresDiagnosed'
        BY <3>1, <1>a, <1>c DEF FailuresDiagnosed
      <4>3. QED
        BY <3>1, <4>1, <4>2, <1>a, <1>c DEF LostSamples, TypeOK
    <3>2. CASE /\ diags' = diags \union CodeDiags \union {Diag("Error", "RunQuality")}
               /\ failed' = TRUE /\ missed' = TRUE
      BY <3>2, <1>c DEF FailuresDiagnosed, LostSamples, Invalid
    <3>3. QED
      BY <2>2, <3>1, <3>2
  <2>4. /\ current_time \in 0 .. MaxTime /\ previous_time \in Int
        /\ previous_time < 0 \/ previous_time < current_time
    BY <2>1, <1>a, BoundAssumption DEF TypeOK, Unset, TimeIsBad, NotAdvanced
  <2>5. /\ times \in Seq(0 .. MaxTime)
        /\ \A i \in DOMAIN times : times[i] \in 0 .. MaxTime /\ times[i] < current_time
    <3>1. times \in Seq(0 .. MaxTime)
      BY <1>a DEF TypeOK
    <3>2. SUFFICES ASSUME NEW i \in DOMAIN times
                   PROVE  times[i] \in 0 .. MaxTime /\ times[i] < current_time
      BY <3>1
    <3>3. times[i] \in 0 .. MaxTime
      BY <3>1, SamplesAreTimes
    <3>4. times[i] <= previous_time
      BY <1>a DEF SamplesBounded
    <3>5. QED
      BY <3>3, <3>4, <2>4
  <2>6. /\ times' \in Seq(0 .. MaxTime) /\ SamplesBounded'
        /\ Len(times') \in {Len(times), Len(times) + 1}
        /\ missed' \/ times' # <<>>
    <3>1. CASE times' = times /\ missed'
      <4>1. \A i \in DOMAIN times : times[i] <= current_time
        BY <2>4, <2>5
      <4>2. SamplesBounded'
        BY <3>1, <4>1, <2>1, <1>a DEF SamplesBounded
      <4>3. QED
        BY <3>1, <4>2, <2>5
    <3>2. CASE times' = Append(times, current_time)
      <4>1. /\ times' \in Seq(0 .. MaxTime)
            /\ Len(times') = Len(times) + 1 /\ Len(times) \in Nat
            /\ DOMAIN times = 1 .. Len(times) /\ DOMAIN times' = 1 .. Len(times) + 1
            /\ times'[Len(times) + 1] = current_time
            /\ \A i \in DOMAIN times : times'[i] = times[i]
        BY <3>2, <2>4, <2>5
      <4>2. \A i \in DOMAIN times' : times'[i] <= previous_time'
        <5> SUFFICES ASSUME NEW i \in DOMAIN times' PROVE times'[i] <= current_time
          BY <2>1
        <5>1. CASE i = Len(times) + 1
          BY <5>1, <4>1, <2>4
        <5>2. CASE i # Len(times) + 1
          <6>1. i \in DOMAIN times
            BY <5>2, <4>1
          <6>2. QED
            BY <6>1, <4>1, <2>4, <2>5
        <5>3. QED
          BY <5>1, <5>2
      <4>3. \A i, k \in DOMAIN times' : i < k => times'[i] < times'[k]
        <5> SUFFICES ASSUME NEW i \in DOMAIN times', NEW k \in DOMAIN times', i < k
                     PROVE  times'[i] < times'[k]
          OBVIOUS
        <5>1. i \in DOMAIN times
          BY <4>1
        <5>2. CASE k = Len(times) + 1
          BY <5>1, <5>2, <4>1, <2>5
        <5>3. CASE k # Len(times) + 1
          <6>1. k \in DOMAIN times
            BY <5>3, <4>1
          <6>2. QED
            BY <5>1, <6>1, <4>1, <1>a DEF SamplesBounded
        <5>4. QED
          BY <5>2, <5>3
      <4>4. times' # <<>>
        BY <4>1
      <4>5. QED
        BY <4>1, <4>2, <4>3, <4>4 DEF SamplesBounded
    <3>3. QED
      BY <2>2, <3>1, <3>2
  <2>7. TypeOK'
    <3>1. pc' \in Places /\ previous_time' \in Unset .. MaxTime
      BY <2>1, <2>4, BoundAssumption DEF Places, PollPoints, Unset
    <3>2. QED
      BY <2>1, <2>3, <2>6, <3>1, <1>a DEF TypeOK, Severe
  <2>8. SessionPlaces' /\ SessionBalanced' /\ CancelledAtPoll' /\ WhyLeft'
    BY <2>1, <1>a DEF SessionPlaces, SessionBalanced, CancelledAtPoll, WhyLeft
  <2>9. SteadyOnce' /\ EndHasSample'
    <3>1. steady => Len(times) = 0
      BY <2>1, <1>a DEF SteadyOnce
    <3>2. Len(times') = Len(times) \/ Len(times') = Len(times) + 1
      BY <2>6
    <3>3. steady => Len(times') <= 1
      <4>1. SUFFICES ASSUME steady PROVE Len(times') <= 1
        OBVIOUS
      <4>2. Len(times) = 0
        BY <3>1, <4>1
      <4>3. Len(times') = 0 \/ Len(times') = 1
        BY <3>2, <4>2
      <4>4. \A n \in {0, 1} : n <= 1
        OBVIOUS
      <4>5. QED
        BY <4>3, <4>4
    <3>4. QED
      BY <2>1, <2>6, <3>3 DEF SteadyOnce, EndHasSample
  <2>10. QED
    BY <2>3, <2>6, <2>7, <2>8, <2>9 DEF IInv
<1>7. CASE UNCHANGED vars
  BY <1>7, <1>a DEF vars, IInv, TypeOK, SessionPlaces, SessionBalanced, SamplesBounded, SteadyOnce,
       CancelledAtPoll, FailuresDiagnosed, LostSamples, EndHasSample, WhyLeft, Invalid
<1>8. QED
  BY <1>1, <1>2, <1>3, <1>4, <1>5, <1>6, <1>7 DEF Next, Solve

LEMMA Inductive == Spec => []IInv
BY InvInit, InvStep, PTL DEF Spec

-----------------------------------------------------------------------------
(* Every state of the solver is well typed.                                *)
THEOREM TypeCorrect == Spec => []TypeOK
<1>1. IInv => TypeOK
  BY DEF IInv
<1>2. QED
  BY <1>1, Inductive, PTL

(* Whatever the toolkit answers and whenever cancellation is requested, no *)
(* quality session is left open for the next quality child.                *)
THEOREM SessionsAreBalanced == Spec => []SessionBalanced
<1>1. IInv => SessionBalanced
  BY DEF IInv
<1>2. QED
  BY <1>1, Inductive, PTL

(* The samples are in order, and a steady-state analysis has one at most.  *)
THEOREM TimesAreIncreasing == Spec => []TimesIncrease
<1>1. IInv => TimesIncrease
  BY DEF IInv, SamplesBounded, SteadyOnce, TimesIncrease
<1>2. QED
  BY <1>1, Inductive, PTL

(* What run() returns is what the executor relies on, whatever happened.   *)
THEOREM ReturnsAreWithinContract == Spec => []ReturnsWithinContract
<1>1. IInv => ReturnsWithinContract
  <2> SUFFICES ASSUME IInv, pc = "returned" PROVE SolverContract(Outcome, requested)
    BY DEF ReturnsWithinContract
  <2>1. /\ CancelledAtPoll /\ FailuresDiagnosed /\ LostSamples /\ EndHasSample /\ WhyLeft
        /\ cancelled \in BOOLEAN /\ failed \in BOOLEAN /\ missed \in BOOLEAN
        /\ ended \in BOOLEAN
    BY DEF IInv, TypeOK
  <2>2. /\ Outcome.cancelled = cancelled /\ Outcome.success = (cancelled \/ ~failed)
        /\ Outcome.nonempty = (times # <<>>) /\ Outcome.complete = (ended /\ ~missed)
        /\ Outcome.unconfigured = FALSE /\ Outcome.diags = diags
    BY DEF Outcome
  <2>3. failed <=> HasError(diags)
    BY <2>1 DEF FailuresDiagnosed, HasError, IsError
  <2>4. Invalid => failed /\ \E d \in diags : Invalidates(d)
    BY <2>1 DEF FailuresDiagnosed, Invalid, IsError, Invalidates
  <2>5. QED
    BY <2>1, <2>2, <2>3, <2>4
       DEF SolverContract, CancelledAtPoll, LostSamples, EndHasSample, WhyLeft
<1>2. QED
  BY <1>1, Inductive, PTL

=============================================================================
