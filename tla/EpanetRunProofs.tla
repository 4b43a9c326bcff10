-------------------------- MODULE EpanetRunProofs --------------------------
(***************************************************************************)
(* However a run ends, all of it is settled, nothing that was diagnosed is *)
(* lost or strays into another part, Success means what it says, and the   *)
(* run implements RunContract: for any number of quality runs and whatever *)
(* the builders, the solvers and the toolkit answer.                       *)
(*                                                                         *)
(* IInv says, for each stretch of the code, which children are pending and *)
(* which are over, and that nothing is cancelled before a poll noticed the *)
(* request.  RInv adds the types, where the diagnostics of each phase are  *)
(* until they are in the result, and what the parts of the result say of   *)
(* each other.                                                             *)
(***************************************************************************)
EXTENDS EpanetRun, FiniteSetTheorems, TLAPS

Early == {"entry", "validateMsx", "prepare", "prepared", "configureHydraulics",
          "solveHydraulics", "solvingHydraulics", "saveHydraulics", "savedHydraulics",
          "reportHydraulics"}
InChild == {"validateQuality", "configureQuality", "solveQuality", "solvingQuality",
            "reportQuality"}
Late == {"multiSpecies", "runMultiSpecies", "returned"}

Completed == {"Success", "Warning", "Error"}

(* The records have the fields that the properties speak of.               *)
Shape ==
    /\ pc \in Early \union InChild \union Late \union {"nextChild"}
    /\ {"state", "cancelled"} \subseteq DOMAIN result
    /\ "success" \in DOMAIN hydraulics
    /\ \A i \in DOMAIN quality : "state" \in DOMAIN quality[i]
    /\ \E n \in Nat : DOMAIN quality = 1 .. n
    /\ quality = [i \in DOMAIN quality |-> quality[i]]
    /\ noticed \in BOOLEAN
    /\ phase \in Int

(* Where the first child comes next, where the last phase was.             *)
PhaseFits ==
    /\ pc \in Early => phase = IF pc \in {"entry", "validateMsx", "prepare", "prepared"}
                               THEN Preparing ELSE Hydraulics
    /\ pc \in InChild \union {"nextChild"} => phase >= 1
    /\ pc \in InChild => phase \in DOMAIN quality

NoticedIsCancelled == result.cancelled = noticed

(* Nothing is cancelled before the request has been noticed.               *)
NotYetNoticed == pc \notin {"multiSpecies", "returned"} => ~noticed

MsxOpen ==
    /\ pc \notin {"runMultiSpecies", "returned"} => msx \in {"Absent", "Pending"}
    /\ pc = "returned" => /\ msx \in Terminal \union {"Absent"}
                          /\ ~noticed => msx # "Cancelled"

(* The children before the current one are over, those after it pending.   *)
InTurn ==
    /\ pc \in Early => \A i \in DOMAIN quality : quality[i].state = "Pending"
    /\ pc \in InChild \union {"nextChild"} => \A i \in DOMAIN quality :
         /\ i < phase => \/ quality[i].state \in Completed
                         \/ quality[i].state = "Skipped" /\ request.quality[i] = "None"
         /\ i > phase => quality[i].state = "Pending"
         /\ i = phase => quality[i].state = IF pc = "nextChild" THEN "Pending" ELSE "Running"

ChildrenSettled ==
    /\ \A i \in DOMAIN quality : quality[i].state \in Terminal
    /\ ~noticed => \A i \in DOMAIN quality : quality[i].state # "Cancelled"
    /\ \A i, k \in DOMAIN quality :
          i < k /\ quality[i].state = "Cancelled" => quality[k].state = "Cancelled"
    /\ \A i \in DOMAIN quality :
          request.quality[i] = "Active" /\ quality[i].state = "Skipped" => ~hydraulics.success

SettledLate ==
    pc \in Late => /\ ChildrenSettled
                   /\ result.state \in Terminal \ {"Skipped"}
                   /\ result.state = "Cancelled" <=> noticed

IInv ==
    /\ Shape
    /\ PhaseFits
    /\ NoticedIsCancelled
    /\ NotYetNoticed
    /\ MsxOpen
    /\ InTurn
    /\ SettledLate

-----------------------------------------------------------------------------
(* What the helpers of the executor do to the states. *)

LEMMA SettledStates ==
  ASSUME NEW children, NEW state, \A i \in DOMAIN children : "state" \in DOMAIN children[i]
  PROVE  /\ DOMAIN Settled(children, state) = DOMAIN children
         /\ Settled(children, state) =
              [i \in DOMAIN children |-> Settled(children, state)[i]]
         /\ \A i \in DOMAIN children :
              /\ "state" \in DOMAIN Settled(children, state)[i]
              /\ Settled(children, state)[i].state =
                   IF children[i].state = "Pending" THEN state ELSE children[i].state
BY DEF Settled

LEMMA FinalizedState ==
  ASSUME NEW res, NEW hyd, NEW children, {"state", "cancelled"} \subseteq DOMAIN res,
         res.cancelled \in BOOLEAN
  PROVE  /\ {"state", "cancelled"} \subseteq DOMAIN Finalized(res, hyd, children)
         /\ Finalized(res, hyd, children).cancelled = res.cancelled
         /\ res.cancelled => Finalized(res, hyd, children).state = "Cancelled"
         /\ ~res.cancelled => Finalized(res, hyd, children).state \in Completed
BY DEF Finalized, Completed

LEMMA StatesAreTerminal == Completed \union {"Cancelled", "Skipped"} = Terminal
BY DEF Completed, Terminal, RunStates

LEMMA RunInit == Init => IInv
<1> SUFFICES ASSUME Init PROVE IInv
  OBVIOUS
<1>1. PICK n \in Nat : DOMAIN request.quality = 1 .. n
  BY BoundsAssumption DEF Init
<1>2. /\ quality = [i \in DOMAIN quality |-> quality[i]] /\ DOMAIN quality = 1 .. n
      /\ \A i \in DOMAIN quality : "state" \in DOMAIN quality[i] /\ quality[i].state = "Pending"
  BY <1>1 DEF Init
<1>3. /\ {"state", "cancelled"} \subseteq DOMAIN result /\ "success" \in DOMAIN hydraulics
      /\ result.cancelled = FALSE
  BY DEF Init
<1>4. pc = "entry" /\ phase = -1 /\ noticed = FALSE /\ msx = "Absent"
  BY DEF Init, Preparing
<1>5. Shape
  <2>1. \E m \in Nat : DOMAIN quality = 1 .. m
    BY <1>2
  <2>2. noticed \in BOOLEAN /\ phase \in Int
    <3>1. phase \in Int
      BY <1>4
    <3>2. noticed \in BOOLEAN
      BY <1>4
    <3>3. QED
      BY <3>1, <3>2
  <2>3. \A i \in DOMAIN quality : "state" \in DOMAIN quality[i]
    BY <1>2
  <2>4. pc \in Early
    BY <1>4 DEF Early
  <2>5. quality = [i \in DOMAIN quality |-> quality[i]]
    BY <1>2
  <2>6. QED
    BY <1>3, <2>1, <2>2, <2>3, <2>4, <2>5 DEF Shape
<1>6. QED
  BY <1>2, <1>3, <1>4, <1>5
     DEF IInv, PhaseFits, NoticedIsCancelled, NotYetNoticed, MsxOpen, InTurn, SettledLate,
         Early, InChild, Late, Preparing

-----------------------------------------------------------------------------
(* The executor stops: every child has a state that is final.              *)

LEMMA Stops ==
  ASSUME IInv, pc \in Early \union InChild \union {"nextChild"},
         NEW res, NEW hyd, NEW children, StopExecutor(res, hyd, children),
         UNCHANGED <<phase, request, msx>>, noticed' \in BOOLEAN,
         {"state", "cancelled"} \subseteq DOMAIN res, res.cancelled = noticed',
         "success" \in DOMAIN hyd,
         DOMAIN children = DOMAIN quality,
         children = [i \in DOMAIN children |-> children[i]],
         \A i \in DOMAIN children :
           "state" \in DOMAIN children[i] /\ children[i].state \in Terminal,
         ~noticed' => \A i \in DOMAIN children : children[i].state # "Cancelled",
         \A i, k \in DOMAIN children :
           i < k /\ children[i].state = "Cancelled" => children[k].state = "Cancelled",
         \A i \in DOMAIN children :
           request.quality[i] = "Active" /\ children[i].state = "Skipped" => ~hyd.success
  PROVE  IInv'
<1>1. /\ pc' = "multiSpecies" /\ quality' = children
      /\ "success" \in DOMAIN hydraulics' /\ hydraulics'.success = hyd.success
      /\ result' = Finalized(res, hyd, children)
  BY DEF StopExecutor
<1>2. /\ {"state", "cancelled"} \subseteq DOMAIN result' /\ result'.cancelled = noticed'
      /\ result'.state = "Cancelled" <=> noticed'
      /\ result'.state \in Completed \union {"Cancelled"}
  BY <1>1, FinalizedState DEF Completed
<1>3. Shape'
  BY <1>1, <1>2 DEF IInv, Shape, Late
<1>4. msx \in {"Absent", "Pending"}
  BY DEF IInv, MsxOpen, Early, InChild
<1>5. PhaseFits' /\ NoticedIsCancelled' /\ NotYetNoticed' /\ MsxOpen' /\ InTurn'
  BY <1>1, <1>2, <1>4
     DEF PhaseFits, NoticedIsCancelled, NotYetNoticed, MsxOpen, InTurn, Early, InChild
<1>6. ChildrenSettled'
  BY <1>1 DEF ChildrenSettled
<1>7. SettledLate'
  <2>1. result'.state \in Terminal \ {"Skipped"}
    BY <1>2, StatesAreTerminal DEF Completed
  <2>2. QED
    BY <1>2, <1>6, <2>1 DEF SettledLate
<1>8. QED
  BY <1>3, <1>5, <1>7 DEF IInv

(* Before the first child, all children share one fate.                    *)
LEMMA EarlySettled ==
  ASSUME IInv, pc \in Early, NEW state \in {"Cancelled", "Skipped"}
  PROVE  LET children == Settled(quality, state)
         IN  /\ DOMAIN children = DOMAIN quality
             /\ children = [i \in DOMAIN children |-> children[i]]
             /\ \A i \in DOMAIN children :
                  "state" \in DOMAIN children[i] /\ children[i].state = state
<1>1. \A i \in DOMAIN quality : "state" \in DOMAIN quality[i] /\ quality[i].state = "Pending"
  BY DEF IInv, Shape, InTurn
<1>2. QED
  BY <1>1, SettledStates

LEMMA CancelStops ==
  ASSUME IInv, pc \in Early, NEW hyd, "success" \in DOMAIN hyd, CancelHydraulics(hyd),
         UNCHANGED <<phase, request, msx>>
  PROVE  IInv'
<1> DEFINE res == [result EXCEPT !.cancelled = TRUE, !.diags = AppendAll(@, hyd.diags)]
           stopped == [hyd EXCEPT !.validity = CancelledValidity(hyd.nonempty)]
           children == Settled(quality, "Cancelled")
<1>1. noticed' = TRUE /\ StopExecutor(res, stopped, children)
  BY DEF CancelHydraulics
<1>2. {"state", "cancelled"} \subseteq DOMAIN res /\ res.cancelled = TRUE
  BY DEF IInv, Shape
<1>3. "success" \in DOMAIN stopped
  OBVIOUS
<1>4. /\ DOMAIN children = DOMAIN quality
      /\ children = [i \in DOMAIN children |-> children[i]]
      /\ \A i \in DOMAIN children :
           "state" \in DOMAIN children[i] /\ children[i].state = "Cancelled"
  BY EarlySettled
<1> HIDE DEF res, stopped, children
<1>5. \A i \in DOMAIN children : children[i].state \in Terminal /\ children[i].state # "Skipped"
  BY <1>4, StatesAreTerminal
<1>6. res.cancelled = noticed' /\ noticed' \in BOOLEAN
  BY <1>1, <1>2
<1>7. QED
  BY <1>1, <1>2, <1>3, <1>4, <1>5, <1>6, Stops

LEMMA FailStops ==
  ASSUME IInv, pc \in Early, NEW hyd, "success" \in DOMAIN hyd, NEW failures,
         FailHydraulics(hyd, failures), UNCHANGED <<phase, request, msx>>
  PROVE  IInv'
<1> DEFINE list == AppendAll(hyd.diags, failures)
           res == Reported([result EXCEPT !.diags = AppendAll(@, list)], failures)
           stopped == [hyd EXCEPT !.success = FALSE, !.diags = list,
                                  !.validity = FinalValidity(list, hyd.nonempty)]
           children == Settled(quality, "Skipped")
<1>1. UNCHANGED noticed /\ StopExecutor(res, stopped, children)
  BY DEF FailHydraulics
<1>2. {"state", "cancelled"} \subseteq DOMAIN res /\ res.cancelled = result.cancelled
  BY DEF IInv, Shape, Reported
<1>3. "success" \in DOMAIN stopped /\ stopped.success = FALSE
  OBVIOUS
<1>4. /\ DOMAIN children = DOMAIN quality
      /\ children = [i \in DOMAIN children |-> children[i]]
      /\ \A i \in DOMAIN children :
           "state" \in DOMAIN children[i] /\ children[i].state = "Skipped"
  BY EarlySettled
<1> HIDE DEF list, res, stopped, children
<1>5. \A i \in DOMAIN children : children[i].state \in Terminal /\ children[i].state # "Cancelled"
  BY <1>4, StatesAreTerminal
<1>6. res.cancelled = noticed' /\ noticed' \in BOOLEAN
  BY <1>1, <1>2 DEF IInv, Shape, NoticedIsCancelled
<1>7. QED
  BY <1>1, <1>2, <1>3, <1>4, <1>5, <1>6, Stops

(* EpanetRunner::run returns before the executor.                          *)
LEMMA RunReturnsEarly ==
  ASSUME IInv, pc \in {"entry", "validateMsx", "prepared"}, UNCHANGED <<phase, request>>,
         CancelledRun \/ (UNCHANGED noticed /\ \E said : FailedRun(said))
  PROVE  IInv'
<1>a. pc \in Early /\ ~noticed /\ result.cancelled = FALSE /\ msx \in {"Absent", "Pending"}
  <2>1. pc \in Early
    BY DEF Early
  <2>2. ~noticed /\ result.cancelled = noticed /\ noticed \in BOOLEAN
    BY DEF IInv, NotYetNoticed, NoticedIsCancelled, Shape
  <2>3. msx \in {"Absent", "Pending"}
    BY DEF IInv, MsxOpen
  <2>4. QED
    BY <2>1, <2>2, <2>3
<1>1. PICK state \in {"Cancelled", "Skipped"} :
        /\ quality' = Settled(quality, state) /\ msx' = SettledMsx(state)
        /\ pc' = "returned"
        /\ {"state", "cancelled"} \subseteq DOMAIN result'
        /\ "success" \in DOMAIN hydraulics'
        /\ \/ /\ state = "Cancelled" /\ noticed' = TRUE
              /\ result'.state = "Cancelled" /\ result'.cancelled = TRUE
           \/ /\ state = "Skipped" /\ noticed' = FALSE
              /\ result'.state = "Error" /\ result'.cancelled = FALSE
              /\ hydraulics'.success = FALSE
  <2>1. CASE CancelledRun
    <3>1. /\ quality' = Settled(quality, "Cancelled") /\ msx' = SettledMsx("Cancelled")
          /\ pc' = "returned" /\ noticed' = TRUE
      BY <2>1 DEF CancelledRun
    <3>2. /\ {"state", "cancelled"} \subseteq DOMAIN result'
          /\ result'.state = "Cancelled" /\ result'.cancelled = TRUE
      BY <2>1 DEF CancelledRun, IInv, Shape
    <3>3. "success" \in DOMAIN hydraulics'
      BY <2>1 DEF CancelledRun, IInv, Shape
    <3>4. QED
      BY <3>1, <3>2, <3>3
  <2>2. ASSUME NEW said, UNCHANGED noticed, FailedRun(said)
        PROVE  /\ quality' = Settled(quality, "Skipped") /\ msx' = SettledMsx("Skipped")
               /\ pc' = "returned" /\ noticed' = FALSE
               /\ {"state", "cancelled"} \subseteq DOMAIN result'
               /\ "success" \in DOMAIN hydraulics'
               /\ result'.state = "Error" /\ result'.cancelled = FALSE
               /\ hydraulics'.success = FALSE
    <3>1. /\ quality' = Settled(quality, "Skipped") /\ msx' = SettledMsx("Skipped")
          /\ pc' = "returned" /\ noticed' = FALSE
      BY <1>a, <2>2 DEF FailedRun, IInv, Shape
    <3>2. /\ {"state", "cancelled"} \subseteq DOMAIN result'
          /\ result'.state = "Error" /\ result'.cancelled = FALSE
      BY <1>a, <2>2 DEF FailedRun, IInv, Shape
    <3>3. "success" \in DOMAIN hydraulics' /\ hydraulics'.success = FALSE
      BY <2>2 DEF FailedRun, IInv, Shape
    <3>4. QED
      BY <3>1, <3>2, <3>3
  <2>3. QED
    BY <2>1, <2>2
<1>2. /\ DOMAIN quality' = DOMAIN quality
      /\ quality' = [i \in DOMAIN quality' |-> quality'[i]]
      /\ \A i \in DOMAIN quality' :
           "state" \in DOMAIN quality'[i] /\ quality'[i].state = state
  BY <1>a, <1>1, EarlySettled
<1>3. noticed' \in BOOLEAN
  BY <1>1
<1>4. Shape'
  BY <1>1, <1>2, <1>3 DEF IInv, Shape, Late
<1>5. msx' \in {"Absent", state}
  BY <1>a, <1>1 DEF SettledMsx
<1>6. PhaseFits' /\ NoticedIsCancelled' /\ NotYetNoticed' /\ MsxOpen' /\ InTurn'
  BY <1>1, <1>5, StatesAreTerminal
     DEF PhaseFits, NoticedIsCancelled, NotYetNoticed, MsxOpen, InTurn, Early, InChild
<1>7. SettledLate'
  <2>1. state \in Terminal /\ "Error" \in Terminal
    BY StatesAreTerminal DEF Completed
  <2>2. ChildrenSettled'
    BY <1>1, <1>2, <2>1 DEF ChildrenSettled
  <2>3. QED
    BY <1>1, <2>1, <2>2 DEF SettledLate
<1>8. QED
  BY <1>4, <1>6, <1>7 DEF IInv

-----------------------------------------------------------------------------
(* A step that stays among the early ones.                                 *)

LEMMA EarlyGoesOn ==
  ASSUME IInv, pc \in Early, pc' \in Early, UNCHANGED <<request, quality, noticed>>,
         {"state", "cancelled"} \subseteq DOMAIN result', result'.cancelled = result.cancelled,
         "success" \in DOMAIN hydraulics', msx' \in {"Absent", "Pending"},
         phase' = IF pc' \in {"entry", "validateMsx", "prepare", "prepared"} THEN Preparing
                  ELSE Hydraulics
  PROVE  IInv'
<1>1. phase' \in Int
  BY DEF Preparing, Hydraulics
<1>2. Shape'
  BY <1>1 DEF IInv, Shape
<1>3. pc' \notin InChild \union Late \union {"nextChild"}
  BY DEF Early, InChild, Late
<1>4. QED
  BY <1>2, <1>3
     DEF IInv, PhaseFits, NoticedIsCancelled, NotYetNoticed, MsxOpen, InTurn, SettledLate,
         Early, Late

LEMMA EarlyStep ==
  ASSUME IInv,
         \/ EntryPoll \/ ValidateMsx \/ Prepare \/ Prepared
         \/ ConfigureHydraulics \/ SolveHydraulics \/ SolvedHydraulics
         \/ SaveHydraulics \/ SavedHydraulics
  PROVE  IInv'
<1>a. /\ {"state", "cancelled"} \subseteq DOMAIN result /\ "success" \in DOMAIN hydraulics
      /\ pc \in Early => msx \in {"Absent", "Pending"}
      /\ pc \in Early => phase = IF pc \in {"entry", "validateMsx", "prepare", "prepared"}
                                 THEN Preparing ELSE Hydraulics
  BY DEF IInv, Shape, MsxOpen, Early, PhaseFits
<1>1. CASE EntryPoll
  <2>1. CASE CancelledRun
    BY <1>1, <2>1, RunReturnsEarly DEF EntryPoll, CancelledRun
  <2>2. CASE ~CancelledRun
    <3>1. /\ pc = "entry" /\ pc' \in {"validateMsx", "prepare"} /\ msx' \in {"Absent", "Pending"}
          /\ UNCHANGED <<phase, request, quality, noticed, result, hydraulics>>
      BY <1>1, <2>2 DEF EntryPoll
    <3>2. QED
      BY <1>a, <3>1, EarlyGoesOn DEF Early
  <2>3. QED
    BY <2>1, <2>2
<1>2. CASE ValidateMsx
  <2>1. CASE pc' = "prepare" /\ UNCHANGED <<hydraulics, quality, msx, result>>
    BY <1>2, <1>a, <2>1, EarlyGoesOn DEF ValidateMsx, Early
  <2>2. CASE FailedRun({Diag("Error", "Configure")})
    BY <1>2, <2>2, RunReturnsEarly DEF ValidateMsx
  <2>3. QED
    BY <1>2, <2>1, <2>2 DEF ValidateMsx
<1>3. CASE Prepare
  BY <1>3, <1>a, EarlyGoesOn DEF Prepare, Early
<1>4. CASE Prepared
  <2>1. CASE CancelledRun
    BY <1>4, <2>1, RunReturnsEarly DEF Prepared, CancelledRun
  <2>2. CASE /\ UNCHANGED <<phase, request, noticed>> /\ \E said : FailedRun(said)
    BY <1>4, <2>2, RunReturnsEarly DEF Prepared
  <2>3. CASE /\ pc' = "configureHydraulics" /\ phase' = Hydraulics
             /\ result' = [result EXCEPT !.diags = AppendFrom(@, project, 1), !.state = "Running"]
             /\ UNCHANGED <<request, hydraulics, quality, msx, noticed>>
    <3>1. {"state", "cancelled"} \subseteq DOMAIN result' /\ result'.cancelled = result.cancelled
      BY <1>a, <2>3
    <3>2. pc = "prepared"
      BY <1>4 DEF Prepared
    <3>3. QED
      BY <1>a, <2>3, <3>1, <3>2, EarlyGoesOn DEF Early
  <2>4. QED
    BY <1>4, <2>1, <2>2, <2>3 DEF Prepared
<1>5. CASE ConfigureHydraulics
  <2> DEFINE hyd == [hydraulics EXCEPT !.diags = SinceCheckpoint(@)]
  <2>1. \/ /\ pc' = "solveHydraulics" /\ hydraulics' = hyd
           /\ UNCHANGED <<quality, result, noticed>>
        \/ FailHydraulics(hyd, {Diag("Error", "Configure")})
    BY <1>5 DEF ConfigureHydraulics
  <2>2. pc = "configureHydraulics" /\ UNCHANGED <<phase, request, msx>>
    BY <1>5 DEF ConfigureHydraulics
  <2>3. "success" \in DOMAIN hyd
    BY <1>a
  <2>4. CASE pc' = "solveHydraulics" /\ hydraulics' = hyd /\ UNCHANGED <<quality, result, noticed>>
    BY <1>a, <2>2, <2>3, <2>4, EarlyGoesOn DEF Early
  <2>5. CASE FailHydraulics(hyd, {Diag("Error", "Configure")})
    <3> HIDE DEF hyd
    <3>1. QED
      BY <2>2, <2>3, <2>5, FailStops DEF Early
  <2>6. QED
    BY <2>1, <2>4, <2>5
<1>6. CASE SolveHydraulics \/ SolvedHydraulics
  <2>1. /\ pc \in {"solveHydraulics", "solvingHydraulics"} /\ UNCHANGED <<phase, request, msx>>
        /\ \/ \E o : HydraulicsReturn(o)
           \/ /\ pc' = "solvingHydraulics"
              /\ UNCHANGED <<hydraulics, quality, result, noticed>>
    BY <1>6 DEF SolveHydraulics, SolvedHydraulics
  <2>2. CASE pc' = "solvingHydraulics" /\ UNCHANGED <<hydraulics, quality, result, noticed>>
    BY <1>a, <2>1, <2>2, EarlyGoesOn DEF Early
  <2>3. ASSUME NEW o, HydraulicsReturn(o) PROVE IInv'
    <3> DEFINE hyd == [hydraulics EXCEPT !.success = o.success, !.nonempty = o.nonempty,
                         !.complete = o.complete, !.diags = SinceCheckpoint(@)]
    <3>1. \/ CancelHydraulics(hyd)
          \/ FailHydraulics(hyd, Failure(o))
          \/ /\ pc' = "saveHydraulics" /\ hydraulics' = hyd
             /\ UNCHANGED <<quality, result, noticed>>
      BY <2>3 DEF HydraulicsReturn
    <3>2. "success" \in DOMAIN hyd /\ pc \in Early
      BY <1>a, <2>1 DEF Early
    <3> HIDE DEF hyd
    <3>3. CASE CancelHydraulics(hyd)
      BY <2>1, <3>2, <3>3, CancelStops
    <3>4. CASE FailHydraulics(hyd, Failure(o))
      BY <2>1, <3>2, <3>4, FailStops
    <3>5. CASE /\ pc' = "saveHydraulics" /\ hydraulics' = hyd
               /\ UNCHANGED <<quality, result, noticed>>
      BY <1>a, <2>1, <3>2, <3>5, EarlyGoesOn DEF Early
    <3>6. QED
      BY <3>1, <3>3, <3>4, <3>5
  <2>4. QED
    BY <2>1, <2>2, <2>3
<1>7. CASE SaveHydraulics
  <2>1. /\ pc = "saveHydraulics" /\ pc' = "savedHydraulics"
        /\ UNCHANGED <<phase, request, quality, msx, result, noticed>>
    BY <1>7 DEF SaveHydraulics
  <2>2. "success" \in DOMAIN hydraulics'
    BY <1>7, <1>a DEF SaveHydraulics
  <2>3. QED
    BY <1>a, <2>1, <2>2, EarlyGoesOn DEF Early
<1>8. CASE SavedHydraulics
  <2>1. pc = "savedHydraulics" /\ UNCHANGED <<phase, request, msx>>
    BY <1>8 DEF SavedHydraulics
  <2>2. CASE CancelHydraulics(hydraulics)
    BY <1>a, <2>1, <2>2, CancelStops DEF Early
  <2>3. CASE FailHydraulics(hydraulics, {Diag("Error", "SaveHydraulics")})
    BY <1>a, <2>1, <2>3, FailStops DEF Early
  <2>4. CASE /\ pc' = "reportHydraulics"
             /\ hydraulics' = [hydraulics EXCEPT !.validity =
                                  FinalValidity(hydraulics.diags, hydraulics.nonempty)]
             /\ UNCHANGED <<quality, result, noticed>>
    <3>1. "success" \in DOMAIN hydraulics'
      BY <1>a, <2>4
    <3>2. QED
      BY <1>a, <2>1, <2>4, <3>1, EarlyGoesOn DEF Early
  <2>5. QED
    BY <1>8, <2>2, <2>3, <2>4 DEF SavedHydraulics
<1>9. QED
  BY <1>1, <1>2, <1>3, <1>4, <1>5, <1>6, <1>7, <1>8

-----------------------------------------------------------------------------
(* The children: one at a time is started, goes on, ends or is skipped.    *)

LEMMA ReportStep == ASSUME IInv, ReportHydraulics PROVE IInv'
<1>1. /\ pc = "reportHydraulics" /\ pc' = "nextChild" /\ phase' = phase + 1
      /\ UNCHANGED <<request, quality, msx, noticed>>
  BY DEF ReportHydraulics
<1>2. /\ {"state", "cancelled"} \subseteq DOMAIN result' /\ result'.cancelled = result.cancelled
      /\ "success" \in DOMAIN hydraulics'
  <2>1. /\ {"state", "cancelled"} \subseteq DOMAIN result /\ "success" \in DOMAIN hydraulics
    BY DEF IInv, Shape
  <2>2. PICK success, ds :
          LET list == AppendAll(hydraulics.diags, ds)
              all  == [result EXCEPT !.diags = AppendAll(@, list)]
          IN  /\ hydraulics' = [hydraulics EXCEPT !.success = success, !.diags = list,
                                  !.validity = FinalValidity(list, hydraulics.nonempty),
                                  !.report = collector]
              /\ result' = IF success THEN all
                           ELSE Reported(all, {Diag("Error", "GenerateReport")})
    BY DEF ReportHydraulics
  <2>3. QED
    BY <2>1, <2>2 DEF Reported
<1>3. phase = 0 /\ phase' = 1 /\ \A i \in DOMAIN quality : i \in Int /\ i >= 1
  <2>1. phase = 0
    BY <1>1 DEF IInv, PhaseFits, Early, Hydraulics
  <2>2. \A i \in DOMAIN quality : i \in Int /\ i >= 1
    BY DEF IInv, Shape
  <2>3. QED
    BY <1>1, <2>1, <2>2
<1>4. \A i \in DOMAIN quality : quality[i].state = "Pending"
  BY <1>1 DEF IInv, InTurn, Early
<1>5. Shape'
  BY <1>1, <1>2, <1>3 DEF IInv, Shape
<1>6. PhaseFits' /\ InTurn'
  BY <1>1, <1>3, <1>4 DEF PhaseFits, InTurn, Early, InChild
<1>7. NoticedIsCancelled' /\ NotYetNoticed' /\ MsxOpen' /\ SettledLate'
  BY <1>1, <1>2 DEF IInv, NoticedIsCancelled, NotYetNoticed, MsxOpen, SettledLate, Early, Late
<1>8. QED
  BY <1>5, <1>6, <1>7 DEF IInv

LEMMA ChildStep ==
  ASSUME IInv, pc \in InChild \union {"nextChild"}, phase \in DOMAIN quality,
         NEW c, "state" \in DOMAIN c, quality' = [quality EXCEPT ![phase] = c],
         UNCHANGED <<request, msx, noticed>>,
         {"state", "cancelled"} \subseteq DOMAIN result', result'.cancelled = result.cancelled,
         "success" \in DOMAIN hydraulics',
         \/ pc' \in InChild /\ phase' = phase /\ c.state = "Running"
         \/ /\ pc' = "nextChild" /\ phase' = phase + 1
            /\ c.state \in Completed \/ (c.state = "Skipped" /\ request.quality[phase] = "None")
  PROVE  IInv'
<1>1. /\ DOMAIN quality' = DOMAIN quality
      /\ \A i \in DOMAIN quality : quality'[i] = IF i = phase THEN c ELSE quality[i]
      /\ quality' = [i \in DOMAIN quality' |-> quality'[i]]
  OBVIOUS
<1>2. PICK n \in Nat : DOMAIN quality = 1 .. n
  BY DEF IInv, Shape
<1>3. phase \in Int /\ phase >= 1 /\ \A i \in DOMAIN quality : i \in Int
  BY <1>2
<1>4. /\ pc' \in InChild \union {"nextChild"} /\ phase' >= 1 /\ phase' \in Int
      /\ pc' \in InChild => phase' \in DOMAIN quality'
  BY <1>1, <1>3 DEF InChild
<1>5. Shape'
  <2>1. \A i \in DOMAIN quality' : "state" \in DOMAIN quality'[i]
    BY <1>1 DEF IInv, Shape
  <2>2. \E m \in Nat : DOMAIN quality' = 1 .. m
    BY <1>1, <1>2
  <2>3. noticed' \in BOOLEAN
    BY DEF IInv, Shape
  <2>4. QED
    BY <1>1, <1>4, <2>1, <2>2, <2>3 DEF Shape
<1>6. PhaseFits' /\ NoticedIsCancelled' /\ NotYetNoticed' /\ MsxOpen' /\ SettledLate'
  <2>1. PhaseFits'
    BY <1>4 DEF PhaseFits, Early, InChild
  <2>2. NoticedIsCancelled'
    BY DEF IInv, NoticedIsCancelled
  <2>3. NotYetNoticed' /\ SettledLate'
    BY <1>4 DEF IInv, NotYetNoticed, SettledLate, InChild, Late
  <2>4. MsxOpen'
    BY <1>4 DEF IInv, MsxOpen, InChild
  <2>5. QED
    BY <2>1, <2>2, <2>3, <2>4
<1>7. InTurn'
  <2>1. SUFFICES ASSUME NEW i \in DOMAIN quality
        PROVE  /\ i < phase' => \/ quality'[i].state \in Completed
                                \/ quality'[i].state = "Skipped" /\ request.quality[i] = "None"
               /\ i > phase' => quality'[i].state = "Pending"
               /\ i = phase' => quality'[i].state = IF pc' = "nextChild" THEN "Pending"
                                                   ELSE "Running"
    BY <1>1, <1>4 DEF InTurn, Early, InChild
  <2>2. /\ i < phase => \/ quality[i].state \in Completed
                        \/ quality[i].state = "Skipped" /\ request.quality[i] = "None"
        /\ i > phase => quality[i].state = "Pending"
    BY DEF IInv, InTurn
  <2>3. CASE pc' \in InChild /\ phase' = phase /\ c.state = "Running"
    BY <1>1, <1>3, <2>2, <2>3 DEF InChild
  <2>4. CASE /\ pc' = "nextChild" /\ phase' = phase + 1
             /\ c.state \in Completed \/ (c.state = "Skipped" /\ request.quality[phase] = "None")
    BY <1>1, <1>3, <2>2, <2>4
  <2>5. QED
    BY <2>3, <2>4
<1>8. QED
  BY <1>5, <1>6, <1>7 DEF IInv

(* Cancelled in a child: those before it keep what they have.              *)
LEMMA ChildCancels ==
  ASSUME IInv, pc \in InChild \union {"nextChild"}, phase \in DOMAIN quality,
         NEW list, DOMAIN list = DOMAIN quality,
         \A i \in DOMAIN quality : /\ "state" \in DOMAIN list[i]
                                   /\ i # phase => list[i] = quality[i],
         list[phase].state \in {"Pending", "Cancelled"},
         NEW res, {"state", "cancelled"} \subseteq DOMAIN res, res.cancelled = TRUE,
         noticed' = TRUE, StopExecutor(res, hydraulics, Settled(list, "Cancelled")),
         UNCHANGED <<phase, request, msx>>
  PROVE  IInv'
<1> DEFINE children == Settled(list, "Cancelled")
<1>1. /\ DOMAIN children = DOMAIN quality
      /\ children = [i \in DOMAIN children |-> children[i]]
      /\ \A i \in DOMAIN children :
           /\ "state" \in DOMAIN children[i]
           /\ children[i].state = IF list[i].state = "Pending" THEN "Cancelled"
                                  ELSE list[i].state
  BY SettledStates
<1>2. StopExecutor(res, hydraulics, children)
  OBVIOUS
<1> HIDE DEF children
<1>3. phase \in Int /\ \A i \in DOMAIN quality : i \in Int
  BY DEF IInv, Shape
<1>4. \A i \in DOMAIN quality :
        /\ i < phase => \/ children[i].state \in Completed
                        \/ children[i].state = "Skipped" /\ request.quality[i] = "None"
        /\ i >= phase => children[i].state = "Cancelled"
  <2>1. TAKE i \in DOMAIN quality
  <2>2. /\ i < phase => \/ quality[i].state \in Completed
                        \/ quality[i].state = "Skipped" /\ request.quality[i] = "None"
        /\ i > phase => quality[i].state = "Pending"
    BY DEF IInv, InTurn
  <2>3. CASE i < phase
    BY <1>1, <1>3, <2>2, <2>3 DEF Completed
  <2>4. CASE i > phase
    BY <1>1, <1>3, <2>2, <2>4
  <2>5. CASE i = phase
    BY <1>1, <1>3, <2>5
  <2>6. QED
    BY <1>3, <2>3, <2>4, <2>5
<1>5. \A i \in DOMAIN children : children[i].state \in Terminal
  BY <1>1, <1>3, <1>4, StatesAreTerminal
<1>6. \A i, k \in DOMAIN children :
        i < k /\ children[i].state = "Cancelled" => children[k].state = "Cancelled"
  BY <1>1, <1>3, <1>4 DEF Completed
<1>7. \A i \in DOMAIN children :
        request.quality[i] = "Active" /\ children[i].state = "Skipped" => ~hydraulics.success
  BY <1>1, <1>3, <1>4 DEF Completed
<1>8. "success" \in DOMAIN hydraulics /\ noticed' \in BOOLEAN /\ res.cancelled = noticed'
  BY DEF IInv, Shape
<1>9. QED
  BY <1>1, <1>2, <1>5, <1>6, <1>7, <1>8, Stops

(* What every child has, and what the run has while it works on one.       *)
LEMMA InAChild ==
  ASSUME IInv, pc \in InChild \union {"nextChild"}
  PROVE  /\ \A i \in DOMAIN quality : "state" \in DOMAIN quality[i]
         /\ {"state", "cancelled"} \subseteq DOMAIN result
         /\ "success" \in DOMAIN hydraulics
         /\ pc \in InChild => phase \in DOMAIN quality /\ quality[phase].state = "Running"
         /\ pc = "nextChild" /\ phase \in DOMAIN quality => quality[phase].state = "Pending"
<1>1. pc \in InChild => phase \in DOMAIN quality
  BY DEF IInv, PhaseFits
<1>2. \A i \in DOMAIN quality :
        i = phase => quality[i].state = IF pc = "nextChild" THEN "Pending" ELSE "Running"
  BY DEF IInv, InTurn
<1>3. QED
  BY <1>1, <1>2 DEF IInv, Shape, InChild

(* A child ends with one of the states of a run that is over.              *)
LEMMA ChildEnds ==
  ASSUME IInv, pc \in InChild, NEW c, "state" \in DOMAIN c, c.state \in Completed,
         NEW res, {"state", "cancelled"} \subseteq DOMAIN res,
         res.cancelled = result.cancelled, NextChild(c, res),
         UNCHANGED <<request, hydraulics, msx, noticed>>
  PROVE  IInv'
<1>1. /\ pc' = "nextChild" /\ phase' = phase + 1 /\ quality' = [quality EXCEPT ![phase] = c]
      /\ {"state", "cancelled"} \subseteq DOMAIN result' /\ result'.cancelled = result.cancelled
  BY DEF NextChild, CurrentChild
<1>2. phase \in DOMAIN quality /\ "success" \in DOMAIN hydraulics'
  BY InAChild
<1>3. pc \in InChild \union {"nextChild"} /\ UNCHANGED <<request, msx, noticed>>
  OBVIOUS
<1>4. /\ pc' = "nextChild" /\ phase' = phase + 1
      /\ c.state \in Completed \/ (c.state = "Skipped" /\ request.quality[phase] = "None")
  BY <1>1
<1>5. QED
  BY <1>1, <1>2, <1>3, <1>4, ChildStep

LEMMA ChildFails ==
  ASSUME IInv, pc \in InChild, NEW child, "state" \in DOMAIN child, NEW failures,
         FailChild(child, failures), UNCHANGED <<request, hydraulics, msx, noticed>>
  PROVE  IInv'
<1> DEFINE list == AppendAll(child.diags, failures)
           c == [child EXCEPT !.success = FALSE, !.diags = list, !.state = "Error",
                              !.validity = FinalValidity(list, FALSE), !.report = collector]
           res == [result EXCEPT !.success = FALSE]
<1>1. NextChild(c, res)
  BY DEF FailChild
<1>2. "state" \in DOMAIN c /\ c.state \in Completed
  BY DEF Completed
<1>3. {"state", "cancelled"} \subseteq DOMAIN res /\ res.cancelled = result.cancelled
  BY InAChild
<1> HIDE DEF list, c, res
<1>4. QED
  BY <1>1, <1>2, <1>3, ChildEnds

LEMMA SkipStep == ASSUME IInv, SkipChild PROVE IInv'
<1> DEFINE c == [quality[phase] EXCEPT !.state = "Skipped"]
<1>1. /\ pc = "nextChild" /\ phase \in DOMAIN quality /\ request.quality[phase] = "None"
      /\ phase' = phase + 1 /\ pc' = "nextChild"
      /\ UNCHANGED <<request, hydraulics, msx, result, noticed>>
      /\ quality' = [quality EXCEPT ![phase] = c]
  BY DEF SkipChild
<1>2. "state" \in DOMAIN c /\ c.state = "Skipped"
  BY <1>1, InAChild
<1>3. /\ {"state", "cancelled"} \subseteq DOMAIN result' /\ "success" \in DOMAIN hydraulics'
  BY <1>1, InAChild
<1> HIDE DEF c
<1>4. QED
  BY <1>1, <1>2, <1>3, ChildStep

LEMMA StartStep == ASSUME IInv, StartChild PROVE IInv'
<1>1. /\ pc = "nextChild" /\ phase \in DOMAIN quality /\ UNCHANGED <<phase, request, msx>>
  BY DEF StartChild
<1>2. /\ \A i \in DOMAIN quality : "state" \in DOMAIN quality[i]
      /\ {"state", "cancelled"} \subseteq DOMAIN result /\ "success" \in DOMAIN hydraulics
      /\ quality[phase].state = "Pending"
  BY <1>1, InAChild
<1>3. CASE /\ noticed' = TRUE
           /\ StopExecutor([result EXCEPT !.cancelled = TRUE], hydraulics,
                           Settled(quality, "Cancelled"))
  <2> DEFINE res == [result EXCEPT !.cancelled = TRUE]
  <2>1. /\ {"state", "cancelled"} \subseteq DOMAIN res /\ res.cancelled = TRUE
        /\ StopExecutor(res, hydraulics, Settled(quality, "Cancelled"))
    BY <1>2, <1>3
  <2> HIDE DEF res
  <2>2. QED
    BY <1>1, <1>2, <1>3, <2>1, ChildCancels
<1>4. CASE /\ pc' = "validateQuality" /\ UNCHANGED <<hydraulics, result, noticed>>
           /\ quality' = [quality EXCEPT ![phase].state = "Running"]
  <2> DEFINE c == [quality[phase] EXCEPT !.state = "Running"]
  <2>1. "state" \in DOMAIN c /\ c.state = "Running" /\ quality' = [quality EXCEPT ![phase] = c]
    BY <1>2, <1>1, <1>4
  <2>2. /\ {"state", "cancelled"} \subseteq DOMAIN result' /\ "success" \in DOMAIN hydraulics'
        /\ result'.cancelled = result.cancelled /\ UNCHANGED noticed /\ pc' \in InChild
    BY <1>2, <1>4 DEF InChild
  <2> HIDE DEF c
  <2>3. QED
    BY <1>1, <2>1, <2>2, ChildStep
<1>5. QED
  BY <1>3, <1>4 DEF StartChild

LEMMA ConfigureStep ==
  ASSUME IInv, ValidateQuality \/ ConfigureQuality
  PROVE  IInv'
<1>1. /\ pc \in InChild /\ pc \in InChild \union {"nextChild"}
      /\ UNCHANGED <<request, hydraulics, msx, noticed>>
  BY DEF ValidateQuality, ConfigureQuality, InChild
<1>2. /\ \A i \in DOMAIN quality : "state" \in DOMAIN quality[i]
      /\ {"state", "cancelled"} \subseteq DOMAIN result /\ "success" \in DOMAIN hydraulics
      /\ phase \in DOMAIN quality /\ quality[phase].state = "Running"
  BY <1>1, InAChild
<1> DEFINE failure == {Diag("Error", "Configure")}
           child == [quality[phase] EXCEPT !.diags = SinceCheckpoint(@)]
<1>3. "state" \in DOMAIN child /\ child.state = "Running"
  BY <1>2
<1>4. \/ FailChild(quality[phase], failure)
      \/ FailChild(child, failure)
      \/ \E c \in {quality[phase], child} :
           /\ pc' \in InChild /\ quality' = [quality EXCEPT ![phase] = c]
           /\ UNCHANGED <<phase, result>>
  <2>1. CASE ValidateQuality
    <3>1. UNCHANGED quality => quality' = [quality EXCEPT ![phase] = quality[phase]]
      BY <1>2 DEF IInv, Shape
    <3>2. QED
      BY <2>1, <3>1 DEF ValidateQuality, InChild
  <2>2. CASE ConfigureQuality
    <3>1. \/ FailChild(child, failure)
          \/ pc' = "solveQuality" /\ CurrentChild(child) /\ UNCHANGED <<phase, result>>
      BY <2>2 DEF ConfigureQuality
    <3>2. QED
      BY <3>1 DEF CurrentChild, InChild
  <2>3. QED
    BY <2>1, <2>2
<1> HIDE DEF failure, child
<1>5. CASE FailChild(quality[phase], failure)
  BY <1>1, <1>2, <1>5, ChildFails
<1>6. CASE FailChild(child, failure)
  BY <1>1, <1>3, <1>6, ChildFails
<1>7. ASSUME NEW c \in {quality[phase], child}, pc' \in InChild,
             quality' = [quality EXCEPT ![phase] = c], UNCHANGED <<phase, result>>
      PROVE  IInv'
  <2>1. "state" \in DOMAIN c /\ c.state = "Running"
    BY <1>2, <1>3
  <2>2. /\ {"state", "cancelled"} \subseteq DOMAIN result' /\ "success" \in DOMAIN hydraulics'
        /\ result'.cancelled = result.cancelled
    BY <1>1, <1>2, <1>7
  <2>3. QED
    BY <1>1, <1>2, <1>7, <2>1, <2>2, ChildStep
<1>8. QED
  BY <1>4, <1>5, <1>6, <1>7

LEMMA SolveStep ==
  ASSUME IInv, SolveQuality \/ SolvedQuality
  PROVE  IInv'
<1>1. /\ pc \in InChild /\ pc \in InChild \union {"nextChild"}
      /\ UNCHANGED <<phase, request, msx>>
  BY DEF SolveQuality, SolvedQuality, InChild
<1>2. /\ \A i \in DOMAIN quality : "state" \in DOMAIN quality[i]
      /\ {"state", "cancelled"} \subseteq DOMAIN result /\ "success" \in DOMAIN hydraulics
      /\ phase \in DOMAIN quality /\ quality[phase].state = "Running"
  BY <1>1, InAChild
<1>3. \/ \E o : QualityReturn(o)
      \/ /\ pc' = "solvingQuality" /\ UNCHANGED <<hydraulics, quality, result, noticed>>
  BY DEF SolveQuality, SolvedQuality
<1>4. CASE pc' = "solvingQuality" /\ UNCHANGED <<hydraulics, quality, result, noticed>>
  <2>1. quality' = [quality EXCEPT ![phase] = quality[phase]]
    BY <1>2, <1>4 DEF IInv, Shape
  <2>2. /\ {"state", "cancelled"} \subseteq DOMAIN result' /\ "success" \in DOMAIN hydraulics'
        /\ result'.cancelled = result.cancelled /\ pc' \in InChild
    BY <1>2, <1>4 DEF InChild
  <2>3. "state" \in DOMAIN quality[phase]
    BY <1>2
  <2>4. QED
    BY <1>1, <1>2, <1>4, <2>1, <2>2, <2>3, ChildStep
<1>5. ASSUME NEW o, QualityReturn(o) PROVE IInv'
  <2> DEFINE warnings == {d \in o.diags : d.severity = "Warning"}
             list  == SinceCheckpoint(quality[phase].diags \union (o.diags \ warnings))
             child == [quality[phase] EXCEPT !.success = o.success, !.nonempty = o.nonempty,
                         !.complete = o.complete, !.diags = list]
             stopped == [child EXCEPT !.state = "Cancelled", !.report = collector',
                                      !.validity = CancelledValidity(o.nonempty)]
             ended == [child EXCEPT !.validity = FinalValidity(list, o.nonempty)]
             res == [result EXCEPT !.cancelled = TRUE, !.diags = AppendAll(@, list)]
             children == [quality EXCEPT ![phase] = stopped]
  <2>1. \/ noticed' = TRUE /\ StopExecutor(res, hydraulics, Settled(children, "Cancelled"))
        \/ /\ pc' = "reportQuality" /\ quality' = [quality EXCEPT ![phase] = ended]
           /\ UNCHANGED <<hydraulics, result, noticed>>
    BY <1>5 DEF QualityReturn, CurrentChild
  <2>2. /\ "state" \in DOMAIN child /\ child.state = "Running"
    BY <1>2
  <2> HIDE DEF child, list
  <2>3. /\ "state" \in DOMAIN stopped /\ stopped.state = "Cancelled"
        /\ "state" \in DOMAIN ended /\ ended.state = "Running"
        /\ {"state", "cancelled"} \subseteq DOMAIN res /\ res.cancelled = TRUE
    BY <1>2, <2>2
  <2> HIDE DEF stopped, ended, res
  <2>4. CASE noticed' = TRUE /\ StopExecutor(res, hydraulics, Settled(children, "Cancelled"))
    <3>1. /\ DOMAIN children = DOMAIN quality
          /\ \A i \in DOMAIN quality : /\ "state" \in DOMAIN children[i]
                                       /\ i # phase => children[i] = quality[i]
          /\ children[phase].state \in {"Pending", "Cancelled"}
      BY <1>2, <2>3
    <3> HIDE DEF children
    <3>2. QED
      BY <1>1, <1>2, <2>3, <2>4, <3>1, ChildCancels
  <2>5. CASE /\ pc' = "reportQuality" /\ quality' = [quality EXCEPT ![phase] = ended]
             /\ UNCHANGED <<hydraulics, result, noticed>>
    <3>1. /\ {"state", "cancelled"} \subseteq DOMAIN result' /\ "success" \in DOMAIN hydraulics'
          /\ result'.cancelled = result.cancelled /\ pc' \in InChild
      BY <1>2, <2>5 DEF InChild
    <3>2. QED
      BY <1>1, <1>2, <2>3, <2>5, <3>1, ChildStep
  <2>6. QED
    BY <2>1, <2>4, <2>5
<1>6. QED
  BY <1>3, <1>4, <1>5

LEMMA ReportQualityStep == ASSUME IInv, ReportQuality PROVE IInv'
<1>1. /\ pc \in InChild /\ pc \in InChild \union {"nextChild"}
      /\ UNCHANGED <<request, hydraulics, msx, noticed>>
  BY DEF ReportQuality, InChild
<1>2. /\ \A i \in DOMAIN quality : "state" \in DOMAIN quality[i]
      /\ {"state", "cancelled"} \subseteq DOMAIN result /\ phase \in DOMAIN quality
  BY <1>1, InAChild
<1>3. PICK reported, ds :
        LET child   == quality[phase]
            success == child.success /\ reported
            list    == AppendAll(child.diags, ds)
        IN  NextChild([child EXCEPT !.success = success, !.diags = list, !.report = collector,
                                    !.validity = FinalValidity(list, child.nonempty),
                                    !.state = CompletedState(success, list)],
                      [result EXCEPT !.success = @ /\ success])
  BY DEF ReportQuality
<1> DEFINE child   == quality[phase]
           success == child.success /\ reported
           list    == AppendAll(child.diags, ds)
           c   == [child EXCEPT !.success = success, !.diags = list, !.report = collector,
                                !.validity = FinalValidity(list, child.nonempty),
                                !.state = CompletedState(success, list)]
           res == [result EXCEPT !.success = @ /\ success]
<1>4. NextChild(c, res)
  BY <1>3
<1>5. "state" \in DOMAIN c /\ c.state = CompletedState(success, list)
  BY <1>2
<1>6. {"state", "cancelled"} \subseteq DOMAIN res /\ res.cancelled = result.cancelled
  BY <1>2
<1> HIDE DEF c, res, list, success
<1>7. c.state \in Completed
  BY <1>5 DEF CompletedState, Completed
<1>8. QED
  BY <1>1, <1>4, <1>5, <1>6, <1>7, ChildEnds

(* The last child is over: phase is past the end of quality_results.       *)
LEMMA FinishStep == ASSUME IInv, FinishExecutor PROVE IInv'
<1> DEFINE res == [result EXCEPT !.diags = AppendFrom(@, project, 1)]
<1>1. /\ pc = "nextChild" /\ phase = Len(quality) + 1
      /\ UNCHANGED <<phase, request, msx, noticed>> /\ StopExecutor(res, hydraulics, quality)
  BY DEF FinishExecutor
<1>2. {"state", "cancelled"} \subseteq DOMAIN res /\ res.cancelled = result.cancelled
  BY DEF IInv, Shape
<1> HIDE DEF res
<1>3. \A i \in DOMAIN quality : i \in Int /\ i < phase
  <2>1. PICK n \in Nat : DOMAIN quality = 1 .. n
    BY DEF IInv, Shape
  <2> DEFINE S == {quality[i] : i \in 1 .. n}
  <2>2. Len(quality) = n
    <3>1. quality \in [1 .. n -> S]
      BY <2>1 DEF IInv, Shape
    <3>2. quality \in Seq(S)
      BY <3>1
    <3>3. QED
      BY <2>1, <3>2
  <2>3. QED
    BY <1>1, <2>1, <2>2
<1>4. \A i \in DOMAIN quality :
        \/ quality[i].state \in Completed
        \/ quality[i].state = "Skipped" /\ request.quality[i] = "None"
  BY <1>1, <1>3 DEF IInv, InTurn
<1>5. \A i \in DOMAIN quality : /\ "state" \in DOMAIN quality[i]
                                /\ quality[i].state \in Terminal
                                /\ quality[i].state # "Cancelled"
  BY <1>4, StatesAreTerminal DEF Completed, IInv, Shape
<1>6. \A i \in DOMAIN quality :
        request.quality[i] = "Active" /\ quality[i].state = "Skipped" => ~hydraulics.success
  BY <1>4 DEF Completed
<1>7. /\ res.cancelled = noticed' /\ noticed' \in BOOLEAN /\ "success" \in DOMAIN hydraulics
      /\ quality = [i \in DOMAIN quality |-> quality[i]]
  BY <1>1, <1>2 DEF IInv, Shape, NoticedIsCancelled
<1>8. QED
  BY <1>1, <1>2, <1>5, <1>6, <1>7, Stops

-----------------------------------------------------------------------------
(* After the executor: only the multi-species run can change the state.    *)

LEMMA MultiSpeciesStep ==
  ASSUME IInv, SettleMultiSpecies \/ StartMultiSpecies \/ RunMultiSpecies
  PROVE  IInv'
<1>1. /\ pc \in {"multiSpecies", "runMultiSpecies"} /\ pc' \in {"runMultiSpecies", "returned"}
      /\ UNCHANGED <<request, hydraulics, quality>> /\ phase' \in Int
  <2>1. phase' \in {phase, MultiSpecies}
    BY DEF SettleMultiSpecies, StartMultiSpecies, RunMultiSpecies
  <2>2. MultiSpecies \in Int
    BY BoundsAssumption DEF MultiSpecies
  <2>3. phase' \in Int
    BY <2>1, <2>2 DEF IInv, Shape
  <2>4. QED
    BY <2>3 DEF SettleMultiSpecies, StartMultiSpecies, RunMultiSpecies
<1>2. /\ {"state", "cancelled"} \subseteq DOMAIN result /\ "success" \in DOMAIN hydraulics
      /\ result.cancelled = noticed /\ noticed \in BOOLEAN
      /\ pc = "runMultiSpecies" => ~noticed
      /\ pc = "multiSpecies" => msx \in {"Absent", "Pending"}
  <2>1. noticed \in BOOLEAN
    BY DEF IInv, Shape
  <2>2. result.cancelled = noticed
    BY DEF IInv, NoticedIsCancelled
  <2>3. pc = "runMultiSpecies" => ~noticed
    BY DEF IInv, NotYetNoticed
  <2>4. pc = "multiSpecies" => msx \in {"Absent", "Pending"}
    BY DEF IInv, MsxOpen
  <2>5. QED
    BY <2>1, <2>2, <2>3, <2>4 DEF IInv, Shape
<1>3. /\ ChildrenSettled
      /\ result.state \in Terminal \ {"Skipped"}
      /\ result.state = "Cancelled" <=> noticed
  BY <1>1 DEF IInv, SettledLate, Late
<1>4. /\ {"state", "cancelled"} \subseteq DOMAIN result' /\ result'.cancelled = noticed'
      /\ noticed' \in BOOLEAN
      /\ noticed => noticed'
      /\ result'.state \in Terminal \ {"Skipped"}
      /\ result'.state = "Cancelled" <=> noticed'
      /\ pc' = "runMultiSpecies" => ~noticed'
      /\ pc' = "returned" => /\ msx' \in Terminal \union {"Absent"}
                             /\ ~noticed' => msx' # "Cancelled"
  <2>1. CASE SettleMultiSpecies
    <3>1. /\ UNCHANGED <<result, noticed>> /\ pc = "multiSpecies" /\ pc' = "returned"
          /\ msx' = SettledMsx(IF result.cancelled THEN "Cancelled" ELSE "Skipped")
      BY <2>1 DEF SettleMultiSpecies
    <3>2. msx' \in {"Absent", "Skipped"} \/ (noticed /\ msx' \in {"Absent", "Cancelled"})
      BY <1>2, <3>1 DEF SettledMsx
    <3>3. msx' \in Terminal \union {"Absent"} /\ (~noticed => msx' # "Cancelled")
      BY <3>2, StatesAreTerminal
    <3>4. QED
      BY <1>2, <1>3, <3>1, <3>3
  <2>2. CASE StartMultiSpecies
    <3>1. /\ UNCHANGED <<result, noticed>> /\ pc' = "runMultiSpecies" /\ ~result.cancelled
      BY <2>2 DEF StartMultiSpecies, CanRunMultiSpecies
    <3>2. QED
      BY <1>2, <1>3, <3>1
  <2>3. CASE RunMultiSpecies
    <3>1. PICK o :
            LET res == [result EXCEPT !.diags = AppendAll(@, o.diags)] IN
            \/ /\ noticed' = TRUE /\ msx' = "Cancelled"
               /\ result' = [res EXCEPT !.cancelled = TRUE, !.state = "Cancelled"]
            \/ /\ msx' = "Error" /\ UNCHANGED noticed
               /\ result' = [res EXCEPT !.success = FALSE, !.state = "Error"]
            \/ /\ msx' = "Success" /\ result' = res /\ UNCHANGED noticed
      BY <2>3 DEF RunMultiSpecies
    <3>2. pc = "runMultiSpecies" /\ pc' = "returned" /\ ~noticed
      BY <2>3, <1>2 DEF RunMultiSpecies
    <3> DEFINE res == [result EXCEPT !.diags = AppendAll(@, o.diags)]
    <3>3. /\ {"state", "cancelled"} \subseteq DOMAIN res /\ res.cancelled = result.cancelled
          /\ res.state = result.state
      BY <1>2
    <3> HIDE DEF res
    <3>4. CASE /\ noticed' = TRUE /\ msx' = "Cancelled"
               /\ result' = [res EXCEPT !.cancelled = TRUE, !.state = "Cancelled"]
      BY <3>2, <3>3, <3>4, StatesAreTerminal
    <3>5. CASE /\ msx' = "Error" /\ UNCHANGED noticed
               /\ result' = [res EXCEPT !.success = FALSE, !.state = "Error"]
      <4>1. /\ {"state", "cancelled"} \subseteq DOMAIN result'
            /\ result'.cancelled = result.cancelled /\ result'.state = "Error"
        BY <3>3, <3>5
      <4>2. "Error" \in Terminal
        BY StatesAreTerminal DEF Completed
      <4>3. QED
        BY <1>2, <3>2, <3>5, <4>1, <4>2
    <3>6. CASE msx' = "Success" /\ result' = res /\ UNCHANGED noticed
      <4>1. "Success" \in Terminal
        BY StatesAreTerminal DEF Completed
      <4>2. QED
        BY <1>2, <1>3, <3>2, <3>3, <3>6, <4>1
    <3>7. QED
      BY <3>1, <3>4, <3>5, <3>6 DEF res
  <2>4. QED
    BY <2>1, <2>2, <2>3
<1>5. Shape'
  <2>1. /\ \A i \in DOMAIN quality' : "state" \in DOMAIN quality'[i]
        /\ \E n \in Nat : DOMAIN quality' = 1 .. n
        /\ quality' = [i \in DOMAIN quality' |-> quality'[i]]
    BY <1>1 DEF IInv, Shape
  <2>2. pc' \in Late /\ "success" \in DOMAIN hydraulics'
    BY <1>1, <1>2 DEF Late
  <2>3. noticed' \in BOOLEAN
    BY <1>4
  <2>4. {"state", "cancelled"} \subseteq DOMAIN result'
    BY <1>4
  <2>5. QED
    BY <1>1, <2>1, <2>2, <2>3, <2>4 DEF Shape
<1>6. PhaseFits' /\ InTurn'
  BY <1>1 DEF PhaseFits, InTurn, Early, InChild
<1>7. NoticedIsCancelled' /\ MsxOpen' /\ NotYetNoticed'
  <2>1. NoticedIsCancelled'
    BY <1>4 DEF NoticedIsCancelled
  <2>2. MsxOpen' /\ NotYetNoticed'
    BY <1>1, <1>4 DEF MsxOpen, NotYetNoticed
  <2>3. QED
    BY <2>1, <2>2
<1>8. ChildrenSettled'
  BY <1>1, <1>3, <1>4 DEF ChildrenSettled
<1>9. SettledLate'
  BY <1>4, <1>8 DEF SettledLate
<1>10. QED
  BY <1>5, <1>6, <1>7, <1>9 DEF IInv

(* Steps that the invariant does not see.                                  *)
LEMMA RunStutter ==
  ASSUME IInv, UNCHANGED <<pc, phase, request, hydraulics, quality, msx, result, noticed>>
  PROVE  IInv'
BY DEF IInv, Shape, PhaseFits, NoticedIsCancelled, NotYetNoticed, MsxOpen, InTurn,
       SettledLate, ChildrenSettled

LEMMA RunStep == IInv /\ [Next]_vars => IInv'
<1> SUFFICES ASSUME IInv, [Next]_vars PROVE IInv'
  OBVIOUS
<1>1. CASE \/ EntryPoll \/ ValidateMsx \/ Prepare \/ Prepared
           \/ ConfigureHydraulics \/ SolveHydraulics \/ SolvedHydraulics
           \/ SaveHydraulics \/ SavedHydraulics
  BY <1>1, EarlyStep
<1>2. CASE ReportHydraulics
  BY <1>2, ReportStep
<1>3. CASE SkipChild
  BY <1>3, SkipStep
<1>4. CASE StartChild
  BY <1>4, StartStep
<1>5. CASE ValidateQuality \/ ConfigureQuality
  BY <1>5, ConfigureStep
<1>6. CASE SolveQuality \/ SolvedQuality
  BY <1>6, SolveStep
<1>7. CASE ReportQuality
  BY <1>7, ReportQualityStep
<1>8. CASE FinishExecutor
  BY <1>8, FinishStep
<1>9. CASE SettleMultiSpecies \/ StartMultiSpecies \/ RunMultiSpecies
  BY <1>9, MultiSpeciesStep
<1>10. CASE RequestCancel \/ UNCHANGED vars
  <2>1. UNCHANGED <<pc, phase, request, hydraulics, quality, msx, result, noticed>>
    BY <1>10 DEF RequestCancel, vars
  <2>2. QED
    BY <2>1, RunStutter
<1>11. QED
  BY <1>1, <1>2, <1>3, <1>4, <1>5, <1>6, <1>7, <1>8, <1>9, <1>10 DEF Next

(* Whichever return EpanetRunner::run takes, with any number of quality    *)
(* runs, every part of its result has a final state that fits the others.  *)
THEOREM RunsAreSettled == Spec => []Settlement
<1>1. IInv => Settlement
  <2> SUFFICES ASSUME IInv, pc = "returned" PROVE Settlement
    BY DEF Settlement
  <2>1. /\ ChildrenSettled /\ result.state \in Terminal \ {"Skipped"}
        /\ result.state = "Cancelled" <=> noticed
    BY DEF IInv, SettledLate, Late
  <2>2. /\ msx \in Terminal \union {"Absent"}
        /\ ~noticed => msx # "Cancelled"
    BY DEF IInv, MsxOpen
  <2>3. result.cancelled <=> noticed
    BY DEF IInv, NoticedIsCancelled
  <2>4. QED
    BY <2>1, <2>2, <2>3 DEF Settlement, ChildrenSettled
<1>2. QED
  BY <1>1, RunInit, RunStep, PTL DEF Spec

-----------------------------------------------------------------------------
(* Lists of diagnostics: appending by induction. *)

(* What is true of 0 and passes from n to n + 1 is true of every n.        *)
LEMMA SetInduction ==
  ASSUME NEW T, 0 \in T, \A n \in Nat : n \in T => n + 1 \in T
  PROVE  \A n \in Nat : n \in T
<1> DEFINE R == OpToRel(<, Nat)
           B == {n \in Nat : n \notin T}
<1>1. IsWellFoundedOn(R, Nat)
  BY NatLessThanWellFounded
<1>2. \A x, y \in Nat : <<x, y>> \in R <=> x < y
  BY DEF OpToRel
<1> HIDE DEF R
<1>3. SUFFICES ASSUME B # {} PROVE FALSE
  OBVIOUS
<1>4. B \subseteq Nat
  OBVIOUS
<1> HIDE DEF B
<1>5. PICK x \in B : \A y \in B : ~ (<<y, x>> \in R)
  BY <1>1, <1>3, <1>4, WFMin
<1>6. x \in Nat /\ x \notin T /\ x # 0
  BY <1>5 DEF B
<1>7. x - 1 \in Nat /\ x - 1 < x
  BY <1>6
<1>8. x - 1 \in T
  BY <1>2, <1>5, <1>6, <1>7 DEF B
<1>9. QED
  BY <1>6, <1>7, <1>8

(* SetToSeq lists the elements of a finite set, and nothing else.          *)
LEMMA SetToSeqLists ==
  ASSUME NEW S, IsFiniteSet(S)
  PROVE  /\ SetToSeq(S) \in Seq(S)
         /\ S = {SetToSeq(S)[i] : i \in 1 .. Len(SetToSeq(S))}
<1> DEFINE n == Cardinality(S)
           s == SetToSeq(S)
<1>1. n \in Nat /\ ExistsBijection(1 .. n, S)
  BY FS_CardinalityType
<1>2. \E f \in [1 .. n -> S] : IsInjective(f)
  BY <1>1 DEF ExistsBijection, Bijection, Injection
<1>3. s \in [1 .. n -> S] /\ IsInjective(s)
  BY <1>2 DEF SetToSeq
<1>4. s \in Injection(1 .. n, S)
  BY <1>3 DEF Injection
<1>5. IsFiniteSet(1 .. n) /\ Cardinality(1 .. n) = n
  <2>1. n < 1 => n = 0
    BY <1>1
  <2>2. Cardinality(1 .. n) = IF 1 <= n THEN n - 1 + 1 ELSE 0
    BY <1>1, FS_Interval
  <2>3. QED
    BY <1>1, <2>1, <2>2, FS_Interval
<1> HIDE DEF n, s
<1>6. Cardinality(1 .. n) = Cardinality(S)
  BY <1>5 DEF n
<1>7. s \in Surjection(1 .. n, S)
  BY <1>4, <1>6, FS_Injection
<1>8. s \in Seq(S) /\ Len(s) = n
  BY <1>1, <1>3
<1>9. \A e \in S : \E i \in 1 .. n : s[i] = e
  BY <1>7 DEF Surjection
<1>10. S = {s[i] : i \in 1 .. Len(s)}
  BY <1>3, <1>8, <1>9
<1>11. QED
  BY <1>8, <1>10 DEF s

(* What a list of diagnostics has from position begin on.                  *)
From(s, begin) == {s[i] : i \in begin .. Len(s)}

(* Everything in ds is said by something in list.                          *)
Covers(list, ds) == \A d \in ds : \E e \in list : Equivalent(e, d)

LEMMA AppendsOne ==
  ASSUME NEW list, NEW d
  PROVE  /\ list \subseteq AppendIfUnique(list, d)
         /\ AppendIfUnique(list, d) \subseteq list \union {d}
         /\ \E e \in AppendIfUnique(list, d) : Equivalent(e, d)
BY DEF AppendIfUnique, Equivalent

(* Appending drops nothing, adds nothing of its own and leaves nothing     *)
(* unsaid: by induction on how far the loop has come.                      *)
LEMMA AppendFromGrows ==
  ASSUME NEW list, NEW D, NEW source \in Seq(D), NEW begin \in Nat
  PROVE  /\ list \subseteq AppendFrom(list, source, begin)
         /\ AppendFrom(list, source, begin) \subseteq list \union From(source, begin)
         /\ Covers(AppendFrom(list, source, begin), From(source, begin))
<1> DEFINE N == Len(source)
           added == {source[i] : i \in begin .. N}
           IsGrown(g, m) == g = [i \in begin .. m |->
              IF i = begin THEN list ELSE AppendIfUnique(g[i - 1], source[i - 1])]
           grown == CHOOSE g : IsGrown(g, N + 1)
<1>1. N \in Nat
  OBVIOUS
<1>2. AppendFrom(list, source, begin) = IF begin > N THEN list ELSE grown[N + 1]
  BY DEF AppendFrom
<1> HIDE DEF N
<1>3. CASE begin > N
  <2>1. begin .. N = {}
    BY <1>1, <1>3
  <2>2. added = {} /\ AppendFrom(list, source, begin) = list
    BY <1>2, <1>3, <2>1
  <2>3. QED
    BY <2>2 DEF Covers, From, N
<1>4. CASE begin <= N
  <2> DEFINE T == {n \in Nat : \E g : IsGrown(g, begin + n)}
  <2>1. 0 \in T
    <3>1. IsGrown([i \in begin .. begin |-> list], begin + 0)
      OBVIOUS
    <3>2. QED
      BY <3>1
  <2>2. \A n \in Nat : n \in T => n + 1 \in T
    <3>1. SUFFICES ASSUME NEW n \in Nat, NEW g, IsGrown(g, begin + n)
          PROVE  \E h : IsGrown(h, begin + n + 1)
      BY DEF T
    <3> DEFINE h == [i \in begin .. begin + n + 1 |->
                       IF i = begin + n + 1 THEN AppendIfUnique(g[i - 1], source[i - 1])
                       ELSE g[i]]
    <3>2. \A i \in begin .. begin + n : g[i] =
            IF i = begin THEN list ELSE AppendIfUnique(g[i - 1], source[i - 1])
      BY <3>1
    <3>3. \A i \in begin .. begin + n + 1 : h[i] =
            IF i = begin THEN list ELSE AppendIfUnique(h[i - 1], source[i - 1])
      BY <3>2
    <3>4. IsGrown(h, begin + n + 1)
      BY <3>3
    <3>5. QED
      BY <3>4
  <2> HIDE DEF T
  <2>3. N + 1 - begin \in T
    <3>1. N + 1 - begin \in Nat
      BY <1>1, <1>4
    <3>2. QED
      BY <2>1, <2>2, <3>1, SetInduction
  <2>4. IsGrown(grown, N + 1)
    <3>1. begin + (N + 1 - begin) = N + 1
      BY <1>1
    <3>2. \E g : IsGrown(g, N + 1)
      BY <2>3, <3>1 DEF T
    <3>3. QED
      BY <3>2
  <2> HIDE DEF grown
  <2>5. \A i \in begin .. N + 1 : grown[i] =
          IF i = begin THEN list ELSE AppendIfUnique(grown[i - 1], source[i - 1])
    BY <2>4
  <2> DEFINE Upto(n) == {source[i] : i \in begin .. begin + n - 1}
             G(n) == grown[begin + n]
             U == {n \in Nat : begin + n <= N + 1 =>
                     /\ list \subseteq G(n)
                     /\ G(n) \subseteq list \union Upto(n)
                     /\ Covers(G(n), Upto(n))}
  <2>6. 0 \in U
    <3>1. G(0) = list /\ Upto(0) = {}
      BY <1>1, <1>4, <2>5
    <3>2. QED
      BY <3>1 DEF Covers
  <2>7. \A n \in Nat : n \in U => n + 1 \in U
    <3>1. SUFFICES ASSUME NEW n \in Nat, n \in U, begin + (n + 1) <= N + 1
          PROVE  /\ list \subseteq G(n + 1)
                 /\ G(n + 1) \subseteq list \union Upto(n + 1)
                 /\ Covers(G(n + 1), Upto(n + 1))
      <4> HIDE DEF G, Upto
      <4>1. QED
        BY <1>1 DEF U
    <3> DEFINE d == source[begin + n]
    <3>2. G(n + 1) = AppendIfUnique(G(n), d)
      BY <1>1, <2>5, <3>1
    <3>3. Upto(n + 1) = Upto(n) \union {d}
      <4>1. begin .. begin + (n + 1) - 1 = (begin .. begin + n - 1) \union {begin + n}
        OBVIOUS
      <4>2. QED
        BY <4>1
    <3>4. /\ list \subseteq G(n) /\ G(n) \subseteq list \union Upto(n)
          /\ Covers(G(n), Upto(n))
      BY <1>1, <3>1
    <3> HIDE DEF G, Upto, d
    <3>5. QED
      BY <3>2, <3>3, <3>4, AppendsOne DEF Covers
  <2> HIDE DEF U
  <2>8. N + 1 - begin \in Nat /\ N + 1 - begin \in U
    <3>1. N + 1 - begin \in Nat
      BY <1>1, <1>4
    <3>2. QED
      BY <2>6, <2>7, <3>1, SetInduction
  <2>9. begin + (N + 1 - begin) = N + 1
    BY <1>1
  <2>10. Upto(N + 1 - begin) = added /\ G(N + 1 - begin) = AppendFrom(list, source, begin)
    BY <1>1, <1>2, <1>4, <2>9
  <2> HIDE DEF G, Upto, added
  <2>11. /\ list \subseteq G(N + 1 - begin)
         /\ G(N + 1 - begin) \subseteq list \union Upto(N + 1 - begin)
         /\ Covers(G(N + 1 - begin), Upto(N + 1 - begin))
    BY <1>1, <2>8, <2>9 DEF U
  <2>12. QED
    BY <2>10, <2>11 DEF N, added, From
<1>5. QED
  BY <1>1, <1>3, <1>4

LEMMA DiagnosticsAreFinite == \A ds \in SUBSET Diagnostics : IsFiniteSet(ds)
<1> DEFINE P == Severities \X StageNames
           f == [p \in P |-> [severity |-> p[1], stage |-> p[2]]]
<1>1. IsFiniteSet(Severities) /\ IsFiniteSet(StageNames)
  <2>1. IsFiniteSet({}) /\ \A S, x : IsFiniteSet(S) => IsFiniteSet(S \union {x})
    BY FS_EmptySet, FS_AddElement
  <2>2. Severities = (({} \union {"Warning"}) \union {"Error"}) \union {"Fatal"}
    BY DEF Severities
  <2>3. StageNames = (((((((({} \union {"RunHydraulics"}) \union {"CloseHydraulics"})
          \union {"RunQuality"}) \union {"CloseQuality"}) \union {"Configure"})
          \union {"SaveHydraulics"}) \union {"GenerateReport"}) \union {"RunMultiSpecies"})
          \union {"CloseMultiSpecies"}
    BY DEF StageNames, SolverStages
  <2>4. IsFiniteSet(Severities)
    BY <2>1, <2>2
  <2>5. IsFiniteSet(StageNames)
    BY <2>1, <2>3
  <2>6. QED
    BY <2>4, <2>5
<1>2. IsFiniteSet(P)
  BY <1>1, FS_Product
<1>3. f \in Surjection(P, Diagnostics)
  <2>1. f \in [P -> Diagnostics]
    BY DEF Diagnostics
  <2>2. ASSUME NEW d \in Diagnostics PROVE \E p \in P : f[p] = d
    <3>1. <<d.severity, d.stage>> \in P /\ d = [severity |-> d.severity, stage |-> d.stage]
      BY DEF Diagnostics
    <3>2. f[<<d.severity, d.stage>>] = d
      BY <3>1
    <3>3. QED
      BY <3>1, <3>2
  <2>3. QED
    BY <2>1, <2>2 DEF Surjection
<1>4. IsFiniteSet(Diagnostics)
  BY <1>2, <1>3, FS_Surjection
<1>5. QED
  BY <1>4, FS_Subset

LEMMA AppendAllGrows ==
  ASSUME NEW list, NEW ds \in SUBSET Diagnostics
  PROVE  /\ list \subseteq AppendAll(list, ds)
         /\ AppendAll(list, ds) \subseteq list \union ds
         /\ Covers(AppendAll(list, ds), ds)
<1> DEFINE s == SetToSeq(ds)
<1>1. s \in Seq(ds) /\ ds = {s[i] : i \in 1 .. Len(s)}
  BY DiagnosticsAreFinite, SetToSeqLists
<1>2. AppendAll(list, ds) = AppendFrom(list, s, 1)
  BY DEF AppendAll
<1> HIDE DEF s
<1>3. From(s, 1) = ds
  BY <1>1 DEF From
<1>4. ASSUME NEW b \in Nat
      PROVE  /\ list \subseteq AppendFrom(list, s, b)
             /\ AppendFrom(list, s, b) \subseteq list \union From(s, b)
             /\ Covers(AppendFrom(list, s, b), From(s, b))
  BY <1>1, AppendFromGrows
<1>5. QED
  BY <1>2, <1>3, <1>4

(* The project's list after one more step has spoken.                      *)
LEMMA SpokenIsAdded ==
  ASSUME NEW s \in Seq(Diagnostics), NEW ds \in SUBSET Diagnostics,
         NEW begin \in 1 .. Len(s) + 1
  PROVE  /\ s \o SetToSeq(ds) \in Seq(Diagnostics)
         /\ Len(s) <= Len(s \o SetToSeq(ds))
         /\ From(s \o SetToSeq(ds), begin) = From(s, begin) \union ds
<1> DEFINE t == SetToSeq(ds)
<1>1. t \in Seq(ds) /\ ds = {t[i] : i \in 1 .. Len(t)}
  BY DiagnosticsAreFinite, SetToSeqLists
<1> HIDE DEF t
<1>2. t \in Seq(Diagnostics)
  BY <1>1
<1>3. /\ s \o t \in Seq(Diagnostics) /\ Len(s \o t) = Len(s) + Len(t)
      /\ Len(s) \in Nat /\ Len(t) \in Nat
      /\ \A i \in 1 .. Len(s) + Len(t) : (s \o t)[i] = IF i <= Len(s) THEN s[i]
                                                        ELSE t[i - Len(s)]
  BY <1>2
<1>4. From(s \o t, begin) \subseteq From(s, begin) \union ds
  <2>1. SUFFICES ASSUME NEW i \in begin .. Len(s) + Len(t)
        PROVE  (s \o t)[i] \in From(s, begin) \union ds
    BY <1>3 DEF From
  <2>2. CASE i <= Len(s)
    BY <1>3, <2>2 DEF From
  <2>3. CASE i > Len(s)
    <3>1. i - Len(s) \in 1 .. Len(t) /\ (s \o t)[i] = t[i - Len(s)]
      BY <1>3, <2>3
    <3>2. QED
      BY <1>1, <3>1
  <2>4. QED
    BY <1>3, <2>2, <2>3
<1>5. From(s, begin) \subseteq From(s \o t, begin)
  <2>1. SUFFICES ASSUME NEW i \in begin .. Len(s) PROVE s[i] \in From(s \o t, begin)
    BY DEF From
  <2>2. i \in begin .. Len(s \o t) /\ (s \o t)[i] = s[i]
    BY <1>3
  <2>3. QED
    BY <2>2 DEF From
<1>6. ds \subseteq From(s \o t, begin)
  <2>1. SUFFICES ASSUME NEW i \in 1 .. Len(t) PROVE t[i] \in From(s \o t, begin)
    BY <1>1
  <2>2. Len(s) + i \in begin .. Len(s \o t) /\ (s \o t)[Len(s) + i] = t[i]
    BY <1>3
  <2>3. QED
    BY <2>2 DEF From
<1>7. QED
  BY <1>3, <1>4, <1>5, <1>6 DEF t

-----------------------------------------------------------------------------
(* What the settled parts say.  The second inductive invariant has the     *)
(* types, where the diagnostics of a phase are until they are in the       *)
(* result, and what the parts of the result know of each other.            *)

Start  == {"entry", "validateMsx", "prepare", "prepared"}
InHyd  == Early \ Start
Middle == InChild \union {"nextChild"}

HydraulicResults ==
    [success : BOOLEAN, validity : Validities, nonempty : BOOLEAN, complete : BOOLEAN,
     diags : SUBSET Diagnostics, report : SUBSET Phases]
ChildResults ==
    [state : RunStates, success : BOOLEAN, validity : Validities, nonempty : BOOLEAN,
     complete : BOOLEAN, diags : SUBSET Diagnostics, report : SUBSET Phases]
RestOfResult ==
    [state : RunStates, cancelled : BOOLEAN, success : BOOLEAN, diags : SUBSET Diagnostics]

RunTypes ==
    /\ request.msx \in BOOLEAN
    /\ DOMAIN request.quality = DOMAIN quality
    /\ \A i \in DOMAIN quality : i \in 1 .. MaxQuality
    /\ \A i \in DOMAIN quality : request.quality[i] \in {"None", "Active"}
    /\ hydraulics \in HydraulicResults
    /\ quality \in [DOMAIN quality -> ChildResults]
    /\ result \in RestOfResult
    /\ project \in Seq(Diagnostics)
    /\ checkpoint \in 0 .. Len(project)
    /\ collector \in SUBSET Phases
    /\ file \in BOOLEAN /\ prepared \in BOOLEAN
    /\ phase \in Phases
    /\ emitted \in [Phases -> SUBSET Diagnostics]

(* Whose diagnostics the shared list has since the checkpoint, and whose   *)
(* lines the shared collector.                                             *)
Sources ==
    /\ pc \in {"entry", "validateMsx", "prepare"} => ~prepared
    /\ pc \in InHyd \union Middle => prepared
    /\ pc \in Start => hydraulics.diags = {} /\ From(project, 1) \subseteq emitted[Preparing]
    /\ pc \in InHyd \union (InChild \ {"validateQuality"}) =>
         From(project, checkpoint + 1) \subseteq emitted[phase]
    /\ pc \in Early => collector \subseteq {Hydraulics}
    /\ pc \in InChild => collector \subseteq {phase}
    /\ pc \in Middle => hydraulics.report # Unreported

(* Phases to come have said nothing; those that are over are in the        *)
(* result, the current one where the code collects it.                     *)
Reaches ==
    /\ \A p \in Phases : p > phase \/ (p = phase /\ pc = "nextChild") => emitted[p] = {}
    /\ \A p \in Phases : p # phase \/ pc \in Late => Covers(result.diags, emitted[p])
    /\ pc \in Start => Covers(From(project, 1), emitted[phase])
    /\ pc \in InHyd => Covers(hydraulics.diags, emitted[phase])
    /\ pc \in InChild => Covers(quality[phase].diags, emitted[phase])

(* The hydraulic results from the solver's return on.                      *)
HydraulicsKnown ==
    /\ pc \in Early \ {"reportHydraulics"} => hydraulics.validity = "NotRun"
    /\ pc \in Early => ~HasError(hydraulics.diags) /\ ~HasError(emitted[Hydraulics])
    /\ pc \in {"saveHydraulics", "savedHydraulics", "reportHydraulics"} \union Middle =>
         hydraulics.complete /\ hydraulics.nonempty
    /\ pc = "reportHydraulics" => hydraulics.success
    /\ pc \in {"reportHydraulics"} \union Middle => hydraulics.validity = "Valid"
    /\ pc \in Middle /\ ~hydraulics.success => HasError(result.diags)
    /\ pc \in {"savedHydraulics", "reportHydraulics"} \union Middle =>
         (request.msx /\ ~file /\ (hydraulics.success \/ pc \in Middle) => emitted[Hydraulics] # {})

(* What the state of a child says, and a failure nobody hides.             *)
ChildrenKnown ==
    /\ ~result.success => HasError(result.diags)
    /\ \A i \in DOMAIN quality :
         /\ quality[i].state = "Success" =>
              quality[i].success /\ quality[i].complete /\ quality[i].validity = "Valid"
         /\ quality[i].state = "Error" => HasError(result.diags)
         /\ quality[i].state = "Warning" => HasWarning(result.diags)
    /\ pc = "reportQuality" =>
         IF quality[phase].success THEN quality[phase].complete /\ quality[phase].nonempty
         ELSE HasError(quality[phase].diags)

(* The multi-species run is planned with the request.                      *)
MsxPlanned ==
    /\ pc = "entry" => msx = "Absent"
    /\ pc \in (Early \ {"entry"}) \union Middle \union {"multiSpecies"} =>
         msx = IF request.msx THEN "Pending" ELSE "Absent"
    /\ pc = "runMultiSpecies" => msx = "Running" /\ phase = MultiSpecies /\ ~result.cancelled

Meaning ==
    pc \in Late =>
      /\ result.state = "Success" =>
           /\ result.success /\ result.diags = {}
           /\ hydraulics.success /\ hydraulics.complete /\ hydraulics.validity = "Valid"
           /\ \A i \in DOMAIN quality : request.quality[i] = "Active" =>
                quality[i].state = "Success"
           /\ request.msx /\ pc = "multiSpecies" => file
           /\ request.msx /\ pc = "returned" => msx = "Success"
      /\ ~result.success => result.state \in {"Error", "Cancelled"}
      /\ result.state = "Error" => HasError(result.diags)
      /\ pc = "multiSpecies" /\ ~result.cancelled /\ hydraulics.success =>
           hydraulics.validity = "Valid"

Known ==
    /\ RunTypes
    /\ KeptApart
    /\ Sources
    /\ Reaches
    /\ HydraulicsKnown
    /\ ChildrenKnown
    /\ MsxPlanned
    /\ Meaning

RInv == IInv /\ Known

-----------------------------------------------------------------------------
LEMMA PhaseNumbers ==
  /\ Phases \subseteq Int /\ Preparing = -1 /\ Hydraulics = 0
  /\ MultiSpecies \in Int /\ MultiSpecies >= 1 /\ MaxQuality \in Nat
  /\ MultiSpecies = MaxQuality + 1
  /\ \A p : p \in Phases <=> p \in Int /\ -1 <= p /\ p <= MaxQuality + 1
BY BoundsAssumption DEF Phases, Preparing, Hydraulics, MultiSpecies

LEMMA CoversMore ==
  ASSUME NEW list, NEW ds, Covers(list, ds), NEW more, list \subseteq more
  PROVE  Covers(more, ds)
BY DEF Covers

LEMMA CoversBoth ==
  ASSUME NEW list, NEW ds, Covers(list, ds), NEW es, Covers(list, es)
  PROVE  Covers(list, ds \union es)
BY DEF Covers

LEMMA CoversThrough ==
  ASSUME NEW list, NEW ds, Covers(list, ds), NEW more, Covers(more, list)
  PROVE  Covers(more, ds)
BY DEF Covers, Equivalent

LEMMA CoversItself == \A ds : Covers(ds, ds)
BY DEF Covers, Equivalent

(* Something equivalent to an error is an error.                           *)
LEMMA CoversTrouble ==
  ASSUME NEW list \in SUBSET Diagnostics, NEW ds \in SUBSET Diagnostics, Covers(list, ds)
  PROVE  /\ HasError(ds) => HasError(list)
         /\ HasWarning(ds) => HasWarning(list)
         /\ ds # {} => list # {}
<1>1. \A d \in Diagnostics : d.severity \in {"Warning", "Error", "Fatal"}
  BY DEF Diagnostics, Severities
<1>2. HasError(ds) => HasError(list)
  <2>1. SUFFICES ASSUME NEW d \in ds, d.severity \in {"Error", "Fatal"} PROVE HasError(list)
    BY DEF HasError
  <2>2. PICK e \in list : Equivalent(e, d)
    BY DEF Covers
  <2>3. e.severity \in {"Error", "Fatal"}
    BY <1>1, <2>1, <2>2 DEF Equivalent
  <2>4. QED
    BY <2>3 DEF HasError
<1>3. HasWarning(ds) => HasWarning(list)
  BY DEF HasWarning, Covers, Equivalent
<1>4. QED
  BY <1>2, <1>3 DEF Covers

(* A list without an error or a warning is empty.                          *)
LEMMA NothingToSay ==
  ASSUME NEW list \in SUBSET Diagnostics, ~HasError(list), ~HasWarning(list)
  PROVE  list = {}
<1>1. \A d \in Diagnostics : d.severity \in {"Warning", "Error", "Fatal"}
  BY DEF Diagnostics, Severities
<1>2. QED
  BY <1>1 DEF HasError, HasWarning

LEMMA TroubleStays ==
  ASSUME NEW list, NEW more, list \subseteq more
  PROVE  (HasError(list) => HasError(more)) /\ (HasWarning(list) => HasWarning(more))
BY DEF HasError, HasWarning

LEMMA Diagnosed ==
  ASSUME NEW severity \in Severities, NEW stage \in StageNames
  PROVE  Diag(severity, stage) \in Diagnostics
BY DEF Diag, Diagnostics

LEMMA RemarksAreDiagnostics ==
  ASSUME NEW success, NEW stage \in StageNames, NEW ds \in Remarks(success, stage)
  PROVE  /\ ds \in SUBSET Diagnostics
         /\ \A d \in ds : d.stage = stage
         /\ ~success => HasError(ds)
<1>1. /\ Diag("Warning", stage) \in Diagnostics /\ Diag("Error", stage) \in Diagnostics
      /\ Diag("Warning", stage).stage = stage /\ Diag("Error", stage).stage = stage
      /\ Diag("Error", stage).severity = "Error"
  BY Diagnosed DEF Severities, Diag
<1>2. QED
  BY <1>1 DEF Remarks, HasError

(* What a step records is in the history of its phase, and nowhere else.   *)
LEMMA Recorded ==
  ASSUME RunTypes, NEW ds \in SUBSET Diagnostics, Record(ds)
  PROVE  /\ emitted' \in [Phases -> SUBSET Diagnostics]
         /\ emitted'[phase] = emitted[phase] \union ds
         /\ \A p \in Phases : p # phase => emitted'[p] = emitted[p]
BY DEF RunTypes, Record

(* SinceCheckpoint after a step has spoken.                                *)
LEMMA Speaks ==
  ASSUME RInv, pc \in InHyd \union (InChild \ {"validateQuality"}),
         NEW list \in SUBSET Diagnostics, NEW ds \in SUBSET Diagnostics,
         project' = project \o SetToSeq(ds), UNCHANGED checkpoint
  PROVE  /\ list \subseteq SinceCheckpoint(list)
         /\ SinceCheckpoint(list) \subseteq list \union emitted[phase] \union ds
         /\ SinceCheckpoint(list) \in SUBSET Diagnostics
         /\ Covers(SinceCheckpoint(list), ds)
         /\ project' \in Seq(Diagnostics)
         /\ checkpoint' \in 0 .. Len(project')
         /\ From(project', checkpoint' + 1) \subseteq emitted[phase] \union ds
<1>1. /\ project \in Seq(Diagnostics) /\ checkpoint \in 0 .. Len(project)
      /\ emitted[phase] \in SUBSET Diagnostics
  BY DEF RInv, Known, RunTypes
<1>2. From(project, checkpoint + 1) \subseteq emitted[phase]
  BY DEF RInv, Known, Sources
<1>3. checkpoint + 1 \in 1 .. Len(project) + 1 /\ checkpoint + 1 \in Nat
  BY <1>1
<1>4. /\ project' \in Seq(Diagnostics)
      /\ Len(project) <= Len(project')
      /\ From(project', checkpoint + 1) = From(project, checkpoint + 1) \union ds
  BY <1>1, <1>3, SpokenIsAdded
<1>5. /\ list \subseteq AppendFrom(list, project', checkpoint + 1)
      /\ AppendFrom(list, project', checkpoint + 1)
           \subseteq list \union From(project', checkpoint + 1)
      /\ Covers(AppendFrom(list, project', checkpoint + 1), From(project', checkpoint + 1))
  BY <1>3, <1>4, AppendFromGrows
<1>6. checkpoint' \in 0 .. Len(project')
  BY <1>1, <1>4
<1>7. Covers(SinceCheckpoint(list), ds)
  BY <1>4, <1>5 DEF SinceCheckpoint, Covers
<1>8. QED
  BY <1>1, <1>2, <1>4, <1>5, <1>6, <1>7 DEF SinceCheckpoint

LEMMA EmptyLists ==
  /\ ~HasError({}) /\ ~HasWarning({})
  /\ \A list : Covers(list, {})
BY DEF HasError, HasWarning, Covers

LEMMA KnownInit == Init => Known
<1> SUFFICES ASSUME Init PROVE Known
  OBVIOUS
<1>1. PICK n \in 0 .. MaxQuality : request.quality \in [1 .. n -> {"None", "Active"}]
  BY DEF Init
<1>2. /\ pc = "entry" /\ phase = Preparing /\ project = <<>> /\ checkpoint = 0
      /\ collector = {} /\ file = FALSE /\ prepared = FALSE /\ msx = "Absent"
      /\ emitted = [p \in Phases |-> {}]
  BY DEF Init
<1>3. /\ hydraulics = [success |-> TRUE, validity |-> "NotRun", nonempty |-> FALSE,
                       complete |-> FALSE, diags |-> {}, report |-> Unreported]
      /\ result = [state |-> "Pending", cancelled |-> FALSE, success |-> TRUE, diags |-> {}]
  BY DEF Init
<1>4. /\ DOMAIN quality = 1 .. n /\ DOMAIN request.quality = 1 .. n
      /\ quality = [i \in 1 .. n |->
                    [state |-> "Pending", success |-> TRUE, validity |-> "NotRun",
                     nonempty |-> FALSE, complete |-> FALSE, diags |-> {},
                     report |-> Unreported]]
  BY <1>1 DEF Init
<1>5. Unreported \in SUBSET Phases /\ phase \in Phases
  BY <1>2, PhaseNumbers DEF Unreported
<1>6. From(project, 1) = {}
  BY <1>2 DEF From
<1>7. RunTypes
  <2>1. hydraulics \in HydraulicResults
    BY <1>3, <1>5 DEF HydraulicResults, Validities
  <2>2. quality \in [DOMAIN quality -> ChildResults]
    BY <1>4, <1>5 DEF ChildResults, Validities, RunStates
  <2>3. result \in RestOfResult
    BY <1>3 DEF RestOfResult, RunStates
  <2>4. /\ request.msx \in BOOLEAN /\ DOMAIN request.quality = DOMAIN quality
        /\ \A i \in DOMAIN quality : i \in 1 .. MaxQuality
        /\ \A i \in DOMAIN quality : request.quality[i] \in {"None", "Active"}
    <3>1. request.msx \in BOOLEAN
      BY DEF Init
    <3>2. \A i \in DOMAIN quality : i \in 1 .. MaxQuality
      BY <1>4, PhaseNumbers
    <3>3. QED
      BY <1>1, <1>4, <3>1, <3>2
  <2>5. project \in Seq(Diagnostics) /\ checkpoint \in 0 .. Len(project)
    BY <1>2
  <2>6. file \in BOOLEAN /\ prepared \in BOOLEAN
    BY <1>2
  <2>7. QED
    BY <1>2, <1>5, <2>1, <2>2, <2>3, <2>4, <2>5, <2>6 DEF RunTypes
<1>8. KeptApart
  BY <1>2, <1>3, <1>4 DEF KeptApart
<1>9. Sources
  BY <1>2, <1>3, <1>6 DEF Sources, Start, InHyd, Early, Middle, InChild
<1>10. Reaches
  <2>1. \A p \in Phases : emitted[p] = {}
    BY <1>2
  <2>2. /\ Covers(From(project, 1), emitted[phase])
        /\ \A p \in Phases : Covers(result.diags, emitted[p])
    BY <1>5, <2>1, EmptyLists
  <2>3. QED
    BY <1>2, <2>1, <2>2 DEF Reaches, Start, InHyd, Early, InChild
<1>11. HydraulicsKnown
  <2>1. Hydraulics \in Phases
    BY PhaseNumbers
  <2>2. emitted[Hydraulics] = {} /\ hydraulics.diags = {} /\ hydraulics.validity = "NotRun"
    BY <1>2, <1>3, <2>1
  <2>3. ~HasError(hydraulics.diags) /\ ~HasError(emitted[Hydraulics])
    BY <2>2, EmptyLists
  <2>4. QED
    BY <1>2, <2>2, <2>3 DEF HydraulicsKnown, Early, Middle, InChild
<1>12. ChildrenKnown /\ MsxPlanned /\ Meaning
  BY <1>2, <1>3, <1>4 DEF ChildrenKnown, MsxPlanned, Meaning, Early, Middle, Late, InChild
<1>13. QED
  BY <1>7, <1>8, <1>9, <1>10, <1>11, <1>12 DEF Known

(* Steps before the toolkit's project is built.                            *)
LEMMA StartKnown ==
  ASSUME RInv, pc \in {"entry", "validateMsx"}, pc' \in {"validateMsx", "prepare"},
         msx' = IF request.msx THEN "Pending" ELSE "Absent",
         UNCHANGED <<phase, request, project, artifacts, hydraulics, quality, result, emitted>>
  PROVE  Known'
<1> USE DEF artifacts
<1>1. RunTypes' /\ KeptApart'
  <2>1. RunTypes'
    BY DEF RInv, Known, RunTypes
  <2>2. KeptApart'
    BY DEF RInv, Known, KeptApart
  <2>3. QED
    BY <2>1, <2>2
<1>2. Sources'
  BY DEF RInv, Known, Sources, Start, InHyd, Early, Middle, InChild
<1>3. Reaches'
  BY DEF RInv, Known, Reaches, Start, InHyd, Early, InChild, Late
<1>4. HydraulicsKnown' /\ ChildrenKnown'
  BY DEF RInv, Known, HydraulicsKnown, ChildrenKnown, Early, Middle, InChild
<1>5. MsxPlanned' /\ Meaning'
  BY DEF RInv, Known, MsxPlanned, Meaning, Early, Middle, Late, InChild
<1>6. QED
  BY <1>1, <1>2, <1>3, <1>4, <1>5 DEF Known

(* What may be emitted before the first child.                             *)
LEMMA EarlyPhase ==
  ASSUME RInv, pc \in Early
  PROVE  /\ phase = IF pc \in Start THEN Preparing ELSE Hydraulics
         /\ phase \in Phases /\ Hydraulics \in Phases /\ Preparing \in Phases
         /\ \A i \in DOMAIN quality : i \in Phases /\ i # phase /\ i >= 1
         /\ \A i \in DOMAIN quality : quality[i].state = "Pending"
         /\ result.cancelled = FALSE /\ noticed = FALSE
<1>1. phase = IF pc \in Start THEN Preparing ELSE Hydraulics
  BY DEF RInv, IInv, PhaseFits, Start
<1>2. phase \in Phases /\ Hydraulics \in Phases /\ Preparing \in Phases
  BY <1>1, PhaseNumbers
<1>3. \A i \in DOMAIN quality : i \in Phases /\ i # phase /\ i >= 1
  <2>1. \A i \in DOMAIN quality : i \in 1 .. MaxQuality
    BY DEF RInv, Known, RunTypes
  <2>2. QED
    BY <1>1, <2>1, PhaseNumbers
<1>4. \A i \in DOMAIN quality : quality[i].state = "Pending"
  BY DEF RInv, IInv, InTurn
<1>5. noticed = FALSE
  <2>1. noticed \in BOOLEAN
    BY DEF RInv, IInv, Shape
  <2>2. ~noticed
    BY DEF RInv, IInv, NotYetNoticed, Early
  <2>3. QED
    BY <2>1, <2>2
<1>6. result.cancelled = FALSE
  BY <1>5 DEF RInv, IInv, NoticedIsCancelled
<1>7. QED
  BY <1>1, <1>2, <1>3, <1>4, <1>5, <1>6

LEMMA PrepareKnown ==
  ASSUME RInv, Prepare
  PROVE  Known'
<1>1. /\ pc = "prepare" /\ pc' = "prepared" /\ pc \in Early
      /\ UNCHANGED <<phase, request, checkpoint, collector, file, hydraulics, quality, msx,
                     result>>
  BY DEF Prepare, Early
<1>2. /\ phase = Preparing /\ phase \in Phases /\ Hydraulics \in Phases
      /\ Preparing # Hydraulics
      /\ \A i \in DOMAIN quality : i \in Phases /\ i # phase /\ i >= 1
  BY <1>1, EarlyPhase, PhaseNumbers DEF Start
<1>3. PICK ds \in SUBSET {Diag("Warning", "Configure"), Diag("Error", "Configure")} :
        /\ prepared' \in BOOLEAN
        /\ Record(ds)
        /\ project' = project \o SetToSeq(ds)
  BY DEF Prepare
<1>4. ds \in SUBSET Diagnostics
  BY Diagnosed DEF Severities, StageNames
<1>5. /\ emitted' \in [Phases -> SUBSET Diagnostics]
      /\ emitted'[phase] = emitted[phase] \union ds
      /\ \A p \in Phases : p # phase => emitted'[p] = emitted[p]
  BY <1>3, <1>4, Recorded DEF RInv, Known
<1>6. /\ project' \in Seq(Diagnostics) /\ Len(project) <= Len(project')
      /\ From(project', 1) = From(project, 1) \union ds
  <2>1. project \in Seq(Diagnostics) /\ 1 \in 1 .. Len(project) + 1
    BY DEF RInv, Known, RunTypes
  <2>2. QED
    BY <1>3, <1>4, <2>1, SpokenIsAdded
<1>7. RunTypes'
  <2>1. checkpoint' \in 0 .. Len(project')
    BY <1>1, <1>6 DEF RInv, Known, RunTypes
  <2>2. QED
    BY <1>1, <1>3, <1>5, <1>6, <2>1 DEF RInv, Known, RunTypes
<1>8. KeptApart'
  <2>1. hydraulics'.diags = {}
    BY <1>1 DEF RInv, Known, Sources, Start
  <2>2. \A i \in DOMAIN quality : emitted'[i] = emitted[i]
    BY <1>2, <1>5
  <2>3. QED
    BY <1>1, <2>1, <2>2 DEF RInv, Known, KeptApart
<1>9. Sources'
  <2>1. hydraulics'.diags = {} /\ From(project', 1) \subseteq emitted'[Preparing]
    BY <1>1, <1>2, <1>5, <1>6 DEF RInv, Known, Sources, Start
  <2>2. QED
    BY <1>1, <2>1 DEF RInv, Known, Sources, InHyd, Early, Middle, InChild, Start
<1>10. Reaches'
  <2>1. Covers(From(project', 1), emitted'[phase])
    <3>1. Covers(From(project, 1), emitted[phase])
      BY <1>1 DEF RInv, Known, Reaches, Start
    <3>2. QED
      BY <3>1, <1>5, <1>6 DEF Covers, Equivalent
  <2>2. \A p \in Phases : /\ p > phase => emitted'[p] = {}
                          /\ p # phase => Covers(result.diags, emitted'[p])
    <3>1. \A p \in Phases : p > phase => p # phase
      BY <1>2, PhaseNumbers
    <3>2. QED
      BY <1>5, <3>1 DEF RInv, Known, Reaches
  <2>3. QED
    BY <1>1, <2>1, <2>2 DEF Reaches, InHyd, Early, Start, Late, InChild
<1>11. HydraulicsKnown' /\ ChildrenKnown'
  BY <1>1, <1>2, <1>5
     DEF RInv, Known, HydraulicsKnown, ChildrenKnown, Early, Middle, InChild
<1>12. MsxPlanned' /\ Meaning'
  BY <1>1 DEF RInv, Known, MsxPlanned, Meaning, Early, Middle, Late, InChild
<1>13. QED
  BY <1>7, <1>8, <1>9, <1>10, <1>11, <1>12 DEF Known

(* The project is prepared, and its diagnostics are in the result.         *)
LEMMA PreparedKnown ==
  ASSUME RInv, pc = "prepared", prepared, pc' = "configureHydraulics", phase' = Hydraulics,
         checkpoint' = Checkpoint,
         result' = [result EXCEPT !.diags = AppendFrom(@, project, 1), !.state = "Running"],
         UNCHANGED <<request, requested, project, collector, file, prepared, hydraulics,
                     quality, msx, noticed, emitted>>
  PROVE  Known'
<1>1. pc \in Early /\ pc \in Start
  BY DEF Early, Start
<1>2. /\ phase = Preparing /\ phase \in Phases /\ Hydraulics \in Phases
      /\ \A i \in DOMAIN quality : quality[i].state = "Pending"
  BY <1>1, EarlyPhase
<1>3. /\ result \in RestOfResult /\ project \in Seq(Diagnostics)
      /\ emitted \in [Phases -> SUBSET Diagnostics]
  BY DEF RInv, Known, RunTypes
<1>4. /\ result.diags \subseteq result'.diags
      /\ result'.diags \subseteq result.diags \union From(project, 1)
      /\ Covers(result'.diags, From(project, 1))
  <2>1. result'.diags = AppendFrom(result.diags, project, 1) /\ 1 \in Nat
    BY <1>3 DEF RestOfResult
  <2>2. ASSUME NEW b \in Nat
        PROVE  /\ result.diags \subseteq AppendFrom(result.diags, project, b)
               /\ AppendFrom(result.diags, project, b) \subseteq result.diags \union From(project, b)
               /\ Covers(AppendFrom(result.diags, project, b), From(project, b))
    BY <1>3, AppendFromGrows
  <2>3. QED
    BY <2>1, <2>2
<1>5. From(project, 1) \subseteq emitted[Preparing] /\ hydraulics.diags = {}
  BY <1>1 DEF RInv, Known, Sources
<1>6. result' \in RestOfResult /\ result'.success = result.success
  <2>1. AppendFrom(result.diags, project, 1) \in SUBSET Diagnostics
    <3>1. result'.diags = AppendFrom(result.diags, project, 1)
      BY <1>3 DEF RestOfResult
    <3>2. result.diags \in SUBSET Diagnostics /\ emitted[Preparing] \in SUBSET Diagnostics
      BY <1>2, <1>3 DEF RestOfResult
    <3>3. QED
      BY <1>4, <1>5, <3>1, <3>2
  <2>2. QED
    BY <1>3, <2>1 DEF RestOfResult, RunStates
<1>7. RunTypes'
  <2>1. checkpoint' \in 0 .. Len(project')
    BY <1>3 DEF Checkpoint
  <2>2. phase' \in Phases
    BY <1>2
  <2>3. QED
    BY <1>6, <2>1, <2>2 DEF RInv, Known, RunTypes
<1>8. KeptApart'
  BY DEF RInv, Known, KeptApart
<1>9. Sources'
  <2>1. From(project', checkpoint' + 1) = {}
    <3>1. (Len(project) + 1) .. Len(project) = {}
      BY <1>3
    <3>2. QED
      BY <3>1 DEF Checkpoint, From
  <2>2. QED
    BY <1>1, <2>1 DEF RInv, Known, Sources, InHyd, Early, Middle, InChild, Start
<1>10. Reaches'
  <2>1. Covers(result'.diags, emitted[Preparing])
    <3>1. Covers(From(project, 1), emitted[Preparing])
      BY <1>1, <1>2 DEF RInv, Known, Reaches
    <3>2. QED
      BY <1>4, <3>1, CoversThrough
  <2>2. \A p \in Phases : p # Preparing => Covers(result'.diags, emitted[p])
    <3>1. \A p \in Phases : p # Preparing => Covers(result.diags, emitted[p])
      BY <1>2 DEF RInv, Known, Reaches
    <3>2. QED
      BY <1>4, <3>1, CoversMore
  <2>3. \A p \in Phases : p > Preparing => emitted[p] = {}
    BY <1>2 DEF RInv, Known, Reaches
  <2>4. Hydraulics > Preparing /\ \A p \in Phases : p > Hydraulics => p > Preparing
    BY PhaseNumbers
  <2>5. Covers(hydraulics.diags, emitted[Hydraulics])
    BY <1>2, <2>3, <2>4, EmptyLists
  <2>6. QED
    BY <2>1, <2>2, <2>3, <2>4, <2>5 DEF Reaches, InHyd, Early, Start, Late, InChild
<1>11. HydraulicsKnown'
  BY <1>1 DEF RInv, Known, HydraulicsKnown, Early, Middle, InChild
<1>12. ChildrenKnown'
  <2>1. HasError(result.diags) => HasError(result'.diags)
    BY <1>4, TroubleStays
  <2>2. QED
    BY <1>2, <1>6, <2>1 DEF RInv, Known, ChildrenKnown
<1>13. MsxPlanned' /\ Meaning'
  BY <1>1 DEF RInv, Known, MsxPlanned, Meaning, Early, Middle, Late, InChild
<1>14. QED
  BY <1>7, <1>8, <1>9, <1>10, <1>11, <1>12, <1>13 DEF Known

-----------------------------------------------------------------------------
(* The hydraulic phase goes on: what it says is in its own timeline.       *)
LEMMA HydraulicsGoOn ==
  ASSUME RInv, pc \in InHyd, pc' \in InHyd,
         UNCHANGED <<phase, request, checkpoint, prepared, quality, msx, result>>,
         NEW ds,
         emitted' \in [Phases -> SUBSET Diagnostics],
         emitted'[phase] = emitted[phase] \union ds,
         \A p \in Phases : p # phase => emitted'[p] = emitted[p],
         hydraulics' \in HydraulicResults, hydraulics'.report = hydraulics.report,
         hydraulics'.diags \subseteq emitted'[phase], Covers(hydraulics'.diags, emitted'[phase]),
         project' \in Seq(Diagnostics), checkpoint' \in 0 .. Len(project'),
         From(project', checkpoint' + 1) \subseteq emitted'[phase],
         collector' \in SUBSET {Hydraulics}, file' \in BOOLEAN,
         HydraulicsKnown'
  PROVE  Known'
<1>1. /\ phase = Hydraulics /\ phase \in Phases /\ pc \in Early
      /\ \A i \in DOMAIN quality : i \in Phases /\ i # phase
      /\ pc \notin Start /\ pc' \notin Start \union Late \union Middle
  <2>1. pc \in Early /\ pc \notin Start /\ pc' \notin Start \union Late \union Middle
    BY DEF InHyd, Early, Start, Late, Middle, InChild
  <2>2. QED
    BY <2>1, EarlyPhase
<1>2. RunTypes'
  <2>1. collector' \in SUBSET Phases
    BY <1>1
  <2>2. QED
    BY <2>1 DEF RInv, Known, RunTypes
<1>3. KeptApart'
  <2>1. \A i \in DOMAIN quality : emitted'[i] = emitted[i]
    BY <1>1
  <2>2. hydraulics'.diags \subseteq emitted'[Hydraulics]
    BY <1>1
  <2>3. QED
    BY <2>1, <2>2 DEF RInv, Known, KeptApart
<1>4. Sources'
  <2>1. pc' \notin {"entry", "validateMsx", "prepare"} /\ pc' \notin InChild
    BY <1>1 DEF Start, Middle
  <2>2. prepared'
    BY DEF RInv, Known, Sources
  <2>3. QED
    BY <1>1, <2>1, <2>2 DEF Sources
<1>5. Reaches'
  <2>1. \A p \in Phases : /\ p > phase => emitted'[p] = {}
                          /\ p # phase => Covers(result.diags, emitted'[p])
    <3>1. \A p \in Phases : p > phase => p # phase
      BY <1>1, PhaseNumbers
    <3>2. QED
      BY <3>1 DEF RInv, Known, Reaches
  <2>2. pc' \notin Late /\ pc' \notin InChild /\ pc' # "nextChild"
    BY <1>1 DEF Middle
  <2>3. QED
    BY <1>1, <2>1, <2>2 DEF Reaches
<1>6. ChildrenKnown'
  <2>1. pc' # "reportQuality"
    BY <1>1 DEF Middle, InChild
  <2>2. QED
    BY <2>1 DEF RInv, Known, ChildrenKnown
<1>7. MsxPlanned' /\ Meaning'
  <2>1. pc # "entry" /\ pc' # "entry" /\ pc \in Early /\ pc' # "runMultiSpecies" /\ pc' \notin Late
    BY <1>1 DEF Start, Late
  <2>2. QED
    BY <2>1 DEF RInv, Known, MsxPlanned, Meaning
<1>8. QED
  BY <1>2, <1>3, <1>4, <1>5, <1>6, <1>7 DEF Known

(* What is known before any step of that phase.                            *)
LEMMA InHydraulics ==
  ASSUME RInv, pc \in InHyd
  PROVE  /\ pc \in Early /\ phase = Hydraulics /\ phase \in Phases
         /\ hydraulics \in HydraulicResults /\ hydraulics.diags \in SUBSET Diagnostics
         /\ hydraulics.diags \subseteq emitted[phase] /\ Covers(hydraulics.diags, emitted[phase])
         /\ emitted[phase] \in SUBSET Diagnostics
         /\ From(project, checkpoint + 1) \subseteq emitted[phase]
         /\ project \in Seq(Diagnostics) /\ checkpoint \in 0 .. Len(project)
         /\ collector \in SUBSET {Hydraulics} /\ file \in BOOLEAN /\ request.msx \in BOOLEAN
         /\ ~HasError(hydraulics.diags) /\ ~HasError(emitted[phase])
         /\ prepared
<1>1. pc \in Early /\ phase = Hydraulics /\ phase \in Phases
  <2>1. pc \in Early /\ pc \notin Start
    BY DEF InHyd
  <2>2. QED
    BY <2>1, EarlyPhase
<1>2. /\ hydraulics \in HydraulicResults /\ hydraulics.diags \in SUBSET Diagnostics
      /\ emitted[phase] \in SUBSET Diagnostics /\ request.msx \in BOOLEAN
      /\ project \in Seq(Diagnostics) /\ checkpoint \in 0 .. Len(project) /\ file \in BOOLEAN
  BY <1>1 DEF RInv, Known, RunTypes, HydraulicResults
<1>3. /\ prepared /\ From(project, checkpoint + 1) \subseteq emitted[phase]
      /\ collector \in SUBSET {Hydraulics}
  BY <1>1 DEF RInv, Known, Sources
<1>4. hydraulics.diags \subseteq emitted[phase]
  BY <1>1, <1>3 DEF RInv, Known, KeptApart
<1>5. Covers(hydraulics.diags, emitted[phase])
  BY DEF RInv, Known, Reaches
<1>6. ~HasError(hydraulics.diags) /\ ~HasError(emitted[phase])
  BY <1>1 DEF RInv, Known, HydraulicsKnown
<1>7. QED
  BY <1>1, <1>2, <1>3, <1>4, <1>5, <1>6

(* The phase says ds of which its timeline has got at least said.          *)
LEMMA HydraulicsSpeak ==
  ASSUME RInv, pc \in InHyd,
         NEW said \in SUBSET Diagnostics, NEW ds \in SUBSET Diagnostics, said \subseteq ds,
         Record(ds), project' = project \o SetToSeq(said), UNCHANGED checkpoint
  PROVE  LET list == SinceCheckpoint(hydraulics.diags)
         IN  /\ list \in SUBSET Diagnostics
             /\ list \subseteq emitted'[phase]
             /\ Covers(list, emitted[phase] \union said)
             /\ project' \in Seq(Diagnostics) /\ checkpoint' \in 0 .. Len(project')
             /\ From(project', checkpoint' + 1) \subseteq emitted'[phase]
             /\ list \subseteq hydraulics.diags \union emitted[phase] \union said
             /\ emitted' \in [Phases -> SUBSET Diagnostics]
             /\ emitted'[phase] = emitted[phase] \union ds
             /\ \A p \in Phases : p # phase => emitted'[p] = emitted[p]
             /\ ~HasError(said) => ~HasError(list)
<1> DEFINE list == SinceCheckpoint(hydraulics.diags)
<1>1. /\ hydraulics.diags \in SUBSET Diagnostics /\ hydraulics.diags \subseteq emitted[phase]
      /\ Covers(hydraulics.diags, emitted[phase])
      /\ ~HasError(hydraulics.diags) /\ ~HasError(emitted[phase])
  BY InHydraulics
<1>2. /\ hydraulics.diags \subseteq list
      /\ list \subseteq hydraulics.diags \union emitted[phase] \union said
      /\ list \in SUBSET Diagnostics
      /\ Covers(list, said)
      /\ project' \in Seq(Diagnostics) /\ checkpoint' \in 0 .. Len(project')
      /\ From(project', checkpoint' + 1) \subseteq emitted[phase] \union said
  BY <1>1, Speaks
<1>3. /\ emitted' \in [Phases -> SUBSET Diagnostics]
      /\ emitted'[phase] = emitted[phase] \union ds
      /\ \A p \in Phases : p # phase => emitted'[p] = emitted[p]
  BY Recorded DEF RInv, Known
<1> HIDE DEF list
<1>4. Covers(list, emitted[phase] \union said)
  BY <1>1, <1>2, CoversMore, CoversBoth
<1>5. ~HasError(said) => ~HasError(list)
  BY <1>1, <1>2 DEF HasError
<1>6. QED
  BY <1>1, <1>2, <1>3, <1>4, <1>5 DEF list

(* What the solvers' contract says of an outcome.                          *)
LEMMA Outcomes ==
  ASSUME NEW o, o \in HydraulicOutcomes \union QualityOutcomes \/ o = NotStarted
  PROVE  /\ o.cancelled \in BOOLEAN /\ o.success \in BOOLEAN /\ o.nonempty \in BOOLEAN
         /\ o.complete \in BOOLEAN
         /\ o.diags \in SUBSET Diagnostics /\ Failure(o) \in SUBSET Diagnostics
         /\ o.complete => o.nonempty
         /\ ~o.cancelled /\ o.success => /\ o.complete /\ ~HasError(o.diags)
                                         /\ Failure(o) \subseteq o.diags
         /\ ~o.success => HasError(Failure(o))
         /\ ~o.success /\ o \in QualityOutcomes => HasError(o.diags)
<1>1. CASE o = NotStarted
  <2>1. o.diags = {} /\ Failure(o) = {}
    BY <1>1 DEF NotStarted, Failure
  <2>2. o.cancelled = TRUE /\ o.success = TRUE /\ o.nonempty = FALSE /\ o.complete = FALSE
    BY <1>1 DEF NotStarted
  <2>3. QED
    BY <2>1, <2>2
<1>2. CASE o \in HydraulicOutcomes \union QualityOutcomes
  <2>1. PICK run \in {"RunHydraulics", "RunQuality"} :
        \E close \in {"CloseHydraulics", "CloseQuality"} :
          o \in SolverOutcomes(run, close) /\ SolverContract(o, o.cancelled)
    BY <1>2 DEF HydraulicOutcomes, QualityOutcomes
  <2>2. PICK close \in {"CloseHydraulics", "CloseQuality"} :
          o \in SolverOutcomes(run, close) /\ SolverContract(o, o.cancelled)
    BY <2>1
  <2>3. /\ o.cancelled \in BOOLEAN /\ o.success \in BOOLEAN /\ o.nonempty \in BOOLEAN
        /\ o.complete \in BOOLEAN /\ o.unconfigured \in BOOLEAN
        /\ o.diags \in SUBSET [severity : Severities, stage : {run, close}]
    BY <2>2 DEF SolverOutcomes
  <2>4. o.diags \in SUBSET Diagnostics
    BY <2>3 DEF Diagnostics, StageNames, SolverStages
  <2>5. [severity |-> "Error", stage |-> "Configure"] \in Diagnostics
    BY DEF Diagnostics, Severities, StageNames
  <2>6. Failure(o) \in SUBSET Diagnostics
    BY <2>4, <2>5 DEF Failure
  <2>7. /\ o.complete => o.nonempty
        /\ ~o.cancelled /\ o.success => /\ o.complete /\ ~HasError(o.diags) /\ ~o.unconfigured
        /\ ~o.success => o.unconfigured \/ HasError(o.diags)
    BY <2>2 DEF SolverContract
  <2>8. ~o.unconfigured => Failure(o) \subseteq o.diags
    BY DEF Failure
  <2>9. ~o.success => HasError(Failure(o))
    <3>1. o.unconfigured => HasError(Failure(o))
      BY DEF Failure, HasError
    <3>2. ~o.unconfigured /\ HasError(o.diags) => HasError(Failure(o))
      BY DEF Failure, HasError
    <3>3. QED
      BY <2>7, <3>1, <3>2
  <2>10. o \in QualityOutcomes => ~o.unconfigured
    BY DEF QualityOutcomes
  <2>11. QED
    BY <2>3, <2>4, <2>6, <2>7, <2>8, <2>9, <2>10
<1>3. QED
  BY <1>1, <1>2

LEMMA ConfiguredKnown ==
  ASSUME RInv, ConfigureHydraulics, pc' = "solveHydraulics"
  PROVE  Known'
<1>1. /\ pc = "configureHydraulics" /\ pc \in InHyd /\ pc' \in InHyd /\ pc' # "multiSpecies"
      /\ UNCHANGED <<phase, request, checkpoint, collector, file, prepared, msx>>
  BY DEF ConfigureHydraulics, InHyd, Early, Start, artifacts
<1>2. PICK success \in BOOLEAN : \E ds \in Remarks(success, "Configure") :
        /\ success => ~HasError(ds)
        /\ Record(ds)
        /\ project' = project \o SetToSeq(ds)
        /\ success /\ hydraulics' = [hydraulics EXCEPT !.diags = SinceCheckpoint(@)]
        /\ UNCHANGED <<quality, result, noticed>>
  BY <1>1 DEF ConfigureHydraulics, FailHydraulics, StopExecutor
<1>3. PICK ds \in Remarks(success, "Configure") :
        /\ ~HasError(ds)
        /\ Record(ds)
        /\ project' = project \o SetToSeq(ds)
        /\ hydraulics' = [hydraulics EXCEPT !.diags = SinceCheckpoint(@)]
        /\ UNCHANGED <<quality, result, noticed>>
  BY <1>2
<1>4. ds \in SUBSET Diagnostics /\ "Configure" \in StageNames
  BY <1>3, RemarksAreDiagnostics DEF StageNames
<1> DEFINE list == SinceCheckpoint(hydraulics.diags)
<1>5. /\ list \in SUBSET Diagnostics /\ list \subseteq emitted'[phase]
      /\ Covers(list, emitted[phase] \union ds)
      /\ project' \in Seq(Diagnostics) /\ checkpoint' \in 0 .. Len(project')
      /\ From(project', checkpoint' + 1) \subseteq emitted'[phase]
      /\ emitted' \in [Phases -> SUBSET Diagnostics]
      /\ emitted'[phase] = emitted[phase] \union ds
      /\ \A p \in Phases : p # phase => emitted'[p] = emitted[p]
      /\ ~HasError(list)
  BY <1>1, <1>3, <1>4, HydraulicsSpeak
<1> HIDE DEF list
<1>6. /\ hydraulics \in HydraulicResults /\ phase = Hydraulics /\ ~HasError(emitted[phase])
      /\ collector \in SUBSET {Hydraulics} /\ file \in BOOLEAN
  BY <1>1, InHydraulics
<1>7. /\ hydraulics' \in HydraulicResults /\ hydraulics'.report = hydraulics.report
      /\ hydraulics'.diags = list /\ hydraulics'.validity = hydraulics.validity
  BY <1>3, <1>5, <1>6 DEF HydraulicResults, list
<1>8. HydraulicsKnown'
  <2>1. ~HasError(emitted'[Hydraulics])
    BY <1>3, <1>5, <1>6 DEF HasError
  <2>2. hydraulics.validity = "NotRun"
    BY <1>1 DEF RInv, Known, HydraulicsKnown, Early
  <2>3. QED
    BY <1>5, <1>7, <2>1, <2>2, pc' = "solveHydraulics"
       DEF HydraulicsKnown, Early, Middle, InChild
<1>9. QED
  BY <1>1, <1>3, <1>5, <1>6, <1>7, <1>8, HydraulicsGoOn

LEMMA SolvingKnown ==
  ASSUME RInv, pc = "solveHydraulics", pc' = "solvingHydraulics",
         UNCHANGED <<phase, request, project, checkpoint, collector, file, prepared, hydraulics,
                     quality, msx, result, emitted>>
  PROVE  Known'
<1>1. pc \in InHyd
  BY DEF InHyd, Early, Start
<1>2. HydraulicsKnown'
  BY DEF RInv, Known, HydraulicsKnown, Early, Middle, InChild
<1>3. RunTypes' /\ KeptApart' /\ ChildrenKnown'
  BY DEF RInv, Known, RunTypes, KeptApart, ChildrenKnown
<1>4. Sources'
  BY DEF RInv, Known, Sources, InHyd, Early, Start, Middle, InChild
<1>5. Reaches'
  BY DEF RInv, Known, Reaches, InHyd, Early, Start, Late, InChild
<1>6. MsxPlanned' /\ Meaning'
  BY DEF RInv, Known, MsxPlanned, Meaning, Early, Middle, Late, InChild
<1>7. QED
  BY <1>2, <1>3, <1>4, <1>5, <1>6 DEF Known

LEMMA SolvedKnown ==
  ASSUME RInv, pc \in {"solveHydraulics", "solvingHydraulics"}, pc' = "saveHydraulics",
         NEW o, o \in HydraulicOutcomes \/ o = NotStarted, HydraulicsReturn(o),
         UNCHANGED <<phase, request, checkpoint, file, prepared, msx>>
  PROVE  Known'
<1>1. pc \in InHyd /\ pc' \in InHyd /\ pc' # "multiSpecies"
  BY DEF InHyd, Early, Start
<1>2. /\ Record(o.diags \union (IF o.cancelled \/ requested THEN {} ELSE Failure(o)))
      /\ project' = project \o SetToSeq(o.diags)
      /\ collector' = collector \union {phase}
      /\ ~o.cancelled /\ ~requested /\ o.success
      /\ hydraulics' = [hydraulics EXCEPT !.success = o.success, !.nonempty = o.nonempty,
                          !.complete = o.complete, !.diags = SinceCheckpoint(@)]
      /\ UNCHANGED <<quality, result, noticed>>
  BY <1>1 DEF HydraulicsReturn, CancelHydraulics, FailHydraulics, StopExecutor
<1>3. /\ o.complete /\ o.nonempty /\ o.success \in BOOLEAN /\ o.nonempty \in BOOLEAN
      /\ o.complete \in BOOLEAN
      /\ ~HasError(o.diags) /\ o.diags \in SUBSET Diagnostics
      /\ Failure(o) \subseteq o.diags
  BY <1>2, Outcomes
<1>4. Record(o.diags)
  <2>1. o.diags \union (IF o.cancelled \/ requested THEN {} ELSE Failure(o)) = o.diags
    BY <1>3
  <2>2. QED
    BY <1>2, <2>1
<1> DEFINE list == SinceCheckpoint(hydraulics.diags)
<1>5. /\ list \in SUBSET Diagnostics /\ list \subseteq emitted'[phase]
      /\ Covers(list, emitted[phase] \union o.diags)
      /\ project' \in Seq(Diagnostics) /\ checkpoint' \in 0 .. Len(project')
      /\ From(project', checkpoint' + 1) \subseteq emitted'[phase]
      /\ emitted' \in [Phases -> SUBSET Diagnostics]
      /\ emitted'[phase] = emitted[phase] \union o.diags
      /\ \A p \in Phases : p # phase => emitted'[p] = emitted[p]
      /\ ~HasError(list)
  BY <1>1, <1>2, <1>3, <1>4, HydraulicsSpeak
<1> HIDE DEF list
<1>6. /\ hydraulics \in HydraulicResults /\ phase = Hydraulics /\ ~HasError(emitted[phase])
      /\ collector \in SUBSET {Hydraulics} /\ file \in BOOLEAN
  BY <1>1, InHydraulics
<1>7. /\ hydraulics' \in HydraulicResults /\ hydraulics'.report = hydraulics.report
      /\ hydraulics'.diags = list /\ hydraulics'.validity = hydraulics.validity
      /\ hydraulics'.complete = o.complete /\ hydraulics'.nonempty = o.nonempty
  BY <1>2, <1>3, <1>5, <1>6 DEF HydraulicResults, list
<1>8. HydraulicsKnown'
  <2>1. ~HasError(emitted'[Hydraulics])
    BY <1>3, <1>5, <1>6 DEF HasError
  <2>2. hydraulics.validity = "NotRun"
    BY <1>1 DEF RInv, Known, HydraulicsKnown, Early
  <2>3. QED
    BY <1>3, <1>5, <1>7, <2>1, <2>2, pc' = "saveHydraulics"
       DEF HydraulicsKnown, Early, Middle, InChild
<1>9. collector' \in SUBSET {Hydraulics} /\ file' \in BOOLEAN
  BY <1>2, <1>6
<1>10. QED
  BY <1>1, <1>2, <1>5, <1>6, <1>7, <1>8, <1>9, HydraulicsGoOn

LEMMA SaveKnown ==
  ASSUME RInv, SaveHydraulics
  PROVE  Known'
<1>1. /\ pc = "saveHydraulics" /\ pc' = "savedHydraulics" /\ pc \in InHyd /\ pc' \in InHyd
      /\ UNCHANGED <<phase, request, checkpoint, collector, prepared, quality, msx, result>>
  BY DEF SaveHydraulics, InHyd, Early, Start
<1>2. PICK success \in BOOLEAN : \E warnings \in WarningsAt("SaveHydraulics") :
      \E saved \in BOOLEAN :
        /\ success /\ request.msx /\ ~saved => warnings # {}
        /\ file' = saved
        /\ Record(warnings)
        /\ project' = project \o SetToSeq(warnings)
        /\ hydraulics' = [hydraulics EXCEPT !.success = success, !.diags = SinceCheckpoint(@)]
  BY DEF SaveHydraulics
<1>3. PICK ds \in WarningsAt("SaveHydraulics") :
        /\ success /\ request.msx /\ ~file' => ds # {}
        /\ file' \in BOOLEAN
        /\ Record(ds)
        /\ project' = project \o SetToSeq(ds)
        /\ hydraulics' = [hydraulics EXCEPT !.success = success, !.diags = SinceCheckpoint(@)]
  BY <1>2
<1>4. ds \in SUBSET Diagnostics /\ ~HasError(ds)
  <2>1. Diag("Warning", "SaveHydraulics") \in Diagnostics
    BY Diagnosed DEF Severities, StageNames
  <2>2. QED
    BY <2>1 DEF WarningsAt, HasError, Diag
<1> DEFINE list == SinceCheckpoint(hydraulics.diags)
<1>5. /\ list \in SUBSET Diagnostics /\ list \subseteq emitted'[phase]
      /\ Covers(list, emitted[phase] \union ds)
      /\ project' \in Seq(Diagnostics) /\ checkpoint' \in 0 .. Len(project')
      /\ From(project', checkpoint' + 1) \subseteq emitted'[phase]
      /\ emitted' \in [Phases -> SUBSET Diagnostics]
      /\ emitted'[phase] = emitted[phase] \union ds
      /\ \A p \in Phases : p # phase => emitted'[p] = emitted[p]
      /\ ~HasError(list)
  BY <1>1, <1>3, <1>4, HydraulicsSpeak
<1> HIDE DEF list
<1>6. /\ hydraulics \in HydraulicResults /\ phase = Hydraulics /\ ~HasError(emitted[phase])
      /\ collector \in SUBSET {Hydraulics}
  BY <1>1, InHydraulics
<1>7. /\ hydraulics' \in HydraulicResults /\ hydraulics'.report = hydraulics.report
      /\ hydraulics'.diags = list /\ hydraulics'.validity = hydraulics.validity
      /\ hydraulics'.complete = hydraulics.complete
      /\ hydraulics'.nonempty = hydraulics.nonempty /\ hydraulics'.success = success
  BY <1>3, <1>5, <1>6 DEF HydraulicResults, list
<1>8. HydraulicsKnown'
  <2>1. ~HasError(emitted'[Hydraulics])
    BY <1>4, <1>5, <1>6 DEF HasError
  <2>2. hydraulics.validity = "NotRun" /\ hydraulics.complete /\ hydraulics.nonempty
    BY <1>1 DEF RInv, Known, HydraulicsKnown, Early
  <2>3. request'.msx /\ ~file' /\ hydraulics'.success => emitted'[Hydraulics] # {}
    BY <1>1, <1>3, <1>5, <1>6, <1>7
  <2>4. QED
    BY <1>1, <1>5, <1>7, <2>1, <2>2, <2>3
       DEF HydraulicsKnown, Early, Middle, InChild
<1>9. QED
  BY <1>1, <1>3, <1>5, <1>6, <1>7, <1>8, HydraulicsGoOn

LEMMA ValidKnown ==
  ASSUME RInv, pc = "savedHydraulics", pc' = "reportHydraulics", hydraulics.success,
         hydraulics' = [hydraulics EXCEPT !.validity =
                          FinalValidity(hydraulics.diags, hydraulics.nonempty)],
         UNCHANGED <<phase, request, project, checkpoint, collector, file, prepared, quality,
                     msx, result, emitted>>
  PROVE  Known'
<1>1. pc \in InHyd /\ pc' \in InHyd
  BY DEF InHyd, Early, Start
<1>2. /\ hydraulics \in HydraulicResults /\ phase = Hydraulics /\ phase \in Phases
      /\ ~HasError(emitted[phase])
      /\ collector \in SUBSET {Hydraulics} /\ file \in BOOLEAN
      /\ ~HasError(hydraulics.diags) /\ Covers(hydraulics.diags, emitted[phase])
      /\ hydraulics.diags \subseteq emitted[phase]
      /\ From(project, checkpoint + 1) \subseteq emitted[phase]
      /\ project \in Seq(Diagnostics) /\ checkpoint \in 0 .. Len(project)
  BY <1>1, InHydraulics
<1>3. hydraulics.nonempty /\ hydraulics.complete
  BY DEF RInv, Known, HydraulicsKnown
<1>4. FinalValidity(hydraulics.diags, hydraulics.nonempty) = "Valid"
  BY <1>2, <1>3 DEF FinalValidity, HasError, Invalidates
<1>5. /\ hydraulics' \in HydraulicResults /\ hydraulics'.report = hydraulics.report
      /\ hydraulics'.diags = hydraulics.diags /\ hydraulics'.validity = "Valid"
      /\ hydraulics'.complete = hydraulics.complete /\ hydraulics'.success
      /\ hydraulics'.nonempty = hydraulics.nonempty
  BY <1>2, <1>4 DEF HydraulicResults, Validities
<1>6. HydraulicsKnown'
  <2>1. request.msx /\ ~file => emitted[Hydraulics] # {}
    BY DEF RInv, Known, HydraulicsKnown
  <2>2. QED
    BY <1>2, <1>3, <1>5, <2>1 DEF HydraulicsKnown, Early, Middle, InChild
<1>7. /\ emitted' \in [Phases -> SUBSET Diagnostics]
      /\ emitted'[phase] = emitted[phase] \union {}
      /\ \A p \in Phases : p # phase => emitted'[p] = emitted[p]
  BY DEF RInv, Known, RunTypes
<1>8. /\ hydraulics'.diags \subseteq emitted'[phase] /\ Covers(hydraulics'.diags, emitted'[phase])
      /\ project' \in Seq(Diagnostics) /\ checkpoint' \in 0 .. Len(project')
      /\ From(project', checkpoint' + 1) \subseteq emitted'[phase]
      /\ collector' \in SUBSET {Hydraulics} /\ file' \in BOOLEAN
  BY <1>2, <1>5
<1>9. QED
  BY <1>1, <1>5, <1>6, <1>7, <1>8, HydraulicsGoOn

(* EN_report is over: what it says goes into the timeline and the result.  *)
LEMMA ReportKnown ==
  ASSUME RInv, ReportHydraulics
  PROVE  Known'
<1>1. /\ pc = "reportHydraulics" /\ pc' = "nextChild" /\ phase' = phase + 1
      /\ pc \in InHyd /\ pc \in Early
      /\ UNCHANGED <<request, project, checkpoint, collector, file, prepared, quality, msx,
                     noticed>>
  BY DEF ReportHydraulics, artifacts, InHyd, Early, Start
<1>2. PICK success \in BOOLEAN : \E ds \in Remarks(success, "GenerateReport") :
         LET list == AppendAll(hydraulics.diags, ds)
             all  == [result EXCEPT !.diags = AppendAll(@, list)]
         IN  /\ Record(ds)
             /\ hydraulics' = [hydraulics EXCEPT !.success = success, !.diags = list,
                                 !.validity = FinalValidity(list, hydraulics.nonempty),
                                 !.report = collector]
             /\ result' = IF success THEN all ELSE Reported(all, {Diag("Error", "GenerateReport")})
  BY DEF ReportHydraulics
<1>3. PICK ds \in Remarks(success, "GenerateReport") :
         LET list == AppendAll(hydraulics.diags, ds)
             all  == [result EXCEPT !.diags = AppendAll(@, list)]
         IN  /\ Record(ds)
             /\ hydraulics' = [hydraulics EXCEPT !.success = success, !.diags = list,
                                 !.validity = FinalValidity(list, hydraulics.nonempty),
                                 !.report = collector]
             /\ result' = IF success THEN all ELSE Reported(all, {Diag("Error", "GenerateReport")})
  BY <1>2
<1> DEFINE list == AppendAll(hydraulics.diags, ds)
           more == AppendAll(result.diags, list)
           failure == {Diag("Error", "GenerateReport")}
           last == AppendAll(more, failure)
<1>4. /\ hydraulics \in HydraulicResults /\ phase = Hydraulics /\ phase \in Phases
      /\ hydraulics.diags \in SUBSET Diagnostics /\ hydraulics.diags \subseteq emitted[phase]
      /\ ~HasError(hydraulics.diags) /\ Covers(hydraulics.diags, emitted[phase])
      /\ collector \in SUBSET {Hydraulics} /\ file \in BOOLEAN /\ prepared
  BY <1>1, InHydraulics
<1>5. /\ ds \in SUBSET Diagnostics /\ \A d \in ds : d.stage = "GenerateReport"
      /\ ~success => HasError(ds)
  <2>1. "GenerateReport" \in StageNames
    BY DEF StageNames
  <2>2. QED
    BY <2>1, RemarksAreDiagnostics
<1>6. /\ hydraulics.diags \subseteq list /\ list \subseteq hydraulics.diags \union ds
      /\ list \in SUBSET Diagnostics /\ Covers(list, ds)
  BY <1>4, <1>5, AppendAllGrows
<1>7. result \in RestOfResult /\ result.diags \in SUBSET Diagnostics
  BY DEF RInv, Known, RunTypes, RestOfResult
<1>8. /\ hydraulics' = [hydraulics EXCEPT !.success = success, !.diags = list,
                          !.validity = FinalValidity(list, hydraulics.nonempty),
                          !.report = collector]
      /\ Record(ds)
      /\ success => result' = [result EXCEPT !.diags = more]
      /\ ~success => result' = [result EXCEPT !.diags = last, !.success = FALSE]
  <2>1. [result EXCEPT !.diags = AppendAll(@, list)] = [result EXCEPT !.diags = more]
    BY <1>7 DEF RestOfResult
  <2>2. Reported([result EXCEPT !.diags = more], failure)
          = [result EXCEPT !.diags = last, !.success = FALSE]
    <3> HIDE DEF more
    <3>1. QED
      BY <1>7 DEF Reported, RestOfResult
  <2>3. QED
    BY <1>3, <2>1, <2>2
<1> HIDE DEF list
<1>9. /\ result.diags \subseteq more /\ more \subseteq result.diags \union list
      /\ more \in SUBSET Diagnostics /\ Covers(more, list)
  BY <1>6, <1>7, AppendAllGrows
<1> HIDE DEF more
<1>10. failure \in SUBSET Diagnostics /\ HasError(failure)
  <2>1. Diag("Error", "GenerateReport") \in Diagnostics
    BY Diagnosed DEF Severities, StageNames
  <2>2. QED
    BY <2>1 DEF HasError, Diag
<1> HIDE DEF failure
<1>11. more \subseteq last /\ last \in SUBSET Diagnostics /\ Covers(last, failure)
  BY <1>9, <1>10, AppendAllGrows
<1> HIDE DEF last
<1>12. /\ result' \in RestOfResult /\ more \subseteq result'.diags
       /\ result'.diags \in SUBSET Diagnostics
       /\ ~result'.success => ~success \/ ~result.success
       /\ ~success => HasError(result'.diags)
  <2>1. HasError(last)
    BY <1>10, <1>11, CoversTrouble
  <2>2. CASE success
    BY <1>7, <1>8, <1>9, <2>2 DEF RestOfResult
  <2>3. CASE ~success
    BY <1>7, <1>8, <1>11, <2>1, <2>3 DEF RestOfResult
  <2>4. QED
    BY <2>2, <2>3
<1>13. /\ hydraulics.nonempty /\ hydraulics.complete
       /\ request.msx /\ ~file => emitted[Hydraulics] # {}
  BY <1>1 DEF RInv, Known, HydraulicsKnown
<1>14. FinalValidity(list, hydraulics.nonempty) = "Valid"
  BY <1>4, <1>5, <1>6, <1>13 DEF FinalValidity, HasError, Invalidates
<1>15. /\ hydraulics' \in HydraulicResults /\ hydraulics'.diags = list
       /\ hydraulics'.report = collector /\ hydraulics'.validity = "Valid"
       /\ hydraulics'.complete /\ hydraulics'.nonempty /\ hydraulics'.success = success
  <2>1. collector \in SUBSET Phases
    BY <1>4
  <2>2. QED
    BY <1>4, <1>6, <1>8, <1>13, <1>14, <2>1 DEF HydraulicResults, Validities
<1>16. /\ emitted' \in [Phases -> SUBSET Diagnostics]
       /\ emitted'[phase] = emitted[phase] \union ds
       /\ \A p \in Phases : p # phase => emitted'[p] = emitted[p]
  BY <1>5, <1>8, Recorded DEF RInv, Known
<1>17. /\ \A i \in DOMAIN quality : i \in Phases /\ i # phase /\ quality[i].state = "Pending"
       /\ phase' = 1 /\ phase' \in Phases /\ MultiSpecies # Hydraulics
  BY <1>1, <1>4, EarlyPhase, PhaseNumbers
<1>18. RunTypes'
  BY <1>1, <1>12, <1>15, <1>16, <1>17 DEF RInv, Known, RunTypes
<1>19. KeptApart'
  <2>1. \A i \in DOMAIN quality : emitted'[i] = emitted[i]
    BY <1>16, <1>17
  <2>2. hydraulics'.diags \subseteq emitted'[Hydraulics]
    BY <1>4, <1>6, <1>15, <1>16
  <2>3. QED
    BY <1>1, <1>4, <1>15, <2>1, <2>2 DEF RInv, Known, KeptApart
<1>20. Sources'
  <2>1. hydraulics'.report # Unreported
    BY <1>4, <1>15, <1>17 DEF Unreported
  <2>2. QED
    BY <1>1, <1>4, <2>1 DEF Sources, Start, InHyd, Early, Middle, InChild
<1>21. Reaches'
  <2>1. Covers(result'.diags, emitted'[phase])
    <3>1. Covers(list, emitted'[phase])
      BY <1>4, <1>6, <1>16, CoversMore, CoversBoth
    <3>2. Covers(more, emitted'[phase])
      BY <1>9, <3>1, CoversThrough
    <3>3. QED
      BY <1>12, <3>2, CoversMore
  <2>2. \A p \in Phases : p # phase => Covers(result'.diags, emitted'[p])
    <3>1. \A p \in Phases : p # phase => Covers(result.diags, emitted[p])
      BY DEF RInv, Known, Reaches
    <3>2. result.diags \subseteq result'.diags
      BY <1>9, <1>12
    <3>3. QED
      BY <1>16, <3>1, <3>2, CoversMore
  <2>3. \A p \in Phases : p >= 1 => emitted'[p] = {}
    <3>1. \A p \in Phases : p >= 1 => p > phase /\ p # phase
      BY <1>4, PhaseNumbers
    <3>2. QED
      BY <1>16, <3>1 DEF RInv, Known, Reaches
  <2>4. \A p \in Phases : p > phase' \/ p = phase' => p >= 1
    BY <1>17, PhaseNumbers
  <2>5. QED
    BY <1>1, <2>1, <2>2, <2>3, <2>4 DEF Reaches, InHyd, Early, Start, Late, InChild
<1>22. HydraulicsKnown'
  <2>1. request.msx /\ ~file => emitted'[Hydraulics] # {}
    BY <1>4, <1>13, <1>16
  <2>2. QED
    BY <1>1, <1>12, <1>15, <2>1 DEF HydraulicsKnown, Early, Middle, InChild
<1>23. ChildrenKnown'
  <2>1. ~result.success => HasError(result'.diags)
    <3>1. result.diags \subseteq result'.diags
      BY <1>9, <1>12
    <3>2. QED
      BY <3>1, TroubleStays DEF RInv, Known, ChildrenKnown
  <2>2. QED
    BY <1>1, <1>12, <1>17, <2>1 DEF ChildrenKnown
<1>24. MsxPlanned' /\ Meaning'
  BY <1>1 DEF RInv, Known, MsxPlanned, Meaning, Early, Middle, Late, InChild
<1>25. QED
  BY <1>18, <1>19, <1>20, <1>21, <1>22, <1>23, <1>24 DEF Known

-----------------------------------------------------------------------------
(* However the executor stops, its result knows what its parts know.       *)
LEMMA StopsKnown ==
  ASSUME RInv, IInv', pc \in InHyd \union Middle,
         NEW res \in RestOfResult, NEW hyd \in HydraulicResults,
         NEW children \in [DOMAIN quality -> ChildResults],
         StopExecutor(res, hyd, children),
         UNCHANGED <<phase, request, checkpoint, file, prepared, msx>>,
         project' \in Seq(Diagnostics), checkpoint' \in 0 .. Len(project'),
         collector' \in SUBSET Phases, emitted' \in [Phases -> SUBSET Diagnostics],
         (* whose the diagnostics and the lines are *)
         hyd.diags \subseteq emitted'[Hydraulics],
         \A i \in DOMAIN quality :
           /\ children[i].diags \subseteq emitted'[i]
           /\ children[i].report # Unreported => children[i].report \subseteq {i},
         IF hyd.report = Unreported THEN collector' \subseteq {Hydraulics}
         ELSE hyd.report \subseteq {Hydraulics},
         (* what was said is in the result *)
         \A p \in Phases : p > phase => emitted'[p] = {},
         \A p \in Phases : Covers(res.diags, emitted'[p]),
         (* what the parts are *)
         ~res.success => HasError(res.diags),
         \A i \in DOMAIN quality :
           /\ children[i].state = "Success" =>
                children[i].success /\ children[i].complete /\ children[i].validity = "Valid"
           /\ children[i].state = "Error" => HasError(res.diags)
           /\ children[i].state = "Warning" => HasWarning(res.diags),
         ~hyd.success => HasError(res.diags) \/ res.cancelled,
         ~res.cancelled /\ hyd.success => /\ hyd.complete /\ hyd.validity = "Valid"
                                          /\ request.msx /\ ~file => res.diags # {}
  PROVE  Known'
<1>1. /\ pc' = "multiSpecies" /\ quality' = children
      /\ hydraulics' = [hyd EXCEPT !.report = IF @ = Unreported THEN collector' ELSE @]
      /\ result' = Finalized(res, hyd, children)
  BY DEF StopExecutor
<1>2. /\ hydraulics' \in HydraulicResults /\ hydraulics'.diags = hyd.diags
      /\ hydraulics'.success = hyd.success /\ hydraulics'.complete = hyd.complete
      /\ hydraulics'.validity = hyd.validity
      /\ hydraulics'.report = IF hyd.report = Unreported THEN collector' ELSE hyd.report
  BY <1>1 DEF HydraulicResults
<1>3. /\ result' \in RestOfResult /\ result'.diags = res.diags
      /\ result'.success = res.success /\ result'.cancelled = res.cancelled
      /\ ~res.cancelled => result'.state \in {"Success", "Warning", "Error"}
      /\ res.cancelled => result'.state = "Cancelled"
      /\ result'.state = "Success" => /\ ~HasError(res.diags) /\ ~HasWarning(res.diags)
                                      /\ \A i \in DOMAIN quality :
                                           children[i].state \notin {"Warning", "Error"}
                                      /\ hyd.success
      /\ ~res.cancelled /\ HasError(res.diags) => result'.state = "Error"
      /\ result'.state = "Error" => \/ HasError(res.diags)
                                    \/ \E i \in DOMAIN quality : children[i].state = "Error"
                                    \/ ~hyd.success \/ HasError(hyd.diags)
  <2> DEFINE state  == CompletedState(hyd.success, hyd.diags)
             states == {children[i].state : i \in DOMAIN children} \union {state}
             final == IF res.cancelled THEN "Cancelled"
                      ELSE IF HasError(res.diags) \/ "Error" \in states THEN "Error"
                      ELSE IF HasWarning(res.diags) \/ "Warning" \in states THEN "Warning"
                      ELSE "Success"
  <2>1. result' = [res EXCEPT !.state = final]
    BY <1>1 DEF Finalized
  <2>2. final \in RunStates /\ DOMAIN children = DOMAIN quality
    BY DEF RunStates
  <2>3. /\ state = "Error" <=> ~hyd.success \/ HasError(hyd.diags)
        /\ state \in {"Success", "Warning", "Error"}
    BY DEF CompletedState
  <2> HIDE DEF state
  <2>4. /\ "Error" \in states <=> state = "Error" \/ \E i \in DOMAIN quality : children[i].state = "Error"
        /\ "Warning" \in states <=> state = "Warning" \/ \E i \in DOMAIN quality : children[i].state = "Warning"
    BY <2>2
  <2> HIDE DEF states
  <2>5. /\ res.cancelled => final = "Cancelled"
        /\ ~res.cancelled => final \in {"Success", "Warning", "Error"}
        /\ ~res.cancelled /\ HasError(res.diags) => final = "Error"
        /\ final = "Error" => HasError(res.diags) \/ "Error" \in states
        /\ final = "Success" => /\ ~HasError(res.diags) /\ ~HasWarning(res.diags)
                                /\ "Error" \notin states /\ "Warning" \notin states
    OBVIOUS
  <2> HIDE DEF final
  <2>6. /\ result' \in RestOfResult /\ result'.diags = res.diags /\ result'.state = final
        /\ result'.success = res.success /\ result'.cancelled = res.cancelled
    BY <2>1, <2>2 DEF RestOfResult
  <2>7. QED
    BY <2>3, <2>4, <2>5, <2>6
<1>4. RunTypes'
  BY <1>1, <1>2, <1>3 DEF RInv, Known, RunTypes
<1>5. phase \in Phases /\ Hydraulics \in Phases /\ prepared
  <2>1. phase \in Phases
    BY DEF RInv, Known, RunTypes
  <2>2. Hydraulics \in Phases
    BY PhaseNumbers
  <2>3. prepared
    BY DEF RInv, Known, Sources
  <2>4. QED
    BY <2>1, <2>2, <2>3
<1>6. KeptApart'
  BY <1>1, <1>2, <1>5 DEF KeptApart
<1>7. Sources'
  BY <1>1 DEF Sources, Start, InHyd, Early, Middle, InChild
<1>8. Reaches'
  BY <1>1, <1>3 DEF Reaches, Start, InHyd, Early, InChild
<1>9. HydraulicsKnown'
  BY <1>1 DEF HydraulicsKnown, Early, Middle, InChild
<1>10. ChildrenKnown'
  BY <1>1, <1>3 DEF ChildrenKnown
<1>11. MsxPlanned'
  <2>1. msx = IF request.msx THEN "Pending" ELSE "Absent"
    BY DEF RInv, Known, MsxPlanned, InHyd, Early, Start
  <2>2. QED
    BY <1>1, <2>1 DEF MsxPlanned, Early, Middle, InChild
<1>12. Meaning'
  <2>1. res.diags \in SUBSET Diagnostics /\ emitted'[Hydraulics] \in SUBSET Diagnostics
    BY <1>5 DEF RestOfResult
  <2>2. HasError(hyd.diags) => HasError(res.diags)
    <3>1. HasError(hyd.diags) => HasError(emitted'[Hydraulics])
      BY TroubleStays
    <3>2. QED
      BY <1>5, <2>1, <3>1, CoversTrouble
  <2>3. result'.state = "Error" => HasError(res.diags)
    BY <1>3, <2>2
  <2>4. ~res.success => result'.state \in {"Error", "Cancelled"}
    BY <1>3
  <2>5. ASSUME result'.state = "Success"
        PROVE  /\ result'.success /\ result'.diags = {}
               /\ hydraulics'.success /\ hydraulics'.complete /\ hydraulics'.validity = "Valid"
               /\ \A i \in DOMAIN quality' :
                    request'.quality[i] = "Active" => quality'[i].state = "Success"
               /\ request'.msx => file'
    <3>1. res.diags = {}
      BY <1>3, <2>1, <2>5, NothingToSay
    <3>2. ~res.cancelled /\ hyd.success
      BY <1>3, <2>5
    <3>3. ~noticed' /\ ChildrenSettled'
      BY <1>1, <1>3, <3>2 DEF IInv, NoticedIsCancelled, SettledLate, Late
    <3>4. \A i \in DOMAIN quality :
            request.quality[i] = "Active" => children[i].state = "Success"
      BY <1>1, <1>2, <1>3, <2>5, <3>2, <3>3, StatesAreTerminal DEF ChildrenSettled, Completed
    <3>5. QED
      BY <1>1, <1>2, <1>3, <2>4, <2>5, <3>1, <3>2, <3>4
  <2>6. ~result'.cancelled /\ hydraulics'.success => hydraulics'.validity = "Valid"
    BY <1>2, <1>3
  <2>7. QED
    BY <1>1, <1>3, <2>3, <2>4, <2>5, <2>6 DEF Meaning
<1>13. QED
  BY <1>4, <1>6, <1>7, <1>8, <1>9, <1>10, <1>11, <1>12 DEF Known

(* The children that a stop in the hydraulic phase settles.                *)
LEMMA SettledPending ==
  ASSUME RInv, pc \in Early, NEW state \in {"Cancelled", "Skipped"}
  PROVE  /\ Settled(quality, state) \in [DOMAIN quality -> ChildResults]
         /\ \A i \in DOMAIN quality :
              /\ Settled(quality, state)[i].state = state
              /\ Settled(quality, state)[i].diags = quality[i].diags
              /\ Settled(quality, state)[i].report = quality[i].report
<1>1. \A i \in DOMAIN quality : quality[i].state = "Pending"
  BY EarlyPhase
<1>2. quality \in [DOMAIN quality -> ChildResults]
  BY DEF RInv, Known, RunTypes
<1>3. Settled(quality, state) = [i \in DOMAIN quality |-> [quality[i] EXCEPT !.state = state]]
  BY <1>1 DEF Settled
<1>4. \A i \in DOMAIN quality : [quality[i] EXCEPT !.state = state] \in ChildResults
  BY <1>2 DEF ChildResults, RunStates
<1>5. \A i \in DOMAIN quality :
        /\ [quality[i] EXCEPT !.state = state].state = state
        /\ [quality[i] EXCEPT !.state = state].diags = quality[i].diags
        /\ [quality[i] EXCEPT !.state = state].report = quality[i].report
  BY <1>2 DEF ChildResults
<1>6. QED
  BY <1>3, <1>4, <1>5

(* A stop in the hydraulic phase with the timeline hyd.                    *)
LEMMA HydraulicsStop ==
  ASSUME RInv, IInv', pc \in InHyd,
         NEW res \in RestOfResult, NEW hyd \in HydraulicResults,
         NEW state \in {"Cancelled", "Skipped"},
         StopExecutor(res, hyd, Settled(quality, state)),
         UNCHANGED <<phase, request, checkpoint, file, prepared, msx>>,
         project' \in Seq(Diagnostics), checkpoint' \in 0 .. Len(project'),
         collector' \in SUBSET {Hydraulics}, emitted' \in [Phases -> SUBSET Diagnostics],
         \A p \in Phases : p # phase => emitted'[p] = emitted[p],
         hyd.diags \subseteq emitted'[phase], hyd.report = hydraulics.report,
         Covers(res.diags, emitted'[phase]), result.diags \subseteq res.diags,
         ~res.success => HasError(res.diags),
         res.cancelled \/ (~hyd.success /\ HasError(res.diags))
  PROVE  Known'
<1> DEFINE children == Settled(quality, state)
<1>1. /\ children \in [DOMAIN quality -> ChildResults]
      /\ \A i \in DOMAIN quality : /\ children[i].state = state
                                   /\ children[i].diags = quality[i].diags
                                   /\ children[i].report = quality[i].report
  <2>1. pc \in Early
    BY InHydraulics
  <2>2. QED
    BY <2>1, SettledPending
<1>2. StopExecutor(res, hyd, children)
  OBVIOUS
<1> HIDE DEF children
<1>3. /\ phase = Hydraulics /\ phase \in Phases
      /\ \A i \in DOMAIN quality : i \in Phases /\ i # phase
  BY InHydraulics, EarlyPhase
<1>4. pc \in InHyd \union Middle /\ collector' \in SUBSET Phases
  BY <1>3
<1>5. \A i \in DOMAIN quality :
        /\ children[i].diags \subseteq emitted'[i]
        /\ children[i].report # Unreported => children[i].report \subseteq {i}
  BY <1>1, <1>3 DEF RInv, Known, KeptApart
<1>6. IF hyd.report = Unreported THEN collector' \subseteq {Hydraulics}
      ELSE hyd.report \subseteq {Hydraulics}
  BY DEF RInv, Known, KeptApart
<1>7. \A p \in Phases : p > phase => emitted'[p] = {}
  <2>1. \A p \in Phases : p > phase => p # phase
    BY <1>3, PhaseNumbers
  <2>2. QED
    BY <2>1 DEF RInv, Known, Reaches
<1>8. \A p \in Phases : Covers(res.diags, emitted'[p])
  <2>1. \A p \in Phases : p # phase => Covers(result.diags, emitted[p])
    BY DEF RInv, Known, Reaches
  <2>2. QED
    BY <2>1, CoversMore
<1>9. \A i \in DOMAIN quality :
        /\ children[i].state = "Success" =>
             children[i].success /\ children[i].complete /\ children[i].validity = "Valid"
        /\ children[i].state = "Error" => HasError(res.diags)
        /\ children[i].state = "Warning" => HasWarning(res.diags)
  BY <1>1
<1>10. QED
  BY <1>1, <1>2, <1>3, <1>4, <1>5, <1>6, <1>7, <1>8, <1>9, StopsKnown

LEMMA CancelKnown ==
  ASSUME RInv, IInv', pc \in InHyd, NEW hyd \in HydraulicResults, CancelHydraulics(hyd),
         UNCHANGED <<phase, request, checkpoint, file, prepared, msx>>,
         project' \in Seq(Diagnostics), checkpoint' \in 0 .. Len(project'),
         collector' \in SUBSET {Hydraulics}, emitted' \in [Phases -> SUBSET Diagnostics],
         \A p \in Phases : p # phase => emitted'[p] = emitted[p],
         hyd.diags \subseteq emitted'[phase], hyd.report = hydraulics.report,
         Covers(hyd.diags, emitted'[phase])
  PROVE  Known'
<1> DEFINE list == AppendAll(result.diags, hyd.diags)
           res == [result EXCEPT !.cancelled = TRUE, !.diags = list]
           stopped == [hyd EXCEPT !.validity = CancelledValidity(hyd.nonempty)]
<1>1. result \in RestOfResult /\ result.diags \in SUBSET Diagnostics
  BY DEF RInv, Known, RunTypes, RestOfResult
<1>2. hyd.diags \in SUBSET Diagnostics
  BY DEF HydraulicResults
<1>3. /\ result.diags \subseteq list /\ list \in SUBSET Diagnostics /\ Covers(list, hyd.diags)
  BY <1>1, <1>2, AppendAllGrows
<1>4. StopExecutor(res, stopped, Settled(quality, "Cancelled"))
  <2>1. [result EXCEPT !.cancelled = TRUE, !.diags = AppendAll(@, hyd.diags)] = res
    BY <1>1 DEF RestOfResult
  <2>2. QED
    BY <2>1 DEF CancelHydraulics
<1> HIDE DEF list
<1>5. /\ res \in RestOfResult /\ res.diags = list /\ res.cancelled
      /\ res.success = result.success
  BY <1>1, <1>3 DEF RestOfResult
<1>6. stopped \in HydraulicResults /\ stopped.diags = hyd.diags /\ stopped.report = hyd.report
  BY DEF HydraulicResults, CancelledValidity, Validities
<1> HIDE DEF res, stopped
<1>7. Covers(res.diags, emitted'[phase])
  BY <1>3, <1>5, CoversThrough
<1>8. ~res.success => HasError(res.diags)
  BY <1>3, <1>5, TroubleStays DEF RInv, Known, ChildrenKnown
<1>9. QED
  BY <1>3, <1>4, <1>5, <1>6, <1>7, <1>8, HydraulicsStop

LEMMA FailKnown ==
  ASSUME RInv, IInv', pc \in InHyd, NEW hyd \in HydraulicResults,
         NEW failures \in SUBSET Diagnostics, FailHydraulics(hyd, failures),
         UNCHANGED <<phase, request, checkpoint, file, prepared, msx>>,
         project' \in Seq(Diagnostics), checkpoint' \in 0 .. Len(project'),
         collector' \in SUBSET {Hydraulics}, emitted' \in [Phases -> SUBSET Diagnostics],
         \A p \in Phases : p # phase => emitted'[p] = emitted[p],
         hyd.diags \subseteq emitted'[phase], hyd.report = hydraulics.report,
         HasError(failures), failures \subseteq emitted'[phase],
         NEW said, Covers(hyd.diags, said), emitted'[phase] \subseteq said \union failures
  PROVE  Known'
<1> DEFINE list == AppendAll(hyd.diags, failures)
           more == AppendAll(result.diags, list)
           last == AppendAll(more, failures)
           res == [result EXCEPT !.success = FALSE, !.diags = last]
           stopped == [hyd EXCEPT !.success = FALSE, !.diags = list,
                                  !.validity = FinalValidity(list, hyd.nonempty)]
<1>1. result \in RestOfResult /\ result.diags \in SUBSET Diagnostics
  BY DEF RInv, Known, RunTypes, RestOfResult
<1>2. hyd.diags \in SUBSET Diagnostics
  BY DEF HydraulicResults
<1>3. /\ hyd.diags \subseteq list /\ list \subseteq hyd.diags \union failures
      /\ list \in SUBSET Diagnostics /\ Covers(list, failures)
  BY <1>2, AppendAllGrows
<1>4. StopExecutor(res, stopped, Settled(quality, "Skipped"))
  <2>1. Reported([result EXCEPT !.diags = AppendAll(@, list)], failures) = res
    <3> HIDE DEF list
    <3>1. [result EXCEPT !.diags = AppendAll(@, list)] = [result EXCEPT !.diags = more]
      BY <1>1 DEF RestOfResult
    <3> HIDE DEF more
    <3>2. Reported([result EXCEPT !.diags = more], failures)
            = [result EXCEPT !.success = FALSE, !.diags = last]
      BY <1>1 DEF Reported, RestOfResult
    <3>3. QED
      BY <3>1, <3>2
  <2>2. QED
    BY <2>1 DEF FailHydraulics
<1> HIDE DEF list
<1>5. result.diags \subseteq more /\ more \in SUBSET Diagnostics /\ Covers(more, list)
  BY <1>1, <1>3, AppendAllGrows
<1> HIDE DEF more
<1>6. more \subseteq last /\ last \in SUBSET Diagnostics /\ Covers(last, failures)
  BY <1>5, AppendAllGrows
<1> HIDE DEF last
<1>7. /\ res \in RestOfResult /\ res.diags = last /\ ~res.success
  BY <1>1, <1>6 DEF RestOfResult
<1>8. /\ stopped \in HydraulicResults /\ stopped.diags = list /\ stopped.report = hyd.report
      /\ ~stopped.success
  BY <1>3 DEF HydraulicResults, FinalValidity, Validities
<1> HIDE DEF res, stopped
<1>9. Covers(res.diags, emitted'[phase])
  <2>1. Covers(list, said)
    BY <1>3, CoversMore
  <2>2. Covers(more, said)
    BY <1>5, <2>1, CoversThrough
  <2>3. Covers(last, said)
    BY <1>6, <2>2, CoversMore
  <2>4. Covers(last, said \union failures)
    BY <1>6, <2>3, CoversBoth
  <2>5. QED
    BY <1>7, <2>4 DEF Covers
<1>10. HasError(res.diags)
  BY <1>6, <1>7, CoversTrouble
<1>11. stopped.diags \subseteq emitted'[phase] /\ result.diags \subseteq res.diags
  BY <1>3, <1>5, <1>6, <1>7, <1>8
<1>12. QED
  BY <1>4, <1>7, <1>8, <1>9, <1>10, <1>11, HydraulicsStop

LEMMA HydraulicsKnownStep ==
  ASSUME RInv, IInv', ConfigureHydraulics \/ SolveHydraulics \/ SolvedHydraulics \/ SavedHydraulics
  PROVE  Known'
<1>1. CASE ConfigureHydraulics
  <2>1. /\ pc = "configureHydraulics" /\ pc \in InHyd
        /\ UNCHANGED <<phase, request, checkpoint, collector, file, prepared, msx>>
    BY <1>1 DEF ConfigureHydraulics, artifacts, InHyd, Early, Start
  <2> DEFINE list == SinceCheckpoint(hydraulics.diags)
             hyd == [hydraulics EXCEPT !.diags = list]
             failure == {Diag("Error", "Configure")}
  <2>2. /\ hydraulics \in HydraulicResults /\ collector \in SUBSET {Hydraulics}
    BY <2>1, InHydraulics
  <2>3. pc' = "solveHydraulics" \/ \E ds \in Remarks(FALSE, "Configure") :
          /\ Record(ds)
          /\ project' = project \o SetToSeq(ds)
          /\ FailHydraulics(hyd, failure)
    <3>1. [hydraulics EXCEPT !.diags = SinceCheckpoint(@)] = hyd
      BY <2>2 DEF HydraulicResults
    <3>2. QED
      BY <1>1, <3>1 DEF ConfigureHydraulics
  <2>4. CASE pc' = "solveHydraulics"
    BY <1>1, <2>4, ConfiguredKnown
  <2>5. ASSUME NEW ds \in Remarks(FALSE, "Configure"), Record(ds),
               project' = project \o SetToSeq(ds), FailHydraulics(hyd, failure)
        PROVE  Known'
    <3>1. ds \in SUBSET Diagnostics /\ failure \subseteq ds
      <4>1. "Configure" \in StageNames
        BY DEF StageNames
      <4>2. QED
        BY <4>1, <2>5, RemarksAreDiagnostics DEF Remarks
    <3>2. HasError(failure)
      BY DEF HasError, Diag
    <3>3. /\ list \in SUBSET Diagnostics /\ list \subseteq emitted'[phase]
          /\ Covers(list, emitted[phase] \union ds)
          /\ project' \in Seq(Diagnostics) /\ checkpoint' \in 0 .. Len(project')
          /\ emitted' \in [Phases -> SUBSET Diagnostics]
          /\ emitted'[phase] = emitted[phase] \union ds
          /\ \A p \in Phases : p # phase => emitted'[p] = emitted[p]
      BY <2>1, <2>5, <3>1, HydraulicsSpeak
    <3> HIDE DEF list, failure
    <3>4. hyd \in HydraulicResults /\ hyd.diags = list /\ hyd.report = hydraulics.report
      BY <2>2, <3>3 DEF HydraulicResults
    <3> HIDE DEF hyd
    <3>5. /\ failure \in SUBSET Diagnostics /\ failure \subseteq emitted'[phase]
          /\ hyd.diags \subseteq emitted'[phase]
          /\ Covers(hyd.diags, emitted[phase] \union ds)
          /\ emitted'[phase] \subseteq (emitted[phase] \union ds) \union failure
          /\ collector' \in SUBSET {Hydraulics}
      BY <2>1, <2>2, <3>1, <3>3, <3>4
    <3>6. QED
      BY <2>1, <2>5, <3>2, <3>3, <3>4, <3>5, FailKnown
  <2>6. QED
    BY <2>3, <2>4, <2>5
<1>2. CASE SolveHydraulics \/ SolvedHydraulics
  <2>1. /\ pc \in {"solveHydraulics", "solvingHydraulics"} /\ pc \in InHyd
        /\ UNCHANGED <<phase, request, checkpoint, file, prepared, msx>>
    BY <1>2 DEF SolveHydraulics, SolvedHydraulics, InHyd, Early, Start
  <2>2. \/ /\ pc = "solveHydraulics" /\ pc' = "solvingHydraulics"
           /\ UNCHANGED <<project, collector, hydraulics, quality, result, emitted>>
        \/ \E o \in HydraulicOutcomes \union {NotStarted} : HydraulicsReturn(o)
    BY <1>2 DEF SolveHydraulics, SolvedHydraulics
  <2>3. CASE /\ pc = "solveHydraulics" /\ pc' = "solvingHydraulics"
             /\ UNCHANGED <<project, collector, hydraulics, quality, result, emitted>>
    BY <2>1, <2>3, SolvingKnown
  <2>4. ASSUME NEW o \in HydraulicOutcomes \union {NotStarted}, HydraulicsReturn(o)
        PROVE  Known'
    <3> DEFINE list == SinceCheckpoint(hydraulics.diags)
               hyd == [hydraulics EXCEPT !.success = o.success, !.nonempty = o.nonempty,
                         !.complete = o.complete, !.diags = list]
               ds == o.diags \union (IF o.cancelled \/ requested THEN {} ELSE Failure(o))
    <3>1. /\ hydraulics \in HydraulicResults /\ collector \in SUBSET {Hydraulics}
          /\ phase = Hydraulics
      BY <2>1, InHydraulics
    <3>2. /\ o.success \in BOOLEAN /\ o.nonempty \in BOOLEAN /\ o.complete \in BOOLEAN
          /\ o.diags \in SUBSET Diagnostics /\ Failure(o) \in SUBSET Diagnostics
          /\ ~o.success => HasError(Failure(o))
      BY Outcomes
    <3>3. /\ Record(ds) /\ project' = project \o SetToSeq(o.diags)
          /\ collector' = collector \union {phase}
          /\ \/ (o.cancelled \/ requested) /\ CancelHydraulics(hyd)
             \/ ~o.cancelled /\ ~requested /\ ~o.success /\ FailHydraulics(hyd, Failure(o))
             \/ pc' = "saveHydraulics"
      <4>1. [hydraulics EXCEPT !.success = o.success, !.nonempty = o.nonempty,
                     !.complete = o.complete, !.diags = SinceCheckpoint(@)] = hyd
        BY <3>1 DEF HydraulicResults
      <4> HIDE DEF hyd
      <4>2. QED
        BY <2>4, <4>1 DEF HydraulicsReturn
    <3>4. ds \in SUBSET Diagnostics /\ o.diags \subseteq ds
      BY <3>2
    <3>5. ds = IF o.cancelled \/ requested THEN o.diags ELSE o.diags \union Failure(o)
      OBVIOUS
    <3> HIDE DEF ds
    <3>6. /\ list \in SUBSET Diagnostics /\ list \subseteq emitted'[phase]
          /\ Covers(list, emitted[phase] \union o.diags)
          /\ project' \in Seq(Diagnostics) /\ checkpoint' \in 0 .. Len(project')
          /\ emitted' \in [Phases -> SUBSET Diagnostics]
          /\ emitted'[phase] = emitted[phase] \union ds
          /\ \A p \in Phases : p # phase => emitted'[p] = emitted[p]
      BY <2>1, <3>2, <3>3, <3>4, HydraulicsSpeak
    <3> HIDE DEF list
    <3>7. hyd \in HydraulicResults /\ hyd.diags = list /\ hyd.report = hydraulics.report
      BY <3>1, <3>2, <3>6 DEF HydraulicResults
    <3> HIDE DEF hyd
    <3>8. collector' \in SUBSET {Hydraulics}
      BY <3>1, <3>3
    <3>9. hyd.diags \subseteq emitted'[phase]
      BY <3>6, <3>7
    <3>10. CASE (o.cancelled \/ requested) /\ CancelHydraulics(hyd)
      <4>1. Covers(hyd.diags, emitted'[phase])
        BY <3>5, <3>6, <3>7, <3>10
      <4>2. QED
        BY <2>1, <3>6, <3>7, <3>8, <3>9, <3>10, <4>1, CancelKnown
    <3>11. CASE ~o.cancelled /\ ~requested /\ ~o.success /\ FailHydraulics(hyd, Failure(o))
      <4> DEFINE failures == Failure(o)
                 said == emitted[phase] \union o.diags
      <4>1. /\ failures \subseteq emitted'[phase]
            /\ emitted'[phase] \subseteq said \union failures
            /\ Covers(hyd.diags, said)
        BY <3>5, <3>6, <3>7, <3>11
      <4>2. failures \in SUBSET Diagnostics /\ HasError(failures) /\ FailHydraulics(hyd, failures)
        BY <3>2, <3>11
      <4> HIDE DEF failures, said
      <4>3. QED
        BY <2>1, <3>6, <3>7, <3>8, <3>9, <4>1, <4>2, FailKnown
    <3>12. CASE pc' = "saveHydraulics"
      BY <2>1, <2>4, <3>12, SolvedKnown
    <3>13. QED
      BY <3>3, <3>10, <3>11, <3>12
  <2>5. QED
    BY <2>2, <2>3, <2>4
<1>3. CASE SavedHydraulics
  <2>1. /\ pc = "savedHydraulics" /\ pc \in InHyd
        /\ UNCHANGED <<phase, request, project, checkpoint, collector, file, prepared, msx>>
    BY <1>3 DEF SavedHydraulics, artifacts, InHyd, Early, Start
  <2>2. /\ hydraulics \in HydraulicResults /\ collector \in SUBSET {Hydraulics}
        /\ hydraulics.diags \subseteq emitted[phase] /\ Covers(hydraulics.diags, emitted[phase])
        /\ project \in Seq(Diagnostics) /\ checkpoint \in 0 .. Len(project)
        /\ phase \in Phases
    BY <2>1, InHydraulics
  <2>3. emitted \in [Phases -> SUBSET Diagnostics]
    BY DEF RInv, Known, RunTypes
  <2> DEFINE failure == {Diag("Error", "SaveHydraulics")}
  <2>4. failure \in SUBSET Diagnostics /\ HasError(failure)
    <3>1. Diag("Error", "SaveHydraulics") \in Diagnostics
      BY Diagnosed DEF Severities, StageNames
    <3>2. QED
      BY <3>1 DEF HasError, Diag
  <2>5. \/ CancelHydraulics(hydraulics) /\ UNCHANGED emitted
        \/ Record(failure) /\ FailHydraulics(hydraulics, failure)
        \/ /\ hydraulics.success /\ UNCHANGED <<emitted, quality, result>>
           /\ pc' = "reportHydraulics"
           /\ hydraulics' = [hydraulics EXCEPT !.validity =
                               FinalValidity(hydraulics.diags, hydraulics.nonempty)]
    BY <1>3 DEF SavedHydraulics
  <2> HIDE DEF failure
  <2>6. CASE CancelHydraulics(hydraulics) /\ UNCHANGED emitted
    <3>1. \A p \in Phases : p # phase => emitted'[p] = emitted[p]
      BY <2>6
    <3>2. QED
      BY <2>1, <2>2, <2>3, <2>6, <3>1, CancelKnown
  <2>7. CASE Record(failure) /\ FailHydraulics(hydraulics, failure)
    <3>1. /\ emitted' \in [Phases -> SUBSET Diagnostics]
          /\ emitted'[phase] = emitted[phase] \union failure
          /\ \A p \in Phases : p # phase => emitted'[p] = emitted[p]
      BY <2>4, <2>7, Recorded DEF RInv, Known
    <3>2. /\ hydraulics.diags \subseteq emitted'[phase] /\ failure \subseteq emitted'[phase]
          /\ emitted'[phase] \subseteq emitted[phase] \union failure
      BY <2>2, <3>1
    <3>3. QED
      BY <2>1, <2>2, <2>4, <2>7, <3>1, <3>2, FailKnown
  <2>8. CASE /\ hydraulics.success /\ UNCHANGED <<emitted, quality, result>>
             /\ pc' = "reportHydraulics"
             /\ hydraulics' = [hydraulics EXCEPT !.validity =
                                 FinalValidity(hydraulics.diags, hydraulics.nonempty)]
    BY <2>1, <2>8, ValidKnown
  <2>9. QED
    BY <2>5, <2>6, <2>7, <2>8
<1>4. QED
  BY <1>1, <1>2, <1>3

-----------------------------------------------------------------------------
(* The run ends before the executor has begun.                             *)
LEMMA EarlyReturnKnown ==
  ASSUME RInv, IInv', pc \in Start, pc' = "returned",
         NEW state \in {"Cancelled", "Skipped"}, quality' = Settled(quality, state),
         UNCHANGED <<phase, request, project, checkpoint, collector, file, prepared>>,
         emitted' \in [Phases -> SUBSET Diagnostics],
         \A p \in Phases : p # phase => emitted'[p] = emitted[p],
         hydraulics' \in HydraulicResults, hydraulics'.report = collector,
         hydraulics'.diags \subseteq emitted'[Preparing] \union emitted'[Hydraulics],
         prepared => hydraulics'.diags = {},
         result' \in RestOfResult, result.diags \subseteq result'.diags,
         Covers(result'.diags, emitted'[phase]),
         ~result'.success => HasError(result'.diags),
         \/ result'.state = "Cancelled"
         \/ result'.state = "Error" /\ HasError(result'.diags)
  PROVE  Known'
<1>1. /\ pc \in Early /\ phase = Preparing /\ phase \in Phases
      /\ \A i \in DOMAIN quality : i \in Phases /\ i # phase
  <2>1. pc \in Early
    BY DEF Start, Early
  <2>2. QED
    BY <2>1, EarlyPhase
<1>2. /\ quality' \in [DOMAIN quality -> ChildResults]
      /\ \A i \in DOMAIN quality : /\ quality'[i].state = state
                                   /\ quality'[i].diags = quality[i].diags
                                   /\ quality'[i].report = quality[i].report
  BY <1>1, SettledPending
<1>3. RunTypes'
  BY <1>2 DEF RInv, Known, RunTypes
<1>4. KeptApart'
  <2>1. collector \subseteq {Hydraulics}
    BY <1>1 DEF RInv, Known, Sources
  <2>2. DOMAIN quality' = DOMAIN quality /\ \A i \in DOMAIN quality : emitted'[i] = emitted[i]
    BY <1>1, <1>2
  <2>3. QED
    BY <1>2, <2>1, <2>2 DEF RInv, Known, KeptApart
<1>5. Sources'
  BY DEF Sources, Start, InHyd, Early, Middle, InChild
<1>6. Reaches'
  <2>1. \A p \in Phases : p > phase => emitted'[p] = {}
    <3>1. \A p \in Phases : p > phase => p # phase
      BY <1>1, PhaseNumbers
    <3>2. QED
      BY <3>1 DEF RInv, Known, Reaches
  <2>2. \A p \in Phases : Covers(result'.diags, emitted'[p])
    <3>1. \A p \in Phases : p # phase => Covers(result.diags, emitted[p])
      BY DEF RInv, Known, Reaches
    <3>2. QED
      BY <3>1, CoversMore
  <2>3. QED
    BY <2>1, <2>2 DEF Reaches, Start, InHyd, Early, InChild
<1>7. HydraulicsKnown'
  BY DEF HydraulicsKnown, Early, Middle, InChild
<1>8. ChildrenKnown'
  BY <1>2 DEF ChildrenKnown
<1>9. MsxPlanned' /\ Meaning'
  BY DEF MsxPlanned, Meaning, Early, Middle, InChild
<1>10. QED
  BY <1>3, <1>4, <1>5, <1>6, <1>7, <1>8, <1>9 DEF Known

LEMMA CancelledRunKnown ==
  ASSUME RInv, IInv', pc \in Start, CancelledRun
  PROVE  Known'
<1> DEFINE list == AppendFrom(result.diags, project, 1)
<1>1. /\ pc' = "returned" /\ quality' = Settled(quality, "Cancelled")
      /\ result' = [result EXCEPT !.cancelled = TRUE, !.state = "Cancelled",
                                  !.diags = AppendFrom(@, project, 1)]
      /\ hydraulics' = [hydraulics EXCEPT !.report = collector]
      /\ UNCHANGED <<phase, request, project, checkpoint, collector, file, prepared, emitted>>
  BY DEF CancelledRun, artifacts
<1>2. /\ result \in RestOfResult /\ project \in Seq(Diagnostics)
      /\ hydraulics \in HydraulicResults /\ collector \in SUBSET Phases
      /\ emitted \in [Phases -> SUBSET Diagnostics] /\ phase \in Phases
  BY DEF RInv, Known, RunTypes
<1>3. /\ result.diags \subseteq list /\ list \subseteq result.diags \union From(project, 1)
      /\ Covers(list, From(project, 1))
  <2>1. 1 \in Nat
    OBVIOUS
  <2>2. ASSUME NEW b \in Nat
        PROVE  /\ result.diags \subseteq AppendFrom(result.diags, project, b)
               /\ AppendFrom(result.diags, project, b) \subseteq result.diags \union From(project, b)
               /\ Covers(AppendFrom(result.diags, project, b), From(project, b))
    BY <1>2, AppendFromGrows
  <2>3. QED
    BY <2>1, <2>2
<1>4. result' = [result EXCEPT !.cancelled = TRUE, !.state = "Cancelled", !.diags = list]
  BY <1>1, <1>2 DEF RestOfResult
<1> HIDE DEF list
<1>5. /\ hydraulics.diags = {} /\ Covers(From(project, 1), emitted[phase])
      /\ From(project, 1) \subseteq emitted[Preparing] /\ Preparing \in Phases
  BY PhaseNumbers DEF RInv, Known, Sources, Reaches
<1>6. /\ result' \in RestOfResult /\ result'.diags = list /\ result'.state = "Cancelled"
      /\ result'.success = result.success
  <2>1. list \in SUBSET Diagnostics
    BY <1>2, <1>3, <1>5 DEF RestOfResult
  <2>2. QED
    BY <1>2, <1>4, <2>1 DEF RestOfResult, RunStates
<1>7. /\ hydraulics' \in HydraulicResults /\ hydraulics'.report = collector
      /\ hydraulics'.diags = {}
  BY <1>1, <1>2, <1>5 DEF HydraulicResults
<1>8. Covers(list, emitted[phase])
  BY <1>3, <1>5, CoversThrough
<1>9. ~result.success => HasError(list)
  BY <1>3, TroubleStays DEF RInv, Known, ChildrenKnown
<1>10. \A p \in Phases : p # phase => emitted'[p] = emitted[p]
  BY <1>1
<1>11. QED
  BY <1>1, <1>2, <1>3, <1>6, <1>7, <1>8, <1>9, <1>10, EarlyReturnKnown

LEMMA FailedRunKnown ==
  ASSUME RInv, IInv', pc \in Start, ~prepared, NEW said \in SUBSET Diagnostics,
         HasError(said), FailedRun(said),
         UNCHANGED <<phase, request, project, checkpoint, collector, file, prepared>>
  PROVE  Known'
<1> DEFINE first == AppendFrom(hydraulics.diags, project, 1)
           list == AppendAll(first, said)
           last == AppendAll(result.diags, list)
<1>1. /\ Record(said) /\ pc' = "returned"
      /\ hydraulics' = [hydraulics EXCEPT !.success = FALSE, !.diags = list,
                          !.validity = FinalValidity(list, FALSE), !.report = collector]
      /\ quality' = Settled(quality, "Skipped")
      /\ result' = [result EXCEPT !.success = FALSE, !.state = "Error",
                                  !.diags = AppendAll(@, list)]
  BY DEF FailedRun
<1>2. /\ result \in RestOfResult /\ project \in Seq(Diagnostics)
      /\ result.diags \in SUBSET Diagnostics
      /\ hydraulics \in HydraulicResults /\ collector \in SUBSET Phases /\ phase \in Phases
  BY DEF RInv, Known, RunTypes, RestOfResult
<1>3. /\ hydraulics.diags = {} /\ Covers(From(project, 1), emitted[phase])
      /\ From(project, 1) \subseteq emitted[Preparing] /\ Preparing \in Phases
      /\ emitted[Preparing] \in SUBSET Diagnostics
  BY PhaseNumbers DEF RInv, Known, Sources, Reaches, RunTypes
<1>4. phase = Preparing
  BY EarlyPhase DEF Start, Early
<1>5. first \subseteq From(project, 1) /\ Covers(first, From(project, 1))
  <2>1. 1 \in Nat
    OBVIOUS
  <2>2. ASSUME NEW b \in Nat
        PROVE  /\ AppendFrom({}, project, b) \subseteq {} \union From(project, b)
               /\ Covers(AppendFrom({}, project, b), From(project, b))
    BY <1>2, AppendFromGrows
  <2>3. QED
    BY <1>3, <2>1, <2>2
<1>6. first \in SUBSET Diagnostics
  BY <1>3, <1>5
<1>7. result' = [result EXCEPT !.success = FALSE, !.state = "Error", !.diags = last]
  BY <1>1, <1>2 DEF RestOfResult
<1> HIDE DEF first
<1>8. /\ first \subseteq list /\ list \subseteq first \union said
      /\ list \in SUBSET Diagnostics /\ Covers(list, said)
  BY <1>6, AppendAllGrows
<1> HIDE DEF list
<1>9. result.diags \subseteq last /\ last \in SUBSET Diagnostics /\ Covers(last, list)
  BY <1>2, <1>8, AppendAllGrows
<1> HIDE DEF last
<1>10. /\ emitted' \in [Phases -> SUBSET Diagnostics]
       /\ emitted'[phase] = emitted[phase] \union said
       /\ \A p \in Phases : p # phase => emitted'[p] = emitted[p]
  BY <1>1, Recorded DEF RInv, Known
<1>11. /\ result' \in RestOfResult /\ result'.diags = last /\ result'.state = "Error"
  BY <1>2, <1>7, <1>9 DEF RestOfResult, RunStates
<1>12. /\ hydraulics' \in HydraulicResults /\ hydraulics'.report = collector
       /\ hydraulics'.diags = list
  BY <1>1, <1>2, <1>8 DEF HydraulicResults, FinalValidity, Validities
<1>13. list \subseteq emitted'[Preparing]
  BY <1>3, <1>4, <1>5, <1>8, <1>10
<1>14. Covers(last, emitted'[phase])
  <2>1. Covers(list, emitted[phase])
    BY <1>3, <1>5, <1>8, CoversThrough, CoversMore
  <2>2. Covers(list, emitted'[phase])
    BY <1>8, <1>10, <2>1, CoversBoth
  <2>3. QED
    BY <1>9, <2>2, CoversThrough
<1>15. HasError(last)
  <2>1. HasError(list)
    BY <1>8, CoversTrouble
  <2>2. QED
    BY <1>8, <1>9, <2>1, CoversTrouble
<1>16. QED
  BY <1>1, <1>9, <1>10, <1>11, <1>12, <1>13, <1>14, <1>15, EarlyReturnKnown

LEMMA StartKnownStep ==
  ASSUME RInv, IInv', EntryPoll \/ ValidateMsx \/ Prepare \/ Prepared
  PROVE  Known'
<1>1. CASE EntryPoll
  <2>1. CASE CancelledRun
    BY <1>1, <2>1, CancelledRunKnown DEF EntryPoll, Start
  <2>2. CASE ~CancelledRun
    BY <1>1, <2>2, StartKnown DEF EntryPoll
  <2>3. QED
    BY <2>1, <2>2
<1>2. CASE ValidateMsx
  <2>1. /\ pc = "validateMsx" /\ pc \in Start
        /\ UNCHANGED <<phase, request, project, artifacts, noticed>>
    BY <1>2 DEF ValidateMsx, Start
  <2>2. CASE pc' = "prepare" /\ UNCHANGED <<hydraulics, quality, msx, result, emitted>>
    <3>1. msx' = IF request.msx THEN "Pending" ELSE "Absent"
      BY <2>1, <2>2 DEF RInv, Known, MsxPlanned, Early
    <3>2. QED
      BY <2>1, <2>2, <3>1, StartKnown
  <2>3. CASE FailedRun({Diag("Error", "Configure")})
    <3> DEFINE said == {Diag("Error", "Configure")}
    <3>1. said \in SUBSET Diagnostics /\ HasError(said)
      <4>1. Diag("Error", "Configure") \in Diagnostics
        BY Diagnosed DEF Severities, StageNames
      <4>2. QED
        BY <4>1 DEF HasError, Diag
    <3>2. ~prepared
      BY <2>1 DEF RInv, Known, Sources
    <3>3. FailedRun(said)
      BY <2>3
    <3> HIDE DEF said
    <3>4. QED
      BY <2>1, <3>1, <3>2, <3>3, FailedRunKnown DEF artifacts
  <2>4. QED
    BY <1>2, <2>2, <2>3 DEF ValidateMsx
<1>3. CASE Prepare
  BY <1>3, PrepareKnown
<1>4. CASE Prepared
  <2>1. pc = "prepared" /\ pc \in Start
    BY <1>4 DEF Prepared, Start
  <2>2. CASE CancelledRun
    BY <2>1, <2>2, CancelledRunKnown
  <2>3. ASSUME ~prepared, NEW lines \in Remarks(TRUE, "GenerateReport"),
               FailedRun({Diag("Error", "Configure")} \union lines),
               UNCHANGED <<phase, request, project, artifacts>>
        PROVE  Known'
    <3> DEFINE said == {Diag("Error", "Configure")} \union lines
    <3>1. said \in SUBSET Diagnostics /\ HasError(said)
      <4>1. Diag("Error", "Configure") \in Diagnostics /\ "GenerateReport" \in StageNames
        BY Diagnosed DEF Severities, StageNames
      <4>2. lines \in SUBSET Diagnostics
        BY <2>3, <4>1, RemarksAreDiagnostics
      <4>3. HasError(said)
        <5>1. /\ Diag("Error", "Configure") \in said
              /\ Diag("Error", "Configure").severity = "Error"
          BY DEF Diag
        <5>2. QED
          BY <5>1 DEF HasError
      <4>4. QED
        BY <4>1, <4>2, <4>3
    <3>2. FailedRun(said)
      BY <2>3
    <3> HIDE DEF said
    <3>3. QED
      BY <2>1, <2>3, <3>1, <3>2, FailedRunKnown DEF artifacts
  <2>4. CASE /\ prepared /\ pc' = "configureHydraulics" /\ phase' = Hydraulics
             /\ checkpoint' = Checkpoint
             /\ result' = [result EXCEPT !.diags = AppendFrom(@, project, 1), !.state = "Running"]
             /\ UNCHANGED <<request, requested, project, collector, file, prepared, hydraulics,
                            quality, msx, noticed, emitted>>
    BY <2>1, <2>4, PreparedKnown
  <2>5. QED
    BY <1>4, <2>2, <2>3, <2>4 DEF Prepared
<1>5. QED
  BY <1>1, <1>2, <1>3, <1>4

-----------------------------------------------------------------------------
(* The quality children. *)

LEMMA InMiddle ==
  ASSUME RInv, pc \in Middle
  PROVE  /\ phase \in Phases /\ phase # Hydraulics /\ phase >= 1 /\ phase \in Int
         /\ Hydraulics \in Phases
         /\ \A i \in DOMAIN quality : i \in Phases /\ i \in Int /\ i <= MaxQuality
         /\ quality \in [DOMAIN quality -> ChildResults]
         /\ result \in RestOfResult /\ result.diags \in SUBSET Diagnostics
         /\ result.cancelled = FALSE
         /\ prepared
         /\ pc \in InChild =>
              /\ phase \in DOMAIN quality /\ quality[phase] \in ChildResults
              /\ quality[phase].diags \in SUBSET Diagnostics
              /\ quality[phase].diags \subseteq emitted[phase]
              /\ Covers(quality[phase].diags, emitted[phase])
              /\ collector \in SUBSET {phase}
<1>1. /\ phase \in Phases /\ phase # Hydraulics /\ phase >= 1 /\ phase \in Int
      /\ Hydraulics \in Phases
  <2>1. phase \in Phases
    BY DEF RInv, Known, RunTypes
  <2>2. phase >= 1
    BY DEF RInv, IInv, PhaseFits, Middle
  <2>3. QED
    BY <2>1, <2>2, PhaseNumbers
<1>2. \A i \in DOMAIN quality : i \in Phases /\ i \in Int /\ i <= MaxQuality
  <2>1. \A i \in DOMAIN quality : i \in 1 .. MaxQuality
    BY DEF RInv, Known, RunTypes
  <2>2. QED
    BY <2>1, PhaseNumbers
<1>3. /\ quality \in [DOMAIN quality -> ChildResults]
      /\ result \in RestOfResult /\ result.diags \in SUBSET Diagnostics
  BY DEF RInv, Known, RunTypes, RestOfResult
<1>4. result.cancelled = FALSE
  <2>1. noticed \in BOOLEAN /\ result.cancelled = noticed
    BY DEF RInv, IInv, Shape, NoticedIsCancelled
  <2>2. ~noticed
    BY DEF RInv, IInv, NotYetNoticed, Middle, InChild
  <2>3. QED
    BY <2>1, <2>2
<1>5. prepared
  BY DEF RInv, Known, Sources
<1>6. ASSUME pc \in InChild
      PROVE  /\ phase \in DOMAIN quality /\ quality[phase] \in ChildResults
             /\ quality[phase].diags \in SUBSET Diagnostics
             /\ quality[phase].diags \subseteq emitted[phase]
             /\ Covers(quality[phase].diags, emitted[phase])
             /\ collector \in SUBSET {phase}
  <2>1. phase \in DOMAIN quality
    BY <1>6 DEF RInv, IInv, PhaseFits
  <2>2. quality[phase] \in ChildResults /\ quality[phase].diags \in SUBSET Diagnostics
    BY <1>3, <2>1 DEF ChildResults
  <2>3. quality[phase].diags \subseteq emitted[phase]
    BY <2>1 DEF RInv, Known, KeptApart
  <2>4. Covers(quality[phase].diags, emitted[phase]) /\ collector \in SUBSET {phase}
    BY <1>6 DEF RInv, Known, Reaches, Sources
  <2>5. QED
    BY <2>1, <2>2, <2>3, <2>4
<1>7. QED
  BY <1>1, <1>2, <1>3, <1>4, <1>5, <1>6

(* The phase's child c goes on.                                            *)
LEMMA ChildGoesOn ==
  ASSUME RInv, pc \in Middle, pc' \in InChild, phase \in DOMAIN quality,
         UNCHANGED <<phase, request, file, prepared, hydraulics, msx, result>>,
         NEW c \in ChildResults, quality' = [quality EXCEPT ![phase] = c], c.state = "Running",
         emitted' \in [Phases -> SUBSET Diagnostics],
         \A p \in Phases : p # phase => emitted'[p] = emitted[p],
         c.diags \subseteq emitted'[phase], Covers(c.diags, emitted'[phase]),
         c.report # Unreported => c.report \subseteq {phase},
         project' \in Seq(Diagnostics), checkpoint' \in 0 .. Len(project'),
         pc' # "validateQuality" => From(project', checkpoint' + 1) \subseteq emitted'[phase],
         collector' \in SUBSET {phase},
         pc' = "reportQuality" => IF c.success THEN c.complete /\ c.nonempty ELSE HasError(c.diags)
  PROVE  Known'
<1>1. /\ phase \in Phases /\ phase # Hydraulics /\ Hydraulics \in Phases /\ prepared
      /\ \A i \in DOMAIN quality : i \in Phases
      /\ quality \in [DOMAIN quality -> ChildResults]
  BY InMiddle
<1>2. /\ DOMAIN quality' = DOMAIN quality
      /\ \A i \in DOMAIN quality : quality'[i] = IF i = phase THEN c ELSE quality[i]
      /\ quality' \in [DOMAIN quality' -> ChildResults]
  BY <1>1
<1>3. /\ pc' \in Middle /\ pc' \notin Early /\ pc' \notin Late /\ pc' # "nextChild"
      /\ pc' \notin Start /\ pc' \notin InHyd
  BY DEF Middle, InChild, Early, Late, Start, InHyd
<1>4. RunTypes'
  <2>1. collector' \in SUBSET Phases
    BY <1>1
  <2>2. QED
    BY <1>2, <2>1 DEF RInv, Known, RunTypes
<1>5. KeptApart'
  BY <1>1, <1>2 DEF RInv, Known, KeptApart
<1>6. Sources'
  <2>1. pc' \notin {"entry", "validateMsx", "prepare"}
    BY DEF InChild
  <2>2. hydraulics.report # Unreported
    BY DEF RInv, Known, Sources
  <2>3. QED
    BY <1>1, <1>3, <2>1, <2>2 DEF Sources
<1>7. Reaches'
  <2>1. \A p \in Phases : /\ p > phase => emitted'[p] = {}
                          /\ p # phase => Covers(result.diags, emitted'[p])
    <3>1. \A p \in Phases : p > phase => p # phase
      BY <1>1, PhaseNumbers
    <3>2. QED
      BY <3>1 DEF RInv, Known, Reaches
  <2>2. QED
    BY <1>2, <1>3, <2>1 DEF Reaches
<1>8. HydraulicsKnown'
  <2>1. emitted'[Hydraulics] = emitted[Hydraulics]
    BY <1>1
  <2>2. pc' \notin {"saveHydraulics", "savedHydraulics", "reportHydraulics"}
    BY DEF InChild
  <2>3. QED
    BY <1>3, <2>1, <2>2 DEF RInv, Known, HydraulicsKnown
<1>9. ChildrenKnown'
  BY <1>2 DEF RInv, Known, ChildrenKnown
<1>10. MsxPlanned' /\ Meaning'
  <2>1. /\ pc # "entry" /\ pc' # "entry" /\ pc' # "runMultiSpecies"
    BY DEF Middle, InChild
  <2>2. QED
    BY <1>3, <2>1 DEF RInv, Known, MsxPlanned, Meaning
<1>11. QED
  BY <1>4, <1>5, <1>6, <1>7, <1>8, <1>9, <1>10 DEF Known

(* The phase's child is over as c.                                         *)
LEMMA ChildIsOver ==
  ASSUME RInv, pc \in Middle, pc' = "nextChild", phase' = phase + 1, phase \in DOMAIN quality,
         UNCHANGED <<request, checkpoint, collector, file, prepared, hydraulics, msx>>,
         NEW c \in ChildResults, quality' = [quality EXCEPT ![phase] = c],
         emitted' \in [Phases -> SUBSET Diagnostics],
         \A p \in Phases : p # phase => emitted'[p] = emitted[p],
         c.diags \subseteq emitted'[phase],
         c.report # Unreported => c.report \subseteq {phase},
         project' \in Seq(Diagnostics), checkpoint' \in 0 .. Len(project'),
         result' \in RestOfResult, result.diags \subseteq result'.diags,
         Covers(result'.diags, emitted'[phase]),
         ~result'.success => HasError(result'.diags),
         c.state = "Success" => c.success /\ c.complete /\ c.validity = "Valid",
         c.state = "Error" => HasError(result'.diags),
         c.state = "Warning" => HasWarning(result'.diags)
  PROVE  Known'
<1>1. /\ phase \in Phases /\ phase # Hydraulics /\ Hydraulics \in Phases /\ prepared
      /\ phase >= 1 /\ phase \in Int /\ phase <= MaxQuality
      /\ \A i \in DOMAIN quality : i \in Phases
      /\ quality \in [DOMAIN quality -> ChildResults]
  BY InMiddle
<1>2. /\ DOMAIN quality' = DOMAIN quality
      /\ \A i \in DOMAIN quality : quality'[i] = IF i = phase THEN c ELSE quality[i]
      /\ quality' \in [DOMAIN quality' -> ChildResults]
  BY <1>1
<1>3. phase' \in Phases /\ \A p \in Phases : p > phase' \/ p = phase' => p > phase /\ p # phase
  <2>1. phase + 1 \in Int /\ -1 <= phase + 1 /\ phase + 1 <= MaxQuality + 1
    BY <1>1, PhaseNumbers
  <2>2. phase' \in Phases
    BY <2>1, PhaseNumbers
  <2>3. \A p \in Phases : p \in Int
    BY PhaseNumbers
  <2>4. QED
    BY <1>1, <2>2, <2>3
<1>4. RunTypes'
  BY <1>2, <1>3 DEF RInv, Known, RunTypes
<1>5. KeptApart'
  BY <1>1, <1>2 DEF RInv, Known, KeptApart
<1>6. Sources'
  <2>1. hydraulics.report # Unreported
    BY DEF RInv, Known, Sources
  <2>2. QED
    BY <1>1, <2>1 DEF Sources, Start, InHyd, Early, Middle, InChild
<1>7. Reaches'
  <2>1. \A p \in Phases : p > phase => emitted'[p] = {}
    <3>1. \A p \in Phases : p > phase => p # phase
      BY <1>1, PhaseNumbers
    <3>2. QED
      BY <3>1 DEF RInv, Known, Reaches
  <2>2. \A p \in Phases : Covers(result'.diags, emitted'[p])
    <3>1. \A p \in Phases : p # phase => Covers(result.diags, emitted[p])
      BY DEF RInv, Known, Reaches
    <3>2. QED
      BY <3>1, CoversMore
  <2>3. QED
    BY <1>3, <2>1, <2>2 DEF Reaches, Start, InHyd, Early, InChild, Late
<1>8. HasError(result.diags) => HasError(result'.diags)
  BY TroubleStays
<1>9. HydraulicsKnown'
  <2>1. emitted'[Hydraulics] = emitted[Hydraulics]
    BY <1>1
  <2>2. QED
    BY <1>8, <2>1 DEF RInv, Known, HydraulicsKnown, Early, Middle, InChild
<1>10. ChildrenKnown'
  <2>1. HasWarning(result.diags) => HasWarning(result'.diags)
    BY TroubleStays
  <2>2. QED
    BY <1>2, <1>8, <2>1 DEF RInv, Known, ChildrenKnown
<1>11. MsxPlanned' /\ Meaning'
  BY DEF RInv, Known, MsxPlanned, Meaning, Early, Middle, Late, InChild
<1>12. QED
  BY <1>4, <1>5, <1>6, <1>7, <1>9, <1>10, <1>11 DEF Known

LEMMA ChildEndsKnown ==
  ASSUME RInv, pc \in InChild, NEW c \in ChildResults, NEW res \in RestOfResult, NextChild(c, res),
         UNCHANGED <<request, project, checkpoint, collector, file, prepared, hydraulics, msx>>
           \/ (/\ UNCHANGED <<request, checkpoint, collector, file, prepared, hydraulics, msx>>
               /\ project' \in Seq(Diagnostics) /\ checkpoint' \in 0 .. Len(project')),
         emitted' \in [Phases -> SUBSET Diagnostics],
         \A p \in Phases : p # phase => emitted'[p] = emitted[p],
         c.diags \subseteq emitted'[phase], Covers(c.diags, emitted'[phase]),
         c.report = collector, res.diags = result.diags,
         ~res.success => ~result.success \/ HasError(c.diags),
         c.state = "Success" => c.success /\ c.complete /\ c.validity = "Valid",
         c.state = "Error" => HasError(c.diags),
         c.state = "Warning" => HasWarning(c.diags)
  PROVE  Known'
<1> DEFINE list == AppendAll(result.diags, c.diags)
<1>1. /\ phase \in DOMAIN quality /\ result.diags \in SUBSET Diagnostics
      /\ collector \in SUBSET {phase} /\ pc \in Middle
  <2>1. pc \in Middle
    BY DEF Middle
  <2>2. QED
    BY <2>1, InMiddle
<1>2. c.diags \in SUBSET Diagnostics
  BY DEF ChildResults
<1>3. /\ result.diags \subseteq list /\ list \in SUBSET Diagnostics /\ Covers(list, c.diags)
  BY <1>1, <1>2, AppendAllGrows
<1>4. /\ pc' = "nextChild" /\ phase' = phase + 1 /\ quality' = [quality EXCEPT ![phase] = c]
      /\ result' = [res EXCEPT !.diags = list]
  BY DEF NextChild, CurrentChild, RestOfResult
<1> HIDE DEF list
<1>5. result' \in RestOfResult /\ result'.diags = list /\ result'.success = res.success
  BY <1>3, <1>4 DEF RestOfResult
<1>6. project' \in Seq(Diagnostics) /\ checkpoint' \in 0 .. Len(project')
  <2>1. project \in Seq(Diagnostics) /\ checkpoint \in 0 .. Len(project)
    BY DEF RInv, Known, RunTypes
  <2>2. QED
    BY <2>1
<1>7. Covers(list, emitted'[phase])
  BY <1>3, CoversThrough
<1>8. HasError(c.diags) => HasError(list)
  BY <1>2, <1>3, CoversTrouble
<1>9. HasWarning(c.diags) => HasWarning(list)
  BY <1>2, <1>3, CoversTrouble
<1>10. ~res.success => HasError(list)
  <2>1. ~result.success => HasError(list)
    BY <1>3, TroubleStays DEF RInv, Known, ChildrenKnown
  <2>2. QED
    BY <1>8, <2>1
<1>11. /\ UNCHANGED <<request, checkpoint, collector, file, prepared, hydraulics, msx>>
       /\ c.report # Unreported => c.report \subseteq {phase}
  BY <1>1
<1>12. QED
  BY <1>1, <1>3, <1>4, <1>5, <1>6, <1>7, <1>8, <1>9, <1>10, <1>11, ChildIsOver

LEMMA ChildFailsKnown ==
  ASSUME RInv, pc \in InChild, NEW child \in ChildResults, NEW failures \in SUBSET Diagnostics,
         FailChild(child, failures), HasError(failures),
         UNCHANGED <<request, checkpoint, collector, file, prepared, hydraulics, msx>>,
         project' \in Seq(Diagnostics), checkpoint' \in 0 .. Len(project'),
         emitted' \in [Phases -> SUBSET Diagnostics],
         \A p \in Phases : p # phase => emitted'[p] = emitted[p],
         child.diags \subseteq emitted'[phase], failures \subseteq emitted'[phase],
         NEW said, Covers(child.diags, said), emitted'[phase] \subseteq said \union failures
  PROVE  Known'
<1> DEFINE list == AppendAll(child.diags, failures)
           c == [child EXCEPT !.success = FALSE, !.diags = list, !.state = "Error",
                              !.validity = FinalValidity(list, FALSE), !.report = collector]
           res == [result EXCEPT !.success = FALSE]
<1>1. NextChild(c, res)
  BY DEF FailChild
<1>2. /\ child.diags \subseteq list /\ list \subseteq child.diags \union failures
      /\ list \in SUBSET Diagnostics /\ Covers(list, failures)
  <2>1. child.diags \in SUBSET Diagnostics
    BY DEF ChildResults
  <2>2. QED
    BY <2>1, AppendAllGrows
<1> HIDE DEF list
<1>3. /\ c \in ChildResults /\ c.diags = list /\ c.state = "Error" /\ c.report = collector
  <2>1. collector \in SUBSET Phases
    BY DEF RInv, Known, RunTypes
  <2>2. QED
    BY <1>2, <2>1 DEF ChildResults, FinalValidity, Validities, RunStates
<1>4. res \in RestOfResult /\ res.diags = result.diags
  BY DEF RInv, Known, RunTypes, RestOfResult
<1> HIDE DEF c, res
<1>5. HasError(c.diags)
  BY <1>2, <1>3, CoversTrouble
<1>6. Covers(c.diags, emitted'[phase])
  <2>1. Covers(list, said \union failures)
    BY <1>2, CoversMore, CoversBoth
  <2>2. QED
    BY <1>3, <2>1 DEF Covers
<1>7. c.diags \subseteq emitted'[phase]
  BY <1>2, <1>3
<1>8. QED
  BY <1>1, <1>3, <1>4, <1>5, <1>6, <1>7, ChildEndsKnown

(* A poll in the phase notices the request: the rest is cancelled.         *)
LEMMA ChildCancelsKnown ==
  ASSUME RInv, IInv', pc \in Middle, phase \in DOMAIN quality,
         NEW list \in [DOMAIN quality -> ChildResults],
         \A i \in DOMAIN quality : i # phase => list[i] = quality[i],
         list[phase].state \in {"Pending", "Cancelled"},
         list[phase].diags \subseteq emitted'[phase],
         list[phase].report # Unreported => list[phase].report \subseteq {phase},
         NEW res \in RestOfResult, res.cancelled = TRUE, res.success = result.success,
         result.diags \subseteq res.diags, Covers(res.diags, emitted'[phase]),
         StopExecutor(res, hydraulics, Settled(list, "Cancelled")),
         UNCHANGED <<phase, request, checkpoint, file, prepared, msx>>,
         project' \in Seq(Diagnostics), checkpoint' \in 0 .. Len(project'),
         collector' \in SUBSET Phases, emitted' \in [Phases -> SUBSET Diagnostics],
         \A p \in Phases : p # phase => emitted'[p] = emitted[p]
  PROVE  Known'
<1> DEFINE children == Settled(list, "Cancelled")
<1>1. /\ phase \in Phases /\ phase # Hydraulics /\ Hydraulics \in Phases
      /\ \A i \in DOMAIN quality : i \in Phases
  BY InMiddle
<1>2. /\ children \in [DOMAIN quality -> ChildResults]
      /\ \A i \in DOMAIN quality :
           /\ children[i].state = IF list[i].state = "Pending" THEN "Cancelled" ELSE list[i].state
           /\ children[i].diags = list[i].diags /\ children[i].report = list[i].report
           /\ children[i].success = list[i].success /\ children[i].complete = list[i].complete
           /\ children[i].validity = list[i].validity
  <2>1. \A i \in DOMAIN quality : children[i] =
          IF list[i].state = "Pending" THEN [list[i] EXCEPT !.state = "Cancelled"] ELSE list[i]
    BY DEF Settled
  <2>2. children = [i \in DOMAIN quality |-> children[i]]
    BY DEF Settled
  <2> HIDE DEF children
  <2>3. ASSUME NEW i \in DOMAIN quality
        PROVE  /\ children[i] \in ChildResults
               /\ children[i].state = IF list[i].state = "Pending" THEN "Cancelled"
                                      ELSE list[i].state
               /\ children[i].diags = list[i].diags /\ children[i].report = list[i].report
               /\ children[i].success = list[i].success
               /\ children[i].complete = list[i].complete
               /\ children[i].validity = list[i].validity
    <3>1. list[i] \in ChildResults
      OBVIOUS
    <3>2. QED
      BY <2>1, <3>1 DEF ChildResults, RunStates
  <2>4. QED
    BY <2>2, <2>3
<1>3. StopExecutor(res, hydraulics, children)
  OBVIOUS
<1> HIDE DEF children
<1>4. \A i \in DOMAIN quality :
        /\ children[i].diags \subseteq emitted'[i]
        /\ children[i].report # Unreported => children[i].report \subseteq {i}
  <2>1. TAKE i \in DOMAIN quality
  <2>2. CASE i = phase
    BY <1>2, <2>2
  <2>3. CASE i # phase
    BY <1>1, <1>2, <2>3 DEF RInv, Known, KeptApart
  <2>4. QED
    BY <2>2, <2>3
<1>5. /\ hydraulics \in HydraulicResults
      /\ hydraulics.diags \subseteq emitted'[Hydraulics]
      /\ IF hydraulics.report = Unreported THEN collector' \subseteq {Hydraulics}
         ELSE hydraulics.report \subseteq {Hydraulics}
  <2>1. prepared /\ hydraulics.report # Unreported
    BY DEF RInv, Known, Sources
  <2>2. QED
    BY <1>1, <2>1 DEF RInv, Known, KeptApart, RunTypes
<1>6. \A p \in Phases : p > phase => emitted'[p] = {}
  <2>1. \A p \in Phases : p > phase => p # phase
    BY <1>1, PhaseNumbers
  <2>2. QED
    BY <2>1 DEF RInv, Known, Reaches
<1>7. \A p \in Phases : Covers(res.diags, emitted'[p])
  <2>1. \A p \in Phases : p # phase => Covers(result.diags, emitted[p])
    BY DEF RInv, Known, Reaches
  <2>2. QED
    BY <2>1, CoversMore
<1>8. /\ HasError(result.diags) => HasError(res.diags)
      /\ HasWarning(result.diags) => HasWarning(res.diags)
  BY TroubleStays
<1>9. \A i \in DOMAIN quality :
        /\ children[i].state = "Success" =>
             children[i].success /\ children[i].complete /\ children[i].validity = "Valid"
        /\ children[i].state = "Error" => HasError(res.diags)
        /\ children[i].state = "Warning" => HasWarning(res.diags)
  <2>1. TAKE i \in DOMAIN quality
  <2>2. CASE i = phase
    BY <1>2, <2>2
  <2>3. CASE i # phase
    BY <1>2, <1>8, <2>3 DEF RInv, Known, ChildrenKnown
  <2>4. QED
    BY <2>2, <2>3
<1>10. ~res.success => HasError(res.diags)
  BY <1>8 DEF RInv, Known, ChildrenKnown
<1>11. pc \in InHyd \union Middle
  OBVIOUS
<1>12. QED
  BY <1>2, <1>3, <1>4, <1>5, <1>6, <1>7, <1>9, <1>10, <1>11, StopsKnown

(* A child that was not asked for.                                         *)
LEMMA SkipKnown == ASSUME RInv, SkipChild PROVE Known'
<1>1. /\ pc = "nextChild" /\ pc' = "nextChild" /\ phase' = phase + 1 /\ pc \in Middle
      /\ phase \in DOMAIN quality /\ request.quality[phase] = "None"
      /\ quality' = [quality EXCEPT ![phase].state = "Skipped"]
      /\ UNCHANGED <<request, project, checkpoint, collector, file, prepared, hydraulics, msx,
                     result, emitted>>
  BY DEF SkipChild, Middle, artifacts
<1>2. /\ quality[phase] \in ChildResults /\ emitted[phase] = {} /\ phase \in Phases
      /\ result \in RestOfResult /\ emitted \in [Phases -> SUBSET Diagnostics]
      /\ project \in Seq(Diagnostics) /\ checkpoint \in 0 .. Len(project)
      /\ quality \in [DOMAIN quality -> ChildResults]
  <2>1. /\ quality \in [DOMAIN quality -> ChildResults] /\ phase \in Phases
        /\ result \in RestOfResult
    BY <1>1, InMiddle
  <2>2. /\ project \in Seq(Diagnostics) /\ checkpoint \in 0 .. Len(project)
        /\ emitted \in [Phases -> SUBSET Diagnostics]
    BY DEF RInv, Known, RunTypes
  <2>3. emitted[phase] = {}
    BY <1>1, <2>1 DEF RInv, Known, Reaches
  <2>4. QED
    BY <1>1, <2>1, <2>2, <2>3
<1> DEFINE c == [quality[phase] EXCEPT !.state = "Skipped"]
<1>3. /\ c \in ChildResults /\ c.state = "Skipped" /\ c.diags = quality[phase].diags
      /\ c.report = quality[phase].report
  BY <1>2 DEF ChildResults, RunStates
<1>4. quality' = [quality EXCEPT ![phase] = c]
  BY <1>1, <1>2
<1> HIDE DEF c
<1>5. /\ c.diags \subseteq emitted'[phase]
      /\ c.report # Unreported => c.report \subseteq {phase}
  BY <1>1, <1>3 DEF RInv, Known, KeptApart
<1>6. Covers(result'.diags, emitted'[phase])
  BY <1>1, <1>2, EmptyLists
<1>7. ~result'.success => HasError(result'.diags)
  BY <1>1 DEF RInv, Known, ChildrenKnown
<1>8. /\ emitted' \in [Phases -> SUBSET Diagnostics]
      /\ \A p \in Phases : p # phase => emitted'[p] = emitted[p]
      /\ result' \in RestOfResult /\ result.diags \subseteq result'.diags
      /\ project' \in Seq(Diagnostics) /\ checkpoint' \in 0 .. Len(project')
  BY <1>1, <1>2
<1>9. QED
  BY <1>1, <1>3, <1>4, <1>5, <1>6, <1>7, <1>8, ChildIsOver

LEMMA BeginKnown == ASSUME RInv, IInv', StartChild PROVE Known'
<1>1. /\ pc = "nextChild" /\ pc \in Middle /\ phase \in DOMAIN quality
      /\ UNCHANGED <<phase, request, project, checkpoint, file, prepared, msx, emitted>>
  BY DEF StartChild, Middle
<1>2. /\ quality[phase] \in ChildResults /\ emitted[phase] = {} /\ phase \in Phases
      /\ result \in RestOfResult /\ emitted \in [Phases -> SUBSET Diagnostics]
      /\ project \in Seq(Diagnostics) /\ checkpoint \in 0 .. Len(project)
      /\ quality \in [DOMAIN quality -> ChildResults] /\ collector \in SUBSET Phases
      /\ quality[phase].state = "Pending"
  <2>1. /\ quality \in [DOMAIN quality -> ChildResults] /\ phase \in Phases
        /\ result \in RestOfResult
    BY <1>1, InMiddle
  <2>2. /\ project \in Seq(Diagnostics) /\ checkpoint \in 0 .. Len(project)
        /\ emitted \in [Phases -> SUBSET Diagnostics] /\ collector \in SUBSET Phases
    BY DEF RInv, Known, RunTypes
  <2>3. emitted[phase] = {}
    BY <1>1, <2>1 DEF RInv, Known, Reaches
  <2>4. quality[phase].state = "Pending"
    BY <1>1, InAChild DEF RInv
  <2>5. QED
    BY <1>1, <2>1, <2>2, <2>3, <2>4
<1>3. /\ quality[phase].diags = {}
      /\ quality[phase].report # Unreported => quality[phase].report \subseteq {phase}
  BY <1>1, <1>2 DEF RInv, Known, KeptApart
<1>4. Covers({}, emitted[phase]) /\ Covers(result.diags, emitted[phase])
  BY <1>2, EmptyLists
<1>5. /\ emitted' \in [Phases -> SUBSET Diagnostics]
      /\ \A p \in Phases : p # phase => emitted'[p] = emitted[p]
      /\ project' \in Seq(Diagnostics) /\ checkpoint' \in 0 .. Len(project')
  BY <1>1, <1>2
<1>6. CASE /\ UNCHANGED collector
           /\ StopExecutor([result EXCEPT !.cancelled = TRUE], hydraulics,
                           Settled(quality, "Cancelled"))
  <2> DEFINE res == [result EXCEPT !.cancelled = TRUE]
  <2>1. /\ res \in RestOfResult /\ res.cancelled = TRUE /\ res.success = result.success
        /\ res.diags = result.diags
    BY <1>2 DEF RestOfResult
  <2>2. StopExecutor(res, hydraulics, Settled(quality, "Cancelled"))
    BY <1>6
  <2> HIDE DEF res
  <2>3. /\ result.diags \subseteq res.diags /\ Covers(res.diags, emitted'[phase])
        /\ quality[phase].diags \subseteq emitted'[phase]
        /\ quality[phase].state \in {"Pending", "Cancelled"}
        /\ collector' \in SUBSET Phases
    BY <1>1, <1>2, <1>3, <1>4, <1>6, <2>1
  <2>4. QED
    BY <1>1, <1>2, <1>3, <1>5, <2>1, <2>2, <2>3, ChildCancelsKnown
<1>7. CASE /\ pc' = "validateQuality" /\ collector' = {}
           /\ quality' = [quality EXCEPT ![phase].state = "Running"]
           /\ UNCHANGED <<hydraulics, result>>
  <2> DEFINE c == [quality[phase] EXCEPT !.state = "Running"]
  <2>1. /\ c \in ChildResults /\ c.state = "Running" /\ c.diags = quality[phase].diags
        /\ c.report = quality[phase].report
    BY <1>2 DEF ChildResults, RunStates
  <2>2. quality' = [quality EXCEPT ![phase] = c]
    BY <1>2, <1>7
  <2> HIDE DEF c
  <2>3. /\ c.diags \subseteq emitted'[phase] /\ Covers(c.diags, emitted'[phase])
        /\ c.report # Unreported => c.report \subseteq {phase}
    BY <1>1, <1>3, <1>4, <2>1
  <2>4. /\ pc' \in InChild /\ pc' # "reportQuality" /\ collector' \in SUBSET {phase}
    BY <1>7 DEF InChild
  <2>5. QED
    BY <1>1, <1>5, <1>7, <2>1, <2>2, <2>3, <2>4, ChildGoesOn
<1>8. QED
  BY <1>6, <1>7 DEF StartChild

LEMMA ValidateKnown == ASSUME RInv, ValidateQuality PROVE Known'
<1>1. /\ pc = "validateQuality" /\ pc \in InChild /\ pc \in Middle
      /\ UNCHANGED <<request, project, collector, file, prepared, hydraulics, msx>>
  BY DEF ValidateQuality, InChild, Middle
<1>2. /\ phase \in DOMAIN quality /\ quality[phase] \in ChildResults /\ phase \in Phases
      /\ quality[phase].diags \in SUBSET Diagnostics
      /\ quality[phase].diags \subseteq emitted[phase]
      /\ Covers(quality[phase].diags, emitted[phase])
      /\ collector \in SUBSET {phase}
      /\ quality \in [DOMAIN quality -> ChildResults]
  BY <1>1, InMiddle
<1>3. /\ project \in Seq(Diagnostics) /\ checkpoint \in 0 .. Len(project)
      /\ emitted \in [Phases -> SUBSET Diagnostics]
  BY DEF RInv, Known, RunTypes
<1>4. CASE /\ pc' = "configureQuality" /\ checkpoint' = Checkpoint
           /\ UNCHANGED <<phase, quality, result, emitted>>
  <2> DEFINE c == quality[phase]
  <2>1. c.state = "Running" /\ quality' = [quality EXCEPT ![phase] = c]
    <3>1. quality[phase].state = "Running"
      BY <1>1, InAChild DEF RInv, InChild
    <3>2. QED
      BY <1>2, <1>4, <3>1
  <2>2. c.report # Unreported => c.report \subseteq {phase}
    BY <1>2 DEF RInv, Known, KeptApart
  <2>3. checkpoint' \in 0 .. Len(project')
    BY <1>1, <1>3, <1>4 DEF Checkpoint
  <2>4. From(project', checkpoint' + 1) \subseteq emitted'[phase]
    <3>1. checkpoint' + 1 > Len(project') /\ Len(project') \in Nat
      BY <1>1, <1>3, <1>4 DEF Checkpoint
    <3>2. checkpoint' + 1 \in Int
      BY <1>1, <1>3, <1>4 DEF Checkpoint
    <3>3. From(project', checkpoint' + 1) = {}
      BY <3>1, <3>2 DEF From
    <3>4. QED
      BY <3>3
  <2>5. /\ c \in ChildResults /\ c.diags \subseteq emitted'[phase] /\ Covers(c.diags, emitted'[phase])
        /\ emitted' \in [Phases -> SUBSET Diagnostics]
        /\ \A p \in Phases : p # phase => emitted'[p] = emitted[p]
        /\ project' \in Seq(Diagnostics) /\ collector' \in SUBSET {phase}
    BY <1>1, <1>2, <1>3, <1>4
  <2>6. pc' \in InChild /\ pc' # "reportQuality"
    BY <1>4 DEF InChild
  <2> HIDE DEF c
  <2>7. QED
    BY <1>1, <1>2, <1>4, <2>1, <2>2, <2>3, <2>4, <2>5, <2>6, ChildGoesOn
<1> DEFINE failure == {Diag("Error", "Configure")}
<1>5. CASE Record(failure) /\ FailChild(quality[phase], failure) /\ UNCHANGED checkpoint
  <2>1. failure \in SUBSET Diagnostics /\ HasError(failure)
    <3>1. Diag("Error", "Configure") \in Diagnostics
      BY Diagnosed DEF Severities, StageNames
    <3>2. QED
      BY <3>1 DEF HasError, Diag
  <2> HIDE DEF failure
  <2>2. /\ emitted' \in [Phases -> SUBSET Diagnostics]
        /\ emitted'[phase] = emitted[phase] \union failure
        /\ \A p \in Phases : p # phase => emitted'[p] = emitted[p]
    BY <1>5, <2>1, Recorded DEF RInv, Known
  <2>3. /\ quality[phase].diags \subseteq emitted'[phase] /\ failure \subseteq emitted'[phase]
        /\ emitted'[phase] \subseteq emitted[phase] \union failure
        /\ project' \in Seq(Diagnostics) /\ checkpoint' \in 0 .. Len(project')
        /\ UNCHANGED <<request, checkpoint, collector, file, prepared, hydraulics, msx>>
    BY <1>1, <1>2, <1>3, <1>5, <2>2
  <2>4. QED
    BY <1>1, <1>2, <1>5, <2>1, <2>2, <2>3, ChildFailsKnown
<1>6. QED
  BY <1>4, <1>5 DEF ValidateQuality

LEMMA ConfigureQualityKnown == ASSUME RInv, ConfigureQuality PROVE Known'
<1>1. /\ pc = "configureQuality" /\ pc \in InChild /\ pc \in Middle
      /\ pc \in InHyd \union (InChild \ {"validateQuality"})
      /\ UNCHANGED <<request, checkpoint, collector, file, prepared, hydraulics, msx>>
  BY DEF ConfigureQuality, InChild, Middle, artifacts
<1>2. /\ phase \in DOMAIN quality /\ quality[phase] \in ChildResults /\ phase \in Phases
      /\ quality[phase].diags \in SUBSET Diagnostics
      /\ quality[phase].diags \subseteq emitted[phase]
      /\ Covers(quality[phase].diags, emitted[phase])
      /\ collector \in SUBSET {phase}
      /\ quality \in [DOMAIN quality -> ChildResults]
  BY <1>1, InMiddle
<1> DEFINE list == SinceCheckpoint(quality[phase].diags)
           child == [quality[phase] EXCEPT !.diags = list]
           failure == {Diag("Error", "Configure")}
<1>3. PICK success \in BOOLEAN : \E ds \in Remarks(success, "Configure") :
        /\ Record(ds)
        /\ project' = project \o SetToSeq(ds)
        /\ success => ~HasError(ds)
        /\ IF success
           THEN pc' = "solveQuality" /\ CurrentChild(child) /\ UNCHANGED <<phase, result>>
           ELSE FailChild(child, failure)
  <2>1. [quality[phase] EXCEPT !.diags = SinceCheckpoint(@)] = child
    BY <1>2 DEF ChildResults
  <2>2. QED
    BY <2>1 DEF ConfigureQuality
<1>4. PICK ds \in Remarks(success, "Configure") :
        /\ Record(ds)
        /\ project' = project \o SetToSeq(ds)
        /\ IF success
           THEN pc' = "solveQuality" /\ CurrentChild(child) /\ UNCHANGED <<phase, result>>
           ELSE FailChild(child, failure)
  BY <1>3
<1> HIDE DEF child, failure
<1>4b. /\ Record(ds) /\ project' = project \o SetToSeq(ds) /\ UNCHANGED checkpoint
       /\ pc \in InHyd \union (InChild \ {"validateQuality"})
       /\ quality[phase].diags \in SUBSET Diagnostics
  BY <1>1, <1>2, <1>4
<1>5. ds \in SUBSET Diagnostics
  <2>1. "Configure" \in StageNames
    BY DEF StageNames
  <2>2. QED
    BY <2>1, RemarksAreDiagnostics
<1>6. /\ quality[phase].diags \subseteq list
      /\ list \subseteq quality[phase].diags \union emitted[phase] \union ds
      /\ list \in SUBSET Diagnostics /\ Covers(list, ds)
      /\ project' \in Seq(Diagnostics) /\ checkpoint' \in 0 .. Len(project')
      /\ From(project', checkpoint' + 1) \subseteq emitted[phase] \union ds
  BY <1>4b, <1>5, Speaks
<1> HIDE DEF list
<1>7. /\ emitted' \in [Phases -> SUBSET Diagnostics]
      /\ emitted'[phase] = emitted[phase] \union ds
      /\ \A p \in Phases : p # phase => emitted'[p] = emitted[p]
  BY <1>4b, <1>5, Recorded DEF RInv, Known
<1>8. /\ child \in ChildResults /\ child.diags = list /\ child.state = quality[phase].state
      /\ child.report = quality[phase].report
  BY <1>2, <1>6 DEF ChildResults, child
<1>9. Covers(child.diags, emitted'[phase]) /\ child.diags \subseteq emitted'[phase]
  <2>1. Covers(list, emitted[phase])
    BY <1>2, <1>6, CoversMore
  <2>2. QED
    BY <1>2, <1>6, <1>7, <1>8, <2>1, CoversBoth
<1>10. CASE success
  <2>1. pc' = "solveQuality" /\ quality' = [quality EXCEPT ![phase] = child] /\ UNCHANGED <<phase, result>>
    BY <1>4, <1>10 DEF CurrentChild
  <2>2. child.state = "Running"
    BY <1>1, <1>8, InAChild DEF RInv, InChild
  <2>3. child.report # Unreported => child.report \subseteq {phase}
    BY <1>2, <1>8 DEF RInv, Known, KeptApart
  <2>4. /\ pc' \in InChild /\ pc' # "reportQuality" /\ collector' \in SUBSET {phase}
        /\ From(project', checkpoint' + 1) \subseteq emitted'[phase]
    BY <1>1, <1>2, <1>6, <1>7, <2>1 DEF InChild
  <2>5. QED
    BY <1>1, <1>2, <1>6, <1>7, <1>8, <1>9, <2>1, <2>2, <2>3, <2>4, ChildGoesOn
<1>11. CASE ~success
  (* The status of the failure is one of the errors that were diagnosed. *)
  <2>1. Diag("Error", "Configure") \in ds
    BY <1>11 DEF Remarks
  <2>2. failure \in SUBSET Diagnostics /\ HasError(failure) /\ failure \subseteq emitted'[phase]
    <3>1. Diag("Error", "Configure") \in Diagnostics
      BY Diagnosed DEF Severities, StageNames
    <3>2. Diag("Error", "Configure") \in failure
      BY DEF failure
    <3>3. HasError(failure)
      BY <3>2 DEF HasError, Diag
    <3>4. QED
      BY <1>7, <2>1, <3>1, <3>3 DEF failure
  <2>3. FailChild(child, failure)
    BY <1>4, <1>11
  <2>4. emitted'[phase] \subseteq emitted'[phase] \union failure
    OBVIOUS
  <2>5. QED
    BY <1>1, <1>6, <1>7, <1>8, <1>9, <2>2, <2>3, <2>4, ChildFailsKnown
<1>12. QED
  BY <1>10, <1>11

(* The solver of a child returned, or noticed the request at its entry.    *)
LEMMA QualityReturnKnown ==
  ASSUME RInv, IInv', pc \in InChild \ {"validateQuality"},
         NEW o, o \in QualityOutcomes \/ o = NotStarted, QualityReturn(o),
         UNCHANGED <<phase, request, checkpoint, file, prepared, msx>>
  PROVE  Known'
<1>1. /\ pc \in InChild /\ pc \in Middle
      /\ pc \in InHyd \union (InChild \ {"validateQuality"})
  BY DEF InChild, Middle
<1>2. /\ phase \in DOMAIN quality /\ quality[phase] \in ChildResults /\ phase \in Phases
      /\ quality[phase].diags \in SUBSET Diagnostics
      /\ quality[phase].diags \subseteq emitted[phase]
      /\ Covers(quality[phase].diags, emitted[phase])
      /\ collector \in SUBSET {phase}
      /\ quality \in [DOMAIN quality -> ChildResults]
      /\ result \in RestOfResult /\ result.diags \in SUBSET Diagnostics
  BY <1>1, InMiddle
<1>3. /\ o.cancelled \in BOOLEAN /\ o.success \in BOOLEAN /\ o.nonempty \in BOOLEAN
      /\ o.complete \in BOOLEAN
      /\ o.diags \in SUBSET Diagnostics
      /\ o.complete => o.nonempty
      /\ ~o.cancelled /\ o.success => o.complete
      /\ ~o.success /\ o \in QualityOutcomes => HasError(o.diags)
  BY Outcomes
<1>4. ~o.success => HasError(o.diags)
  BY <1>3 DEF NotStarted
<1> DEFINE warnings == {d \in o.diags : d.severity = "Warning"}
           before == quality[phase].diags \union (o.diags \ warnings)
           list  == SinceCheckpoint(before)
           child == [quality[phase] EXCEPT !.success = o.success, !.nonempty = o.nonempty,
                       !.complete = o.complete, !.diags = list]
           stopped == [child EXCEPT !.state = "Cancelled", !.report = collector',
                                    !.validity = CancelledValidity(o.nonempty)]
           ended == [child EXCEPT !.validity = FinalValidity(list, o.nonempty)]
           all == AppendAll(result.diags, list)
           res == [result EXCEPT !.cancelled = TRUE, !.diags = all]
           children == [quality EXCEPT ![phase] = stopped]
<1>5. /\ Record(o.diags)
      /\ project' = project \o SetToSeq(warnings)
      /\ collector' = collector \union {phase}
      /\ \/ StopExecutor(res, hydraulics, Settled(children, "Cancelled"))
         \/ /\ ~o.cancelled
            /\ pc' = "reportQuality" /\ quality' = [quality EXCEPT ![phase] = ended]
            /\ UNCHANGED <<hydraulics, result>>
  <2>1. [result EXCEPT !.cancelled = TRUE, !.diags = AppendAll(@, list)] = res
    BY <1>2 DEF RestOfResult
  <2>2. QED
    BY <2>1 DEF QualityReturn, CurrentChild
<1>6. warnings \in SUBSET Diagnostics /\ before \in SUBSET Diagnostics
  BY <1>2, <1>3
<1>7. o.diags \subseteq before \union warnings
  OBVIOUS
<1>8. before \subseteq emitted[phase] \union o.diags /\ warnings \subseteq o.diags
  BY <1>2
<1>9. quality[phase].diags \subseteq before /\ o.diags \ warnings \subseteq before
  OBVIOUS
<1> HIDE DEF children, res, all, ended, stopped, child, list, before, warnings
<1>10. /\ before \subseteq list
       /\ list \subseteq before \union emitted[phase] \union warnings
       /\ list \in SUBSET Diagnostics /\ Covers(list, warnings)
       /\ project' \in Seq(Diagnostics) /\ checkpoint' \in 0 .. Len(project')
       /\ From(project', checkpoint' + 1) \subseteq emitted[phase] \union warnings
  <2>1. UNCHANGED checkpoint /\ project' = project \o SetToSeq(warnings)
    BY <1>5
  <2>2. /\ before \subseteq SinceCheckpoint(before)
        /\ SinceCheckpoint(before) \subseteq before \union emitted[phase] \union warnings
        /\ SinceCheckpoint(before) \in SUBSET Diagnostics
        /\ Covers(SinceCheckpoint(before), warnings)
        /\ project' \in Seq(Diagnostics) /\ checkpoint' \in 0 .. Len(project')
        /\ From(project', checkpoint' + 1) \subseteq emitted[phase] \union warnings
    BY <1>1, <1>6, <2>1, Speaks
  <2>3. QED
    BY <2>2 DEF list
<1>11. /\ emitted' \in [Phases -> SUBSET Diagnostics]
       /\ emitted'[phase] = emitted[phase] \union o.diags
       /\ \A p \in Phases : p # phase => emitted'[p] = emitted[p]
  BY <1>3, <1>5, Recorded DEF RInv, Known
<1>12. /\ list \subseteq emitted'[phase]
       /\ From(project', checkpoint' + 1) \subseteq emitted'[phase]
  BY <1>8, <1>10, <1>11
<1>13. Covers(list, emitted'[phase])
  <2>1. Covers(list, before)
    BY <1>10, CoversItself, CoversMore
  <2>2. Covers(list, emitted[phase])
    BY <1>2, <1>9, <1>10, CoversMore
  <2>3. Covers(list, o.diags)
    BY <1>7, <1>10, <2>1 DEF Covers
  <2>4. QED
    BY <1>11, <2>2, <2>3, CoversBoth
<1>14. /\ child \in ChildResults /\ child.success = o.success /\ child.nonempty = o.nonempty
       /\ child.complete = o.complete /\ child.diags = list
       /\ child.state = quality[phase].state /\ child.report = quality[phase].report
  BY <1>2, <1>3, <1>10 DEF child, ChildResults
<1>15. collector' \in SUBSET {phase} /\ collector' \in SUBSET Phases
  BY <1>2, <1>5
<1>16. CASE /\ ~o.cancelled
            /\ pc' = "reportQuality" /\ quality' = [quality EXCEPT ![phase] = ended]
            /\ UNCHANGED <<hydraulics, result>>
  <2>1. FinalValidity(list, o.nonempty) \in Validities
    BY DEF FinalValidity, Validities
  <2>2. /\ ended \in ChildResults /\ ended.success = o.success /\ ended.nonempty = o.nonempty
        /\ ended.complete = o.complete /\ ended.diags = list
        /\ ended.state = quality[phase].state /\ ended.report = quality[phase].report
    BY <1>14, <2>1 DEF ended, ChildResults
  <2>3. ended.state = "Running"
    BY <1>1, <2>2, InAChild DEF RInv
  <2>4. ended.report # Unreported => ended.report \subseteq {phase}
    BY <1>2, <2>2 DEF RInv, Known, KeptApart
  <2>5. ~o.success => HasError(list)
    <3>1. HasError(o.diags) => HasError(emitted'[phase])
      BY <1>11, TroubleStays
    <3>2. emitted'[phase] \in SUBSET Diagnostics
      BY <1>2, <1>11
    <3>3. HasError(emitted'[phase]) => HasError(list)
      BY <1>10, <1>13, <3>2, CoversTrouble
    <3>4. QED
      BY <1>4, <3>1, <3>3
  <2>6. IF ended.success THEN ended.complete /\ ended.nonempty ELSE HasError(ended.diags)
    BY <1>3, <1>16, <2>2, <2>5
  <2>7. pc' \in InChild
    BY <1>16 DEF InChild
  <2>8. ended.diags \subseteq emitted'[phase] /\ Covers(ended.diags, emitted'[phase])
    BY <1>12, <1>13, <2>2
  <2>9. QED
    BY <1>1, <1>2, <1>10, <1>11, <1>12, <1>15, <1>16, <2>2, <2>3, <2>4, <2>6, <2>7, <2>8,
       ChildGoesOn
<1>17. CASE StopExecutor(res, hydraulics, Settled(children, "Cancelled"))
  <2>1. CancelledValidity(o.nonempty) \in Validities
    BY DEF CancelledValidity, Validities
  <2>2. /\ stopped \in ChildResults /\ stopped.state = "Cancelled" /\ stopped.diags = list
        /\ stopped.report = collector'
    BY <1>14, <1>15, <2>1 DEF stopped, ChildResults, RunStates
  <2>3. /\ result.diags \subseteq all /\ all \in SUBSET Diagnostics /\ Covers(all, list)
    BY <1>2, <1>10, AppendAllGrows DEF all
  <2>4. /\ res \in RestOfResult /\ res.cancelled = TRUE /\ res.success = result.success
        /\ res.diags = all
    BY <1>2, <2>3 DEF res, RestOfResult
  <2>5. Covers(res.diags, emitted'[phase])
    BY <1>13, <2>3, <2>4, CoversThrough
  <2>6. /\ children \in [DOMAIN quality -> ChildResults]
        /\ \A i \in DOMAIN quality : i # phase => children[i] = quality[i]
        /\ children[phase] = stopped
    BY <1>2, <2>2 DEF children
  <2>7. /\ children[phase].state \in {"Pending", "Cancelled"}
        /\ children[phase].diags \subseteq emitted'[phase]
        /\ children[phase].report # Unreported => children[phase].report \subseteq {phase}
        /\ result.diags \subseteq res.diags
    BY <1>12, <1>15, <2>2, <2>3, <2>4, <2>6
  <2>8. QED
    BY <1>1, <1>2, <1>10, <1>11, <1>15, <1>17, <2>4, <2>5, <2>6, <2>7, ChildCancelsKnown
<1>18. QED
  BY <1>5, <1>16, <1>17

LEMMA SolveQualityKnown ==
  ASSUME RInv, IInv', SolveQuality \/ SolvedQuality
  PROVE  Known'
<1>1. /\ pc \in InChild \ {"validateQuality"} /\ pc \in Middle
      /\ UNCHANGED <<phase, request, checkpoint, file, prepared, msx>>
  BY DEF SolveQuality, SolvedQuality, InChild, Middle
<1>2. ASSUME NEW o, o \in QualityOutcomes \/ o = NotStarted, QualityReturn(o)
      PROVE  Known'
  BY <1>1, <1>2, QualityReturnKnown
<1>3. CASE /\ pc' = "solvingQuality"
           /\ UNCHANGED <<project, collector, hydraulics, quality, result, emitted>>
  <2> DEFINE c == quality[phase]
  <2>1. /\ phase \in DOMAIN quality /\ quality[phase] \in ChildResults
        /\ quality[phase].diags \subseteq emitted[phase]
        /\ Covers(quality[phase].diags, emitted[phase])
        /\ collector \in SUBSET {phase}
        /\ quality \in [DOMAIN quality -> ChildResults]
    BY <1>1, InMiddle
  <2>2. quality[phase].state = "Running"
    BY <1>1, InAChild DEF RInv
  <2>3. /\ project \in Seq(Diagnostics) /\ checkpoint \in 0 .. Len(project)
        /\ emitted \in [Phases -> SUBSET Diagnostics]
    BY DEF RInv, Known, RunTypes
  <2>4. From(project, checkpoint + 1) \subseteq emitted[phase]
    BY <1>1 DEF RInv, Known, Sources
  <2>5. quality[phase].report # Unreported => quality[phase].report \subseteq {phase}
    BY <2>1 DEF RInv, Known, KeptApart
  <2>6. /\ c \in ChildResults /\ c.state = "Running" /\ quality' = [quality EXCEPT ![phase] = c]
        /\ c.diags \subseteq emitted'[phase] /\ Covers(c.diags, emitted'[phase])
        /\ emitted' \in [Phases -> SUBSET Diagnostics]
        /\ \A p \in Phases : p # phase => emitted'[p] = emitted[p]
    BY <1>1, <1>3, <2>1, <2>2, <2>3
  <2>7. c.report # Unreported => c.report \subseteq {phase}
    BY <2>5
  <2>8. /\ project' \in Seq(Diagnostics) /\ checkpoint' \in 0 .. Len(project')
        /\ From(project', checkpoint' + 1) \subseteq emitted'[phase]
        /\ collector' \in SUBSET {phase}
    BY <1>1, <1>3, <2>1, <2>3, <2>4
  <2>9. pc' \in InChild /\ pc' # "reportQuality"
    BY <1>3 DEF InChild
  <2> HIDE DEF c
  <2>10. QED
    BY <1>1, <1>3, <2>1, <2>6, <2>7, <2>8, <2>9, ChildGoesOn
<1>4. QED
  BY <1>2, <1>3 DEF SolveQuality, SolvedQuality

LEMMA ReportQualityKnown == ASSUME RInv, ReportQuality PROVE Known'
<1>1. /\ pc = "reportQuality" /\ pc \in InChild /\ pc \in Middle
      /\ UNCHANGED <<request, project, checkpoint, collector, file, prepared, hydraulics, msx>>
  BY DEF ReportQuality, InChild, Middle, artifacts
<1>2. /\ phase \in DOMAIN quality /\ quality[phase] \in ChildResults /\ phase \in Phases
      /\ quality[phase].diags \in SUBSET Diagnostics
      /\ quality[phase].diags \subseteq emitted[phase]
      /\ Covers(quality[phase].diags, emitted[phase])
      /\ collector \in SUBSET {phase}
      /\ result \in RestOfResult
  BY <1>1, InMiddle
<1>3. PICK reported \in BOOLEAN : \E ds \in Remarks(reported, "GenerateReport") :
         LET child   == quality[phase]
             success == child.success /\ reported
             list    == AppendAll(child.diags, ds)
         IN  /\ Record(ds)
             /\ NextChild([child EXCEPT !.success = success, !.diags = list, !.report = collector,
                                        !.validity = FinalValidity(list, child.nonempty),
                                        !.state = CompletedState(success, list)],
                          [result EXCEPT !.success = @ /\ success])
  BY DEF ReportQuality
<1> DEFINE child == quality[phase]
           success == child.success /\ reported
<1>4. PICK ds \in Remarks(reported, "GenerateReport") :
         LET list == AppendAll(child.diags, ds)
         IN  /\ Record(ds)
             /\ NextChild([child EXCEPT !.success = success, !.diags = list, !.report = collector,
                                        !.validity = FinalValidity(list, child.nonempty),
                                        !.state = CompletedState(success, list)],
                          [result EXCEPT !.success = @ /\ success])
  BY <1>3
<1> DEFINE list == AppendAll(child.diags, ds)
           c == [child EXCEPT !.success = success, !.diags = list, !.report = collector,
                              !.validity = FinalValidity(list, child.nonempty),
                              !.state = CompletedState(success, list)]
           res == [result EXCEPT !.success = @ /\ success]
<1>5. NextChild(c, res) /\ Record(ds)
  BY <1>4
<1>6. "GenerateReport" \in StageNames
  BY DEF StageNames
<1>7. /\ ds \in SUBSET Diagnostics
      /\ \A d \in ds : d.stage = "GenerateReport"
      /\ ~reported => HasError(ds)
  BY <1>6, RemarksAreDiagnostics
<1>8. /\ child.diags \subseteq list /\ list \subseteq child.diags \union ds
      /\ list \in SUBSET Diagnostics /\ Covers(list, ds)
  BY <1>2, <1>7, AppendAllGrows
<1>9. /\ res \in RestOfResult /\ res.diags = result.diags
      /\ res.success = (result.success /\ success)
  <2>1. success \in BOOLEAN
    OBVIOUS
  <2> HIDE DEF success
  <2>2. QED
    BY <1>2, <2>1 DEF RestOfResult
<1>10. success \in BOOLEAN
  OBVIOUS
<1> HIDE DEF res
<1>11. /\ CompletedState(success, list) \in {"Success", "Warning", "Error"}
       /\ CompletedState(success, list) = "Success" => success /\ ~HasError(list)
       /\ CompletedState(success, list) = "Error" => ~success \/ HasError(list)
       /\ CompletedState(success, list) = "Warning" => HasWarning(list)
  BY DEF CompletedState
<1>12. /\ FinalValidity(list, child.nonempty) \in Validities
       /\ child.nonempty /\ ~HasError(list) => FinalValidity(list, child.nonempty) = "Valid"
  BY DEF FinalValidity, Validities, HasError, Invalidates
<1>13. /\ IF child.success THEN child.complete /\ child.nonempty ELSE HasError(child.diags)
  BY <1>1 DEF RInv, Known, ChildrenKnown
<1>14. ~success => HasError(list)
  <2>1. HasError(child.diags) => HasError(list)
    BY <1>8, TroubleStays
  <2>2. HasError(ds) => HasError(list)
    BY <1>7, <1>8, CoversTrouble
  <2>3. QED
    BY <1>7, <1>13, <2>1, <2>2
<1>15. success => child.complete /\ child.nonempty
  BY <1>13
<1>16. collector \in SUBSET Phases
  BY DEF RInv, Known, RunTypes
<1> DEFINE state == CompletedState(success, list)
           validity == FinalValidity(list, child.nonempty)
<1>17. c = [child EXCEPT !.success = success, !.diags = list, !.report = collector,
                         !.validity = validity, !.state = state]
  OBVIOUS
<1>18. state \in RunStates /\ validity \in Validities
  BY <1>11, <1>12 DEF RunStates
<1>19. child \in ChildResults
  BY <1>2
<1> HIDE DEF c, list, success, child, state, validity
<1>20. /\ c \in ChildResults /\ c.success = success /\ c.diags = list /\ c.report = collector
       /\ c.validity = validity /\ c.state = state /\ c.complete = child.complete
  BY <1>8, <1>10, <1>16, <1>17, <1>18, <1>19 DEF ChildResults
<1>21. /\ c.state = "Success" => c.success /\ c.complete /\ c.validity = "Valid"
       /\ c.state = "Error" => HasError(c.diags)
       /\ c.state = "Warning" => HasWarning(c.diags)
  BY <1>11, <1>12, <1>14, <1>15, <1>20 DEF state, validity
<1>22. /\ emitted' \in [Phases -> SUBSET Diagnostics]
       /\ emitted'[phase] = emitted[phase] \union ds
       /\ \A p \in Phases : p # phase => emitted'[p] = emitted[p]
  BY <1>5, <1>7, Recorded DEF RInv, Known
<1>23. c.diags \subseteq emitted'[phase] /\ Covers(c.diags, emitted'[phase])
  <2>1. Covers(list, emitted[phase]) /\ child.diags \subseteq emitted[phase]
    BY <1>2, <1>8, CoversMore DEF child
  <2>2. QED
    BY <1>8, <1>20, <1>22, <2>1, CoversBoth
<1>24. ~res.success => ~result.success \/ HasError(c.diags)
  BY <1>9, <1>14, <1>20
<1>25. QED
  BY <1>1, <1>5, <1>9, <1>20, <1>21, <1>22, <1>23, <1>24, ChildEndsKnown

-----------------------------------------------------------------------------
(* The executor returns, and the multi-species run. *)

LEMMA FinishKnown == ASSUME RInv, IInv', FinishExecutor PROVE Known'
<1> DEFINE all == AppendFrom(result.diags, project, 1)
           res == [result EXCEPT !.diags = all]
<1>1. pc = "nextChild" /\ pc \in Middle /\ pc \in InHyd \union Middle
  BY DEF FinishExecutor, Middle
<1>2. /\ phase \in Phases /\ Hydraulics \in Phases /\ prepared
      /\ \A i \in DOMAIN quality : i \in Phases
      /\ quality \in [DOMAIN quality -> ChildResults]
      /\ result \in RestOfResult /\ result.diags \in SUBSET Diagnostics
      /\ result.cancelled = FALSE
  BY <1>1, InMiddle
<1>3. /\ project \in Seq(Diagnostics) /\ checkpoint \in 0 .. Len(project)
      /\ emitted \in [Phases -> SUBSET Diagnostics] /\ collector \in SUBSET Phases
      /\ hydraulics \in HydraulicResults
  BY DEF RInv, Known, RunTypes
<1>4. /\ UNCHANGED <<phase, request, project, checkpoint, collector, file, prepared, msx, emitted>>
      /\ StopExecutor(res, hydraulics, quality)
  <2>1. [result EXCEPT !.diags = AppendFrom(@, project, 1)] = res
    BY <1>2 DEF RestOfResult
  <2>2. QED
    BY <2>1 DEF FinishExecutor, artifacts
<1>5. result.diags \subseteq all /\ all \in SUBSET Diagnostics
  <2>1. /\ result.diags \subseteq all /\ all \subseteq result.diags \union From(project, 1)
    BY <1>3, AppendFromGrows
  <2>2. From(project, 1) \subseteq Diagnostics
    BY <1>3 DEF From
  <2>3. QED
    BY <1>2, <2>1, <2>2
<1> HIDE DEF all
<1>6. /\ res \in RestOfResult /\ res.diags = all /\ res.success = result.success
      /\ res.cancelled = FALSE
  BY <1>2, <1>5 DEF RestOfResult
<1> HIDE DEF res
<1>7. \A p \in Phases : Covers(res.diags, emitted'[p])
  <2>1. emitted[phase] = {}
    BY <1>1, <1>2 DEF RInv, Known, Reaches
  <2>2. \A p \in Phases : Covers(result.diags, emitted[p])
    BY <2>1, EmptyLists DEF RInv, Known, Reaches
  <2>3. QED
    BY <1>4, <1>5, <1>6, <2>2, CoversMore
<1>8. /\ HasError(result.diags) => HasError(res.diags)
      /\ HasWarning(result.diags) => HasWarning(res.diags)
  BY <1>5, <1>6, TroubleStays
<1>9. /\ hydraulics.diags \subseteq emitted'[Hydraulics]
      /\ IF hydraulics.report = Unreported THEN collector' \subseteq {Hydraulics}
         ELSE hydraulics.report \subseteq {Hydraulics}
  <2>1. hydraulics.report # Unreported
    BY <1>1 DEF RInv, Known, Sources
  <2>2. QED
    BY <1>2, <1>4, <2>1 DEF RInv, Known, KeptApart
<1>10. \A i \in DOMAIN quality :
         /\ quality[i].diags \subseteq emitted'[i]
         /\ quality[i].report # Unreported => quality[i].report \subseteq {i}
  BY <1>4 DEF RInv, Known, KeptApart
<1>11. \A p \in Phases : p > phase => emitted'[p] = {}
  BY <1>4 DEF RInv, Known, Reaches
<1>12. ~res.success => HasError(res.diags)
  BY <1>6, <1>8 DEF RInv, Known, ChildrenKnown
<1>13. \A i \in DOMAIN quality :
         /\ quality[i].state = "Success" =>
              quality[i].success /\ quality[i].complete /\ quality[i].validity = "Valid"
         /\ quality[i].state = "Error" => HasError(res.diags)
         /\ quality[i].state = "Warning" => HasWarning(res.diags)
  BY <1>8 DEF RInv, Known, ChildrenKnown
<1>14. ~hydraulics.success => HasError(res.diags)
  BY <1>1, <1>8 DEF RInv, Known, HydraulicsKnown
<1>15. hydraulics.complete /\ hydraulics.validity = "Valid"
  BY <1>1 DEF RInv, Known, HydraulicsKnown
<1>16. request.msx /\ ~file => res.diags # {}
  <2>1. request.msx /\ ~file => emitted[Hydraulics] # {}
    BY <1>1 DEF RInv, Known, HydraulicsKnown
  <2>2. Covers(res.diags, emitted[Hydraulics])
    BY <1>2, <1>4, <1>7
  <2>3. QED
    BY <2>1, <2>2 DEF Covers
<1>17. /\ project' \in Seq(Diagnostics) /\ checkpoint' \in 0 .. Len(project')
       /\ collector' \in SUBSET Phases /\ emitted' \in [Phases -> SUBSET Diagnostics]
  BY <1>3, <1>4
<1>18. UNCHANGED <<phase, request, checkpoint, file, prepared, msx>>
  BY <1>4
<1>19. QED
  BY <1>1, <1>2, <1>3, <1>4, <1>6, <1>7, <1>9, <1>10, <1>11, <1>12, <1>13, <1>14, <1>15,
     <1>16, <1>17, <1>18, StopsKnown

(* After the executor the hydraulics and the children are what they are.   *)
LEMMA LateKnown ==
  ASSUME RInv, pc \in {"multiSpecies", "runMultiSpecies"},
         pc' \in {"runMultiSpecies", "returned"},
         UNCHANGED <<request, project, checkpoint, collector, file, prepared, hydraulics, quality>>,
         phase' \in Phases, phase' >= phase,
         result' \in RestOfResult, result.diags \subseteq result'.diags,
         emitted' \in [Phases -> SUBSET Diagnostics],
         \A p \in Phases : emitted[p] \subseteq emitted'[p],
         \A p \in Phases : p > phase' => emitted'[p] = {},
         \A p \in Phases : Covers(result'.diags, emitted'[p]),
         ~result'.success => HasError(result'.diags),
         pc' = "runMultiSpecies" => msx' = "Running" /\ phase' = MultiSpecies /\ ~result'.cancelled,
         Meaning'
  PROVE  Known'
<1>1. RunTypes'
  BY DEF RInv, Known, RunTypes
<1>2. Preparing \in Phases /\ Hydraulics \in Phases /\ \A i \in DOMAIN quality : i \in Phases
  <2>1. \A i \in DOMAIN quality : i \in 1 .. MaxQuality
    BY DEF RInv, Known, RunTypes
  <2>2. QED
    BY <2>1, PhaseNumbers
<1>3. KeptApart'
  BY <1>2 DEF RInv, Known, KeptApart
<1>4. Sources' /\ HydraulicsKnown'
  BY DEF Sources, HydraulicsKnown, Start, InHyd, Early, Middle, InChild
<1>5. Reaches'
  BY DEF Reaches, Start, InHyd, Early, InChild
<1>6. ChildrenKnown'
  <2>1. /\ HasError(result.diags) => HasError(result'.diags)
        /\ HasWarning(result.diags) => HasWarning(result'.diags)
    BY TroubleStays
  <2>2. QED
    BY <2>1 DEF RInv, Known, ChildrenKnown
<1>7. MsxPlanned'
  BY DEF MsxPlanned, Early, Middle, InChild
<1>8. QED
  BY <1>1, <1>3, <1>4, <1>5, <1>6, <1>7 DEF Known

LEMMA MultiSpeciesOutcome ==
  ASSUME NEW o \in MultiSpeciesOutcomes
  PROVE  /\ o.diags \in SUBSET Diagnostics
         /\ ~o.success => HasError(o.diags)
         /\ o.success /\ ~o.cancelled => o.diags = {}
<1> DEFINE troubles == {Diag("Fatal", "RunMultiSpecies"), Diag("Error", "CloseMultiSpecies")}
<1>1. troubles \subseteq Diagnostics
  BY Diagnosed DEF Severities, StageNames
<1>2. \A d \in troubles : d.severity \in {"Error", "Fatal"}
  BY DEF Diag
<1>3. /\ o.diags \in SUBSET troubles
      /\ ~o.success => o.diags # {}
      /\ o.success /\ ~o.cancelled => o.diags = {}
  BY DEF MultiSpeciesOutcomes
<1> HIDE DEF troubles
<1>4. o.diags # {} => HasError(o.diags)
  BY <1>2, <1>3 DEF HasError
<1>5. QED
  BY <1>1, <1>3, <1>4

LEMMA MultiSpeciesKnown ==
  ASSUME RInv, SettleMultiSpecies \/ StartMultiSpecies \/ RunMultiSpecies
  PROVE  Known'
<1>1. /\ pc \in {"multiSpecies", "runMultiSpecies"} /\ pc \in Late
      /\ pc' \in {"runMultiSpecies", "returned"}
      /\ UNCHANGED <<request, project, checkpoint, collector, file, prepared, hydraulics, quality>>
  BY DEF SettleMultiSpecies, StartMultiSpecies, RunMultiSpecies, artifacts, Late
<1>2. /\ phase \in Phases /\ phase \in Int /\ result \in RestOfResult
      /\ result.diags \in SUBSET Diagnostics
      /\ emitted \in [Phases -> SUBSET Diagnostics]
      /\ MultiSpecies \in Phases /\ phase <= MultiSpecies
      /\ \A p \in Phases : p <= MultiSpecies /\ p \in Int
  <2>1. phase \in Phases /\ result \in RestOfResult /\ emitted \in [Phases -> SUBSET Diagnostics]
    BY DEF RInv, Known, RunTypes
  <2>2. MultiSpecies \in Phases /\ \A p \in Phases : p <= MultiSpecies /\ p \in Int
    BY PhaseNumbers
  <2>3. QED
    BY <2>1, <2>2 DEF RestOfResult
<1>3. /\ \A p \in Phases : p > phase => emitted[p] = {}
      /\ \A p \in Phases : Covers(result.diags, emitted[p])
  BY <1>1 DEF RInv, Known, Reaches
<1>4. ~result.success => HasError(result.diags)
  BY DEF RInv, Known, ChildrenKnown
<1>5. /\ ~result.success => result.state \in {"Error", "Cancelled"}
      /\ result.state = "Error" => HasError(result.diags)
      /\ result.state = "Success" =>
           /\ result.success /\ result.diags = {}
           /\ hydraulics.success /\ hydraulics.complete /\ hydraulics.validity = "Valid"
           /\ \A i \in DOMAIN quality : request.quality[i] = "Active" =>
                quality[i].state = "Success"
           /\ request.msx /\ pc = "multiSpecies" => file
  BY <1>1 DEF RInv, Known, Meaning
<1>6. result.state = "Success" => ~result.cancelled
  BY <1>1 DEF RInv, IInv, SettledLate, NoticedIsCancelled, Late
<1>7. CASE SettleMultiSpecies
  <2>1. /\ pc = "multiSpecies" /\ pc' = "returned" /\ ~CanRunMultiSpecies
        /\ UNCHANGED <<phase, result, emitted>>
    BY <1>7 DEF SettleMultiSpecies
  <2>2. Meaning'
    <3>1. result.state = "Success" => ~request.msx
      BY <1>5, <1>6, <2>1 DEF CanRunMultiSpecies
    <3>2. QED
      BY <1>1, <1>5, <2>1, <3>1 DEF Meaning
  <2>3. /\ phase' \in Phases /\ phase' >= phase /\ result' \in RestOfResult
        /\ result.diags \subseteq result'.diags
        /\ emitted' \in [Phases -> SUBSET Diagnostics]
        /\ \A p \in Phases : emitted[p] \subseteq emitted'[p]
        /\ \A p \in Phases : p > phase' => emitted'[p] = {}
        /\ \A p \in Phases : Covers(result'.diags, emitted'[p])
        /\ ~result'.success => HasError(result'.diags)
    BY <1>2, <1>3, <1>4, <2>1
  <2>4. QED
    BY <1>1, <2>1, <2>2, <2>3, LateKnown
<1>8. CASE StartMultiSpecies
  <2>1. /\ pc = "multiSpecies" /\ pc' = "runMultiSpecies" /\ phase' = MultiSpecies
        /\ msx' = "Running" /\ ~result.cancelled
        /\ UNCHANGED <<result, emitted>>
    BY <1>8 DEF StartMultiSpecies, CanRunMultiSpecies
  <2>2. Meaning'
    BY <1>1, <1>5, <2>1 DEF Meaning
  <2>3. /\ phase' \in Phases /\ phase' >= phase /\ result' \in RestOfResult
        /\ result.diags \subseteq result'.diags
        /\ emitted' \in [Phases -> SUBSET Diagnostics]
        /\ \A p \in Phases : emitted[p] \subseteq emitted'[p]
        /\ \A p \in Phases : p > phase' => emitted'[p] = {}
        /\ \A p \in Phases : Covers(result'.diags, emitted'[p])
        /\ ~result'.success => HasError(result'.diags)
        /\ ~result'.cancelled
    <3>1. \A p \in Phases : ~(p > phase')
      BY <1>2, <2>1
    <3>2. QED
      BY <1>2, <1>3, <1>4, <2>1, <3>1
  <2>4. QED
    BY <1>1, <2>1, <2>2, <2>3, LateKnown
<1>9. CASE RunMultiSpecies
  <2>1. /\ pc = "runMultiSpecies" /\ pc' = "returned" /\ UNCHANGED phase
    BY <1>9 DEF RunMultiSpecies
  <2>2. phase = MultiSpecies
    BY <2>1 DEF RInv, Known, MsxPlanned
  <2>3. PICK o \in MultiSpeciesOutcomes :
          LET res == [result EXCEPT !.diags = AppendAll(@, o.diags)] IN
          /\ o.cancelled => requested
          /\ Record(o.diags)
          /\ \/ result' = [res EXCEPT !.cancelled = TRUE, !.state = "Cancelled"]
             \/ /\ ~o.success /\ result' = [res EXCEPT !.success = FALSE, !.state = "Error"]
             \/ /\ ~requested /\ o.success /\ result' = res /\ msx' = "Success"
    BY <1>9 DEF RunMultiSpecies
  <2> DEFINE all == AppendAll(result.diags, o.diags)
             res == [result EXCEPT !.diags = all]
  <2>4. [result EXCEPT !.diags = AppendAll(@, o.diags)] = res
    BY <1>2 DEF RestOfResult
  <2>5. /\ o.diags \in SUBSET Diagnostics
        /\ ~o.success => HasError(o.diags)
        /\ o.success /\ ~o.cancelled => o.diags = {}
    BY MultiSpeciesOutcome
  <2>6. /\ result.diags \subseteq all /\ all \subseteq result.diags \union o.diags
        /\ all \in SUBSET Diagnostics /\ Covers(all, o.diags)
    BY <1>2, <2>5, AppendAllGrows
  <2> HIDE DEF all
  <2>7. /\ res \in RestOfResult /\ res.diags = all /\ res.state = result.state
        /\ res.success = result.success /\ res.cancelled = result.cancelled
    BY <1>2, <2>6 DEF RestOfResult
  <2>9. Record(o.diags) /\ (o.cancelled => requested)
    BY <2>3
  <2> HIDE DEF res
  <2>10. /\ emitted' \in [Phases -> SUBSET Diagnostics]
         /\ emitted'[phase] = emitted[phase] \union o.diags
         /\ \A p \in Phases : p # phase => emitted'[p] = emitted[p]
    BY <2>5, <2>9, Recorded DEF RInv, Known
  <2>11. /\ result' \in RestOfResult /\ result'.diags = all
         /\ \/ result'.state = "Cancelled" /\ result'.success = result.success
            \/ ~o.success /\ result'.state = "Error" /\ ~result'.success
            \/ /\ o.diags = {} /\ result'.state = result.state
               /\ result'.success = result.success /\ msx' = "Success"
    <3>1. CASE result' = [res EXCEPT !.cancelled = TRUE, !.state = "Cancelled"]
      BY <2>7, <3>1 DEF RestOfResult, RunStates
    <3>2. CASE ~o.success /\ result' = [res EXCEPT !.success = FALSE, !.state = "Error"]
      BY <2>7, <3>2 DEF RestOfResult, RunStates
    <3>3. CASE ~requested /\ o.success /\ result' = res /\ msx' = "Success"
      BY <2>5, <2>7, <2>9, <3>3
    <3>4. QED
      BY <2>3, <2>4, <3>1, <3>2, <3>3
  <2>12. HasError(o.diags) => HasError(all)
    BY <2>5, <2>6, CoversTrouble
  <2>13. HasError(result.diags) => HasError(all)
    BY <2>6, TroubleStays
  <2>14. ~result'.success => HasError(result'.diags)
    BY <1>4, <2>5, <2>11, <2>12, <2>13
  <2>15. Meaning'
    BY <1>1, <1>5, <2>1, <2>5, <2>6, <2>11, <2>12, <2>13 DEF Meaning
  <2>16. \A p \in Phases : Covers(all, emitted'[p])
    <3>1. \A p \in Phases : Covers(all, emitted[p])
      BY <1>3, <2>6, CoversMore
    <3>2. Covers(all, emitted'[phase])
      BY <1>2, <2>6, <2>10, <3>1, CoversBoth
    <3>3. QED
      BY <2>10, <3>1, <3>2
  <2>17. /\ phase' \in Phases /\ phase' >= phase
         /\ result.diags \subseteq result'.diags
         /\ \A p \in Phases : emitted[p] \subseteq emitted'[p]
         /\ \A p \in Phases : p > phase' => emitted'[p] = {}
         /\ \A p \in Phases : Covers(result'.diags, emitted'[p])
    <3>1. \A p \in Phases : ~(p > phase')
      BY <1>2, <2>1, <2>2
    <3>2. phase' \in Phases /\ phase' >= phase
      BY <1>2, <2>1
    <3>3. \A p \in Phases : emitted[p] \subseteq emitted'[p]
      BY <2>10
    <3>4. QED
      BY <2>6, <2>11, <2>16, <3>1, <3>2, <3>3
  <2>18. QED
    BY <1>1, <2>1, <2>10, <2>11, <2>14, <2>15, <2>17, LateKnown
<1>10. QED
  BY <1>7, <1>8, <1>9

LEMMA KnownStutter ==
  ASSUME RInv, UNCHANGED <<pc, phase, request, project, checkpoint, collector, file, prepared,
                           hydraulics, quality, msx, result, emitted>>
  PROVE  Known'
BY DEF RInv, Known, RunTypes, KeptApart, Sources, Reaches, HydraulicsKnown, ChildrenKnown,
       MsxPlanned, Meaning

LEMMA KnownStep == RInv /\ [Next]_vars => RInv'
<1> SUFFICES ASSUME RInv, [Next]_vars PROVE RInv'
  OBVIOUS
<1>1. IInv'
  BY RunStep DEF RInv
<1> SUFFICES Known'
  BY <1>1 DEF RInv
<1>2. CASE EntryPoll \/ ValidateMsx \/ Prepare \/ Prepared
  BY <1>1, <1>2, StartKnownStep
<1>3. CASE ConfigureHydraulics \/ SolveHydraulics \/ SolvedHydraulics \/ SavedHydraulics
  BY <1>1, <1>3, HydraulicsKnownStep
<1>4. CASE SaveHydraulics
  BY <1>1, <1>4, SaveKnown
<1>5. CASE ReportHydraulics
  BY <1>5, ReportKnown
<1>6. CASE SkipChild
  BY <1>6, SkipKnown
<1>7. CASE StartChild
  BY <1>1, <1>7, BeginKnown
<1>8. CASE ValidateQuality
  BY <1>8, ValidateKnown
<1>9. CASE ConfigureQuality
  BY <1>9, ConfigureQualityKnown
<1>10. CASE SolveQuality \/ SolvedQuality
  BY <1>1, <1>10, SolveQualityKnown
<1>11. CASE ReportQuality
  BY <1>11, ReportQualityKnown
<1>12. CASE FinishExecutor
  BY <1>1, <1>12, FinishKnown
<1>13. CASE SettleMultiSpecies \/ StartMultiSpecies \/ RunMultiSpecies
  BY <1>13, MultiSpeciesKnown
<1>14. CASE RequestCancel \/ UNCHANGED vars
  <2>1. UNCHANGED <<pc, phase, request, project, checkpoint, collector, file, prepared,
                    hydraulics, quality, msx, result, emitted>>
    BY <1>14 DEF RequestCancel, vars, artifacts
  <2>2. QED
    BY <2>1, KnownStutter
<1>15. QED
  BY <1>2, <1>3, <1>4, <1>5, <1>6, <1>7, <1>8, <1>9, <1>10, <1>11, <1>12, <1>13, <1>14 DEF Next

LEMMA KnownAlways == Spec => []RInv
<1>1. Init => RInv
  BY RunInit, KnownInit DEF RInv
<1>2. QED
  BY <1>1, KnownStep, PTL DEF Spec

-----------------------------------------------------------------------------
(* What the result says of the run. *)

(* One project, one list of diagnostics and one report collector serve all *)
(* the phases of EpanetMultiQualityRunExecutor::run: whatever they say, a  *)
(* timeline has the diagnostics of its own phase and its report the lines  *)
(* of its own, for any number of children.                                 *)
THEOREM PhasesAreKeptApart == Spec => []KeptApart
<1>1. RInv => KeptApart
  BY DEF RInv, Known
<1>2. QED
  BY <1>1, KnownAlways, PTL

(* Whichever of its returns EpanetRunner::run takes, what any of its steps *)
(* diagnosed is in the diagnostics of the result.                          *)
THEOREM DiagnosticsReachTheResult == Spec => []NothingLost
<1>1. RInv => NothingLost
  <2> SUFFICES ASSUME RInv, pc = "returned", NEW p \in Phases
               PROVE  \A d \in emitted[p] : \E e \in result.diags : Equivalent(d, e)
    BY DEF NothingLost
  <2>1. Covers(result.diags, emitted[p])
    BY DEF RInv, Known, Reaches, Late
  <2>2. QED
    BY <2>1 DEF Covers, Equivalent
<1>2. QED
  BY <1>1, KnownAlways, PTL

(* A result whose state is Success has the complete hydraulics, every      *)
(* active child and the multi-species run, and no diagnostics; a failure   *)
(* is in the state, and Error is never said without an error.              *)
THEOREM SuccessIsWhatItSays == Spec => []SuccessMeansEverything
<1>1. RInv => SuccessMeansEverything
  <2> SUFFICES ASSUME RInv, pc = "returned" PROVE SuccessMeansEverything
    BY DEF SuccessMeansEverything
  <2>1. Meaning /\ ChildrenKnown
    BY DEF RInv, Known
  <2>2. QED
    BY <2>1 DEF SuccessMeansEverything, Meaning, ChildrenKnown, Late
<1>2. QED
  BY <1>1, KnownAlways, PTL

(* Valid hydraulics stay valid, whatever fails or is cancelled later: only *)
(* the executor's hydraulic phase sets the validity of the timeline.       *)
THEOREM HydraulicsStayValid == Spec => HydraulicsKept
<1>1. ASSUME RInv, [Next]_vars
      PROVE  [hydraulics.validity = "Valid" => hydraulics'.validity = "Valid"]_vars
  <2> SUFFICES ASSUME hydraulics.validity = "Valid", hydraulics' # hydraulics
               PROVE  hydraulics'.validity = "Valid"
    OBVIOUS
  <2>1. /\ pc \in Early \ {"reportHydraulics"} => hydraulics.validity = "NotRun"
        /\ hydraulics \in HydraulicResults
    BY <1>1 DEF RInv, Known, HydraulicsKnown, RunTypes
  <2>2. pc \notin Early \ {"reportHydraulics"}
    BY <2>1
  <2>3. CASE ReportHydraulics
    <3>1. pc' \in Middle
      BY <2>3 DEF ReportHydraulics, Middle
    <3>2. RInv'
      BY <1>1, KnownStep
    <3>3. QED
      BY <3>1, <3>2 DEF RInv, Known, HydraulicsKnown
  <2>4. ASSUME NEW res, NEW children, StopExecutor(res, hydraulics, children)
        PROVE  hydraulics'.validity = "Valid"
    BY <2>1, <2>4 DEF StopExecutor, HydraulicResults
  <2>5. CASE StartChild
    BY <2>4, <2>5 DEF StartChild
  <2>6. CASE SolveQuality \/ SolvedQuality
    <3>1. \E o : QualityReturn(o)
      BY <2>6 DEF SolveQuality, SolvedQuality
    <3>2. QED
      BY <2>4, <3>1 DEF QualityReturn
  <2>7. CASE FinishExecutor
    BY <2>4, <2>7 DEF FinishExecutor
  <2>8. ~(\/ EntryPoll \/ ValidateMsx \/ Prepare \/ Prepared
          \/ ConfigureHydraulics \/ SolveHydraulics \/ SolvedHydraulics
          \/ SaveHydraulics \/ SavedHydraulics)
    BY <2>2 DEF Early, EntryPoll, ValidateMsx, Prepare, Prepared, ConfigureHydraulics,
         SolveHydraulics, SolvedHydraulics, SaveHydraulics, SavedHydraulics
  <2>9. ~(\/ RequestCancel \/ SkipChild \/ ValidateQuality \/ ConfigureQuality \/ ReportQuality
          \/ SettleMultiSpecies \/ StartMultiSpecies \/ RunMultiSpecies \/ UNCHANGED vars)
    BY DEF RequestCancel, SkipChild, ValidateQuality, ConfigureQuality, ReportQuality,
         SettleMultiSpecies, StartMultiSpecies, RunMultiSpecies, vars
  <2>10. QED
    BY <1>1, <2>3, <2>5, <2>6, <2>7, <2>8, <2>9 DEF Next
<1>2. QED
  BY <1>1, KnownAlways, PTL DEF Spec, HydraulicsKept

-----------------------------------------------------------------------------
(* The run implements RunContract.  One lemma for each of the contract's   *)
(* actions says which change of the run's state it is.                     *)

States(list) == [i \in DOMAIN list |-> list[i].state]

LEMMA ListOfStates ==
  ASSUME NEW list, NEW n \in Nat, DOMAIN list = 1 .. n
  PROVE  /\ DOMAIN States(list) = DOMAIN list
         /\ \A i \in DOMAIN list : States(list)[i] = list[i].state
         /\ 1 .. (Len(States(list)) + 1) - 1 = DOMAIN list
<1> DEFINE S == {list[i].state : i \in 1 .. n}
           f == States(list)
<1>1. f \in [1 .. n -> S]
  BY DEF States
<1> HIDE DEF f, S
<1>2. f \in Seq(S)
  BY <1>1
<1>3. Len(f) = n
  BY <1>1, <1>2
<1>4. 1 .. (Len(f) + 1) - 1 = 1 .. n
  BY <1>3
<1>5. QED
  BY <1>4 DEF f, States

LEMMA ContractStates == Contract!Settled = Completed \union {"Cancelled", "Skipped"}
BY DEF Contract!Settled, Contract!Ended, Completed

LEMMA RunMayEnd == ASSUME IInv' PROVE Contract!MayEnd
<1> DEFINE n == (Len(States(quality')) + 1) - 1
<1>1. /\ DOMAIN States(quality') = DOMAIN quality'
      /\ \A i \in DOMAIN quality' : States(quality')[i] = quality'[i].state
      /\ 1 .. n = DOMAIN quality'
  <2>1. PICK m \in Nat : DOMAIN quality' = 1 .. m
    BY DEF IInv, Shape
  <2>2. QED
    BY <2>1, ListOfStates
<1>2. Contract!AllSettled' <=> \A i \in 1 .. n : States(quality')[i] \in Contract!Settled
  BY DEF Contract!AllSettled, Contract!SettledBefore, States
<1> HIDE DEF n
<1>3. ASSUME pc' = "returned"
      PROVE  Contract!AllSettled' /\ msx' \in Contract!Settled \union {"Absent"}
  <2>1. ChildrenSettled'
    BY <1>3 DEF IInv, SettledLate, Late
  <2>2. \A i \in 1 .. n : States(quality')[i] \in Contract!Settled
    BY <1>1, <2>1, ContractStates, StatesAreTerminal DEF ChildrenSettled
  <2>3. msx' \in Contract!Settled \union {"Absent"}
    BY <1>3, ContractStates, StatesAreTerminal DEF IInv, MsxOpen
  <2>4. QED
    BY <1>2, <2>2, <2>3
<1>4. QED
  BY <1>3 DEF Contract!MayEnd

LEMMA Plans ==
  ASSUME IInv', pc # "returned", hydraulics.validity # "Valid", ~result.cancelled,
         msx = "Absent", msx' = "Pending", UNCHANGED <<hydraulics, quality, result>>
  PROVE  Contract!Next
BY RunMayEnd DEF Contract!Next, Contract!PlanMultiSpecies

LEMMA Solves ==
  ASSUME IInv', pc # "returned", hydraulics.validity # "Valid", ~result.cancelled,
         \A i \in DOMAIN quality : quality[i].state = "Pending",
         hydraulics'.validity = "Valid", UNCHANGED <<quality, result, msx>>
  PROVE  Contract!Next
BY RunMayEnd DEF Contract!Next, Contract!Solve

LEMMA SettlesBefore ==
  ASSUME IInv, pc \in InChild \union {"nextChild"}, phase \in DOMAIN quality
  PROVE  Contract!SettledBefore(phase)
<1>1. \A i \in DOMAIN quality : i < phase => quality[i].state \in Contract!Settled
  BY ContractStates DEF IInv, InTurn
<1>2. PICK n \in Nat : DOMAIN quality = 1 .. n
  BY DEF IInv, Shape
<1>3. \A i \in 1 .. phase - 1 : i \in DOMAIN quality /\ i < phase
  BY <1>2
<1>4. \A i \in 1 .. phase - 1 : States(quality)[i] \in Contract!Settled
  BY <1>1, <1>3 DEF States
<1>5. QED
  BY <1>4 DEF Contract!SettledBefore, States

LEMMA Starts ==
  ASSUME IInv', pc # "returned", hydraulics.validity = "Valid", ~result.cancelled,
         UNCHANGED <<hydraulics, result, msx>>,
         phase \in DOMAIN quality, Contract!SettledBefore(phase),
         quality[phase].state = "Pending",
         NEW state \in {"Running", "Skipped"},
         States(quality') = [States(quality) EXCEPT ![phase] = state]
  PROVE  Contract!Next
<1>1. PICK k \in DOMAIN States(quality) : k = phase
  BY DEF States
<1>2. Contract!StartChild(k)
  BY <1>1 DEF Contract!StartChild, Contract!SettledBefore, States
<1>3. \E i \in DOMAIN States(quality) : Contract!StartChild(i) \/ Contract!EndChild(i)
  BY <1>2
<1>4. QED
  BY <1>3, RunMayEnd, Zenon DEF Contract!Next, States

LEMMA Ends ==
  ASSUME IInv', pc # "returned", UNCHANGED <<hydraulics, msx>>, result'.cancelled = result.cancelled,
         phase \in DOMAIN quality, quality[phase].state = "Running",
         NEW state \in Completed,
         States(quality') = [States(quality) EXCEPT ![phase] = state]
  PROVE  Contract!Next
<1>1. PICK k \in DOMAIN States(quality) : k = phase
  BY DEF States
<1>2. Contract!EndChild(k)
  BY <1>1 DEF Contract!EndChild, Contract!Ended, Completed, States
<1>3. \E i \in DOMAIN States(quality) : Contract!StartChild(i) \/ Contract!EndChild(i)
  BY <1>2
<1>4. QED
  BY <1>3, RunMayEnd, Zenon DEF Contract!Next, States

LEMMA Fails ==
  ASSUME IInv', pc # "returned", hydraulics.validity # "Valid", ~result.cancelled,
         result'.cancelled = result.cancelled, DOMAIN quality' = DOMAIN quality,
         \A i \in DOMAIN quality : quality'[i].state = "Skipped",
         msx' = msx \/ (msx = "Pending" /\ msx' = "Skipped")
  PROVE  Contract!Next
<1>1. States(quality') = [i \in DOMAIN States(quality) |-> "Skipped"]
  BY DEF States
<1>2. Contract!Fail
  BY <1>1 DEF Contract!Fail, States
<1>3. QED
  BY <1>2, RunMayEnd DEF Contract!Next

LEMMA Cancels ==
  ASSUME IInv', pc # "returned", result.cancelled = FALSE, result'.cancelled = TRUE,
         hydraulics'.validity = "Valid" <=> hydraulics.validity = "Valid",
         DOMAIN quality' = DOMAIN quality,
         \A i \in DOMAIN quality :
           quality'[i].state = IF quality[i].state \in Contract!Settled THEN quality[i].state
                               ELSE "Cancelled",
         \/ msx' = IF msx \in {"Pending", "Running"} THEN "Cancelled" ELSE msx
         \/ msx = "Pending" /\ UNCHANGED msx
  PROVE  Contract!Next
<1>1. States(quality') = [i \in DOMAIN States(quality) |->
        IF States(quality)[i] \in Contract!Settled THEN States(quality)[i] ELSE "Cancelled"]
  BY DEF States
<1>2. Contract!Cancel
  BY <1>1 DEF Contract!Cancel, States
<1>3. QED
  BY <1>2, RunMayEnd DEF Contract!Next

LEMMA GoesOn ==
  ASSUME IInv', pc # "returned", result'.cancelled = result.cancelled,
         hydraulics'.validity = hydraulics.validity, States(quality') = States(quality),
         UNCHANGED msx
  PROVE  Contract!Next
BY RunMayEnd DEF Contract!Next, States

(* What settling the children of a list makes of their states.             *)
LEMMA SettlesList ==
  ASSUME NEW list, NEW state, \A i \in DOMAIN list : "state" \in DOMAIN list[i],
         NEW res, NEW hyd, StopExecutor(res, hyd, Settled(list, state)),
         "cancelled" \in DOMAIN res, res.cancelled \in BOOLEAN, "state" \in DOMAIN res,
         hyd \in HydraulicResults
  PROVE  /\ DOMAIN quality' = DOMAIN list
         /\ \A i \in DOMAIN list :
              quality'[i].state = IF list[i].state = "Pending" THEN state ELSE list[i].state
         /\ hydraulics'.validity = hyd.validity
         /\ result'.cancelled = res.cancelled
         /\ pc' = "multiSpecies"
<1>1. /\ pc' = "multiSpecies" /\ quality' = Settled(list, state)
      /\ hydraulics' = [hyd EXCEPT !.report = IF @ = Unreported THEN collector' ELSE @]
      /\ result' = Finalized(res, hyd, Settled(list, state))
  BY DEF StopExecutor
<1>2. hydraulics'.validity = hyd.validity
  BY <1>1 DEF HydraulicResults
<1>3. result'.cancelled = res.cancelled
  BY <1>1, FinalizedState
<1>4. QED
  BY <1>1, <1>2, <1>3, SettledStates

LEMMA BeforeTheHydraulics ==
  ASSUME RInv, pc \in Early
  PROVE  /\ pc # "returned" /\ result.cancelled = FALSE
         /\ {"state", "cancelled", "success", "diags"} \subseteq DOMAIN result
         /\ \A i \in DOMAIN quality :
              /\ quality[i].state = "Pending" /\ "state" \in DOMAIN quality[i]
              /\ quality[i].state \notin Contract!Settled
         /\ hydraulics \in HydraulicResults /\ result \in RestOfResult
         /\ pc # "reportHydraulics" => hydraulics.validity # "Valid"
         /\ pc = "entry" => msx = "Absent"
         /\ msx \in {"Pending", "Absent"}
<1>1. pc # "returned" /\ pc \notin {"multiSpecies", "returned"}
  BY DEF Early
<1>2. result.cancelled = FALSE
  <2>1. noticed \in BOOLEAN /\ result.cancelled = noticed /\ ~noticed
    BY <1>1 DEF RInv, IInv, Shape, NoticedIsCancelled, NotYetNoticed
  <2>2. QED
    BY <2>1
<1>3. \A i \in DOMAIN quality : quality[i].state = "Pending" /\ "state" \in DOMAIN quality[i]
  BY DEF RInv, IInv, InTurn, Shape
<1>4. hydraulics \in HydraulicResults /\ result \in RestOfResult
  BY DEF RInv, Known, RunTypes
<1>5. pc # "reportHydraulics" => hydraulics.validity # "Valid"
  BY DEF RInv, Known, HydraulicsKnown
<1>6. /\ pc = "entry" => msx = "Absent"
      /\ msx \in {"Pending", "Absent"}
  BY DEF RInv, Known, MsxPlanned
<1>7. QED
  BY <1>1, <1>2, <1>3, <1>4, <1>5, <1>6, ContractStates DEF RestOfResult, Completed

LEMMA CancelledRunContract ==
  ASSUME RInv, IInv', pc \in Early, CancelledRun PROVE Contract!Next
<1>1. /\ quality' = Settled(quality, "Cancelled") /\ msx' = SettledMsx("Cancelled")
      /\ result' = [result EXCEPT !.cancelled = TRUE, !.state = "Cancelled",
                                  !.diags = AppendFrom(@, project, 1)]
      /\ hydraulics' = [hydraulics EXCEPT !.report = collector]
  BY DEF CancelledRun
<1>2. result'.cancelled = TRUE /\ hydraulics'.validity = hydraulics.validity
  BY <1>1, BeforeTheHydraulics DEF HydraulicResults, RestOfResult
<1>3. /\ DOMAIN quality' = DOMAIN quality
      /\ \A i \in DOMAIN quality : quality'[i].state = "Cancelled"
  BY <1>1, BeforeTheHydraulics, SettledStates
<1>4. msx' = IF msx \in {"Pending", "Running"} THEN "Cancelled" ELSE msx
  BY <1>1, BeforeTheHydraulics DEF SettledMsx
<1>5. QED
  BY <1>2, <1>3, <1>4, BeforeTheHydraulics, Cancels

LEMMA FailedRunContract ==
  ASSUME RInv, IInv', pc \in Early \ {"reportHydraulics"}, NEW said, FailedRun(said)
  PROVE  Contract!Next
<1>1. /\ quality' = Settled(quality, "Skipped") /\ msx' = SettledMsx("Skipped")
      /\ \E list : result' = [result EXCEPT !.success = FALSE, !.state = "Error",
                                            !.diags = AppendAll(@, list)]
  BY DEF FailedRun
<1>2. result'.cancelled = result.cancelled
  BY <1>1, BeforeTheHydraulics DEF RestOfResult
<1>3. /\ DOMAIN quality' = DOMAIN quality
      /\ \A i \in DOMAIN quality : quality'[i].state = "Skipped"
  BY <1>1, BeforeTheHydraulics, SettledStates
<1>4. msx' = msx \/ (msx = "Pending" /\ msx' = "Skipped")
  BY <1>1 DEF SettledMsx
<1>5. QED
  BY <1>2, <1>3, <1>4, BeforeTheHydraulics, Fails

LEMMA CancelHydraulicsContract ==
  ASSUME RInv, IInv', pc \in Early \ {"reportHydraulics"}, NEW hyd \in HydraulicResults,
         CancelHydraulics(hyd), UNCHANGED msx
  PROVE  Contract!Next
<1> DEFINE res == [result EXCEPT !.cancelled = TRUE, !.diags = AppendAll(@, hyd.diags)]
           last == [hyd EXCEPT !.validity = CancelledValidity(hyd.nonempty)]
<1>1. StopExecutor(res, last, Settled(quality, "Cancelled"))
  BY DEF CancelHydraulics
<1>2. /\ {"state", "cancelled"} \subseteq DOMAIN res /\ res.cancelled = TRUE
      /\ last \in HydraulicResults /\ last.validity # "Valid"
  <2>1. CancelledValidity(hyd.nonempty) \in Validities \ {"Valid"}
    BY DEF CancelledValidity, Validities
  <2>2. last \in HydraulicResults /\ last.validity # "Valid"
    BY <2>1 DEF HydraulicResults
  <2>3. QED
    BY <2>2, BeforeTheHydraulics
<1> HIDE DEF res, last
<1>3. /\ DOMAIN quality' = DOMAIN quality
      /\ \A i \in DOMAIN quality : quality'[i].state = "Cancelled"
      /\ hydraulics'.validity # "Valid" /\ result'.cancelled = TRUE
  <2>1. \A i \in DOMAIN quality : "state" \in DOMAIN quality[i] /\ quality[i].state = "Pending"
    BY BeforeTheHydraulics
  <2>2. res.cancelled \in BOOLEAN
    BY <1>2
  <2>3. /\ DOMAIN quality' = DOMAIN quality
        /\ \A i \in DOMAIN quality :
             quality'[i].state = IF quality[i].state = "Pending" THEN "Cancelled"
                                 ELSE quality[i].state
        /\ hydraulics'.validity = last.validity
        /\ result'.cancelled = res.cancelled
    BY <1>1, <1>2, <2>1, <2>2, SettlesList
  <2>4. QED
    BY <1>2, <2>1, <2>3
<1>4. \/ msx' = IF msx \in {"Pending", "Running"} THEN "Cancelled" ELSE msx
      \/ msx = "Pending" /\ UNCHANGED msx
  BY BeforeTheHydraulics
<1>5. QED
  BY <1>3, <1>4, BeforeTheHydraulics, Cancels

LEMMA FailHydraulicsContract ==
  ASSUME RInv, IInv', pc \in Early \ {"reportHydraulics"}, NEW hyd \in HydraulicResults,
         NEW failures, FailHydraulics(hyd, failures), UNCHANGED msx
  PROVE  Contract!Next
<1> DEFINE list == AppendAll(hyd.diags, failures)
           all == [result EXCEPT !.diags = AppendAll(@, list)]
           res == Reported(all, failures)
           last == [hyd EXCEPT !.success = FALSE, !.diags = list,
                               !.validity = FinalValidity(list, hyd.nonempty)]
           children == Settled(quality, "Skipped")
<1>1. StopExecutor(res, last, children)
  BY DEF FailHydraulics
<1>2. {"state", "cancelled"} \subseteq DOMAIN res /\ res.cancelled = FALSE
  BY BeforeTheHydraulics DEF Reported
<1> HIDE DEF res, last
<1>3. quality' = children /\ result' = Finalized(res, last, children)
  BY <1>1 DEF StopExecutor
<1>4. result'.cancelled = result.cancelled
  <2> HIDE DEF children
  <2>1. QED
    BY <1>2, <1>3, BeforeTheHydraulics, FinalizedState
<1>5. /\ DOMAIN quality' = DOMAIN quality
      /\ \A i \in DOMAIN quality : quality'[i].state = "Skipped"
  BY <1>3, BeforeTheHydraulics, SettledStates
<1>6. QED
  BY <1>4, <1>5, BeforeTheHydraulics, Fails

LEMMA StartContract ==
  ASSUME RInv, IInv', EntryPoll \/ ValidateMsx \/ Prepare \/ Prepared PROVE Contract!Next
<1>1. pc \in Early \ {"reportHydraulics"} /\ pc \in Early
  BY DEF EntryPoll, ValidateMsx, Prepare, Prepared, Early
<1>2. CASE EntryPoll
  <2>1. CASE CancelledRun
    BY <1>1, <2>1, CancelledRunContract
  <2>2. CASE /\ msx' = (IF request.msx THEN "Pending" ELSE "Absent")
             /\ UNCHANGED <<hydraulics, quality, result>>
    <3>1. pc = "entry" /\ msx = "Absent"
      BY <1>1, <1>2, BeforeTheHydraulics DEF EntryPoll
    <3>2. CASE msx' = "Pending"
      BY <1>1, <2>2, <3>1, <3>2, BeforeTheHydraulics, Plans
    <3>3. CASE msx' = msx
      BY <1>1, <2>2, <3>3, BeforeTheHydraulics, GoesOn
    <3>4. QED
      BY <2>2, <3>1, <3>2, <3>3
  <2>3. QED
    BY <1>2, <2>1, <2>2 DEF EntryPoll
<1>3. ASSUME UNCHANGED <<hydraulics, quality, msx>>, result'.cancelled = result.cancelled
      PROVE  Contract!Next
  BY <1>1, <1>3, BeforeTheHydraulics, GoesOn
<1>4. CASE ValidateMsx
  BY <1>1, <1>3, <1>4, FailedRunContract DEF ValidateMsx
<1>5. CASE Prepare
  BY <1>3, <1>5 DEF Prepare
<1>6. CASE Prepared
  <2>1. \/ CancelledRun \/ \E said : FailedRun(said)
        \/ /\ UNCHANGED <<hydraulics, quality, msx>>
           /\ result' = [result EXCEPT !.diags = AppendFrom(@, project, 1), !.state = "Running"]
    BY <1>6 DEF Prepared
  <2>2. ASSUME result' = [result EXCEPT !.diags = AppendFrom(@, project, 1), !.state = "Running"]
        PROVE  result'.cancelled = result.cancelled
    BY <1>1, <2>2, BeforeTheHydraulics DEF RestOfResult
  <2>3. QED
    BY <1>1, <1>3, <2>1, <2>2, CancelledRunContract, FailedRunContract
<1>7. QED
  BY <1>2, <1>4, <1>5, <1>6

LEMMA HydraulicsContract ==
  ASSUME RInv, RInv', \/ ConfigureHydraulics \/ SolveHydraulics \/ SolvedHydraulics
                      \/ SaveHydraulics \/ SavedHydraulics \/ ReportHydraulics
  PROVE  Contract!Next
<1>1. pc \in Early /\ UNCHANGED msx
  BY DEF ConfigureHydraulics, SolveHydraulics, SolvedHydraulics, SaveHydraulics, SavedHydraulics,
       ReportHydraulics, Early
<1>2. IInv'
  BY DEF RInv
<1>3. ASSUME UNCHANGED quality, result'.cancelled = result.cancelled,
             hydraulics'.validity = hydraulics.validity
      PROVE  Contract!Next
  BY <1>1, <1>2, <1>3, BeforeTheHydraulics, GoesOn
<1>4. ASSUME NEW hyd \in HydraulicResults, CancelHydraulics(hyd), pc # "reportHydraulics"
      PROVE  Contract!Next
  BY <1>1, <1>2, <1>4, CancelHydraulicsContract
<1>5. ASSUME NEW hyd \in HydraulicResults, NEW failures, FailHydraulics(hyd, failures),
             pc # "reportHydraulics"
      PROVE  Contract!Next
  BY <1>1, <1>2, <1>5, FailHydraulicsContract
<1>6. hydraulics \in HydraulicResults
  BY <1>1, BeforeTheHydraulics
<1>7. \A list \in SUBSET Diagnostics, ds \in SUBSET Diagnostics :
        pc \in InHyd /\ project' = project \o SetToSeq(ds) /\ UNCHANGED checkpoint
          => SinceCheckpoint(list) \in SUBSET Diagnostics
  BY Speaks
<1>8. CASE ConfigureHydraulics
  <2>1. PICK success \in BOOLEAN : \E ds \in Remarks(success, "Configure") :
         /\ project' = project \o SetToSeq(ds)
         /\ LET hyd == [hydraulics EXCEPT !.diags = SinceCheckpoint(@)] IN
            IF success
            THEN hydraulics' = hyd /\ UNCHANGED <<quality, result>>
            ELSE FailHydraulics(hyd, {Diag("Error", "Configure")})
    BY <1>8 DEF ConfigureHydraulics
  <2>2. PICK ds \in Remarks(success, "Configure") :
         /\ project' = project \o SetToSeq(ds)
         /\ LET hyd == [hydraulics EXCEPT !.diags = SinceCheckpoint(@)] IN
            IF success
            THEN hydraulics' = hyd /\ UNCHANGED <<quality, result>>
            ELSE FailHydraulics(hyd, {Diag("Error", "Configure")})
    BY <2>1
  <2>3. ds \in SUBSET Diagnostics
    <3>1. "Configure" \in StageNames
      BY DEF StageNames
    <3>2. QED
      BY <3>1, RemarksAreDiagnostics
  <2>4. pc = "configureHydraulics" /\ pc \in InHyd /\ UNCHANGED checkpoint
    BY <1>8 DEF ConfigureHydraulics, InHyd, Early, Start, artifacts
  <2> DEFINE list == SinceCheckpoint(hydraulics.diags)
             hyd == [hydraulics EXCEPT !.diags = list]
  <2>5. list \in SUBSET Diagnostics
    BY <1>6, <1>7, <2>2, <2>3, <2>4 DEF HydraulicResults
  <2> HIDE DEF list
  <2>6. hyd \in HydraulicResults /\ hyd.validity = hydraulics.validity
    BY <1>6, <2>5 DEF HydraulicResults
  <2>7. [hydraulics EXCEPT !.diags = SinceCheckpoint(@)] = hyd
    BY <1>6 DEF HydraulicResults, list
  <2> HIDE DEF hyd
  <2>8. \/ hydraulics' = hyd /\ UNCHANGED <<quality, result>>
        \/ FailHydraulics(hyd, {Diag("Error", "Configure")})
    BY <2>2, <2>7
  <2>9. QED
    BY <1>3, <1>5, <2>4, <2>6, <2>8
<1>9. ASSUME NEW o, o \in HydraulicOutcomes \union QualityOutcomes \/ o = NotStarted,
             HydraulicsReturn(o), pc \in {"solveHydraulics", "solvingHydraulics"},
             UNCHANGED checkpoint
      PROVE  Contract!Next
  <2> DEFINE list == SinceCheckpoint(hydraulics.diags)
             hyd == [hydraulics EXCEPT !.success = o.success, !.nonempty = o.nonempty,
                       !.complete = o.complete, !.diags = list]
  <2>1. [hydraulics EXCEPT !.success = o.success, !.nonempty = o.nonempty,
           !.complete = o.complete, !.diags = SinceCheckpoint(@)] = hyd
    BY <1>6 DEF HydraulicResults
  <2>2. /\ o.success \in BOOLEAN /\ o.nonempty \in BOOLEAN /\ o.complete \in BOOLEAN
        /\ o.diags \in SUBSET Diagnostics
    BY <1>9, Outcomes
  <2>3. pc \in InHyd
    BY <1>9 DEF InHyd, Early, Start
  <2>4. project' = project \o SetToSeq(o.diags)
    BY <1>9 DEF HydraulicsReturn
  <2>5. list \in SUBSET Diagnostics
    BY <1>6, <1>7, <1>9, <2>2, <2>3, <2>4 DEF HydraulicResults
  <2> HIDE DEF list
  <2>6. hyd \in HydraulicResults /\ hyd.validity = hydraulics.validity
    BY <1>6, <2>2, <2>5 DEF HydraulicResults
  <2>7. \/ CancelHydraulics(hyd) \/ FailHydraulics(hyd, Failure(o))
        \/ hydraulics' = hyd /\ UNCHANGED <<quality, result>>
    BY <1>9, <2>1 DEF HydraulicsReturn
  <2> HIDE DEF hyd
  <2>8. QED
    BY <1>3, <1>4, <1>5, <1>9, <2>6, <2>7
<1>10. CASE SolveHydraulics \/ SolvedHydraulics
  <2>1. /\ pc \in {"solveHydraulics", "solvingHydraulics"} /\ UNCHANGED checkpoint
        /\ \/ HydraulicsReturn(NotStarted)
           \/ \E o \in HydraulicOutcomes : HydraulicsReturn(o)
           \/ UNCHANGED <<hydraulics, quality, result>>
    BY <1>10 DEF SolveHydraulics, SolvedHydraulics
  <2>2. QED
    BY <1>3, <1>9, <2>1
<1>11. CASE SaveHydraulics
  <2>1. /\ UNCHANGED <<quality, result>>
        /\ \E success, list : hydraulics' = [hydraulics EXCEPT !.success = success, !.diags = list]
    BY <1>11 DEF SaveHydraulics
  <2>2. hydraulics'.validity = hydraulics.validity
    BY <1>6, <2>1 DEF HydraulicResults
  <2>3. QED
    BY <1>3, <2>1, <2>2
<1>12. CASE SavedHydraulics
  <2>1. pc = "savedHydraulics"
    BY <1>12 DEF SavedHydraulics
  <2>2. \/ CancelHydraulics(hydraulics)
        \/ FailHydraulics(hydraulics, {Diag("Error", "SaveHydraulics")})
        \/ pc' = "reportHydraulics" /\ UNCHANGED <<quality, result>>
    BY <1>12 DEF SavedHydraulics
  <2>3. CASE pc' = "reportHydraulics" /\ UNCHANGED <<quality, result>>
    <3>1. hydraulics'.validity = "Valid"
      BY <2>3 DEF RInv, Known, HydraulicsKnown
    <3>2. QED
      BY <1>1, <1>2, <2>1, <2>3, <3>1, BeforeTheHydraulics, Solves
  <2>4. QED
    BY <1>4, <1>5, <1>6, <2>1, <2>2, <2>3
<1>13. CASE ReportHydraulics
  <2>1. /\ pc = "reportHydraulics" /\ pc' = "nextChild" /\ UNCHANGED <<quality, noticed>>
    BY <1>13 DEF ReportHydraulics
  <2>2. hydraulics.validity = "Valid" /\ hydraulics'.validity = "Valid"
    BY <2>1 DEF RInv, Known, HydraulicsKnown, Middle
  <2>3. result'.cancelled = result.cancelled
    BY <2>1 DEF RInv, IInv, NoticedIsCancelled
  <2>4. QED
    BY <1>3, <2>1, <2>2, <2>3
<1>14. QED
  BY <1>8, <1>10, <1>11, <1>12, <1>13

LEMMA InTheMiddle ==
  ASSUME RInv, pc \in Middle
  PROVE  /\ pc # "returned" /\ pc \in InChild \union {"nextChild"}
         /\ hydraulics.validity = "Valid" /\ hydraulics \in HydraulicResults
         /\ result.cancelled = FALSE /\ {"state", "cancelled"} \subseteq DOMAIN result
         /\ result \in RestOfResult
         /\ msx \in {"Pending", "Absent"}
         /\ \A i \in DOMAIN quality : "state" \in DOMAIN quality[i]
         /\ quality \in [DOMAIN quality -> ChildResults]
<1>1. pc # "returned" /\ pc \in InChild \union {"nextChild"}
  BY DEF Middle, InChild
<1>2. hydraulics.validity = "Valid"
  BY DEF RInv, Known, HydraulicsKnown
<1>3. /\ result.cancelled = FALSE /\ {"state", "cancelled"} \subseteq DOMAIN result
      /\ result \in RestOfResult
  BY InMiddle DEF RestOfResult
<1>4. msx \in {"Pending", "Absent"}
  BY DEF RInv, Known, MsxPlanned
<1>5. /\ \A i \in DOMAIN quality : "state" \in DOMAIN quality[i]
      /\ quality \in [DOMAIN quality -> ChildResults]
  BY InMiddle DEF ChildResults
<1>6. hydraulics \in HydraulicResults
  BY DEF RInv, Known, RunTypes
<1>7. QED
  BY <1>1, <1>2, <1>3, <1>4, <1>5, <1>6

(* The rest is cancelled, after the current child has not started or is    *)
(* cancelled itself.                                                       *)
LEMMA RestIsCancelled ==
  ASSUME RInv, IInv', pc \in Middle, phase \in DOMAIN quality, UNCHANGED msx,
         NEW list, DOMAIN list = DOMAIN quality,
         \A i \in DOMAIN quality : "state" \in DOMAIN list[i],
         \A i \in DOMAIN quality : i # phase => list[i] = quality[i],
         list[phase].state \in {"Pending", "Cancelled"},
         NEW res, {"state", "cancelled"} \subseteq DOMAIN res, res.cancelled = TRUE,
         StopExecutor(res, hydraulics, Settled(list, "Cancelled"))
  PROVE  Contract!Next
<1>1. /\ DOMAIN quality' = DOMAIN quality
      /\ \A i \in DOMAIN quality :
           quality'[i].state = IF list[i].state = "Pending" THEN "Cancelled" ELSE list[i].state
      /\ hydraulics'.validity = hydraulics.validity
      /\ result'.cancelled = res.cancelled
  <2>1. res.cancelled \in BOOLEAN
    OBVIOUS
  <2>2. hydraulics \in HydraulicResults
    BY InTheMiddle
  <2>3. \A i \in DOMAIN list : "state" \in DOMAIN list[i]
    OBVIOUS
  <2>4. QED
    BY <2>1, <2>2, <2>3, SettlesList
<1>2. \A i \in DOMAIN quality :
        quality'[i].state = IF quality[i].state \in Contract!Settled THEN quality[i].state
                            ELSE "Cancelled"
  <2>1. TAKE i \in DOMAIN quality
  <2>2. i \in Int /\ phase \in Int
    BY InMiddle
  <2>3. /\ i < phase => \/ quality[i].state \in Completed
                        \/ quality[i].state = "Skipped" /\ request.quality[i] = "None"
        /\ i > phase => quality[i].state = "Pending"
        /\ i = phase => quality[i].state \in {"Pending", "Running"}
    BY InTheMiddle DEF RInv, IInv, InTurn
  <2>4. CASE i < phase
    <3>1. quality[i].state \in Contract!Settled /\ quality[i].state # "Pending" /\ list[i] = quality[i]
      BY <2>2, <2>3, <2>4, ContractStates DEF Completed
    <3>2. QED
      BY <1>1, <3>1
  <2>5. CASE i > phase
    <3>1. quality[i].state \notin Contract!Settled /\ list[i] = quality[i]
      BY <2>2, <2>3, <2>5, ContractStates DEF Completed
    <3>2. QED
      BY <1>1, <2>3, <2>5, <3>1
  <2>6. CASE i = phase
    <3>1. quality[i].state \notin Contract!Settled
      BY <2>3, <2>6, ContractStates DEF Completed
    <3>2. QED
      BY <1>1, <2>6, <3>1
  <2>7. QED
    BY <2>2, <2>4, <2>5, <2>6
<1>3. \/ msx' = IF msx \in {"Pending", "Running"} THEN "Cancelled" ELSE msx
      \/ msx = "Pending" /\ UNCHANGED msx
  BY InTheMiddle
<1>4. QED
  BY <1>1, <1>2, <1>3, InTheMiddle, Cancels

LEMMA ChildChanges ==
  ASSUME NEW c, DOMAIN quality # {}, quality' = [quality EXCEPT ![phase] = c],
         phase \in DOMAIN quality
  PROVE  States(quality') = [States(quality) EXCEPT ![phase] = c.state]
BY DEF States

LEMMA ChildFinishes ==
  ASSUME RInv, IInv', pc \in InChild, NEW c, NEW res, NextChild(c, res), c.state \in Completed,
         UNCHANGED <<hydraulics, msx, noticed>>
  PROVE  Contract!Next
<1>1. /\ phase \in DOMAIN quality /\ quality[phase].state = "Running" /\ pc # "returned"
  BY InAChild DEF RInv, InChild
<1>2. quality' = [quality EXCEPT ![phase] = c]
  BY DEF NextChild, CurrentChild
<1>3. States(quality') = [States(quality) EXCEPT ![phase] = c.state]
  BY <1>1, <1>2, ChildChanges
<1>4. result'.cancelled = result.cancelled
  BY DEF RInv, IInv, NoticedIsCancelled
<1>5. QED
  BY <1>1, <1>3, <1>4, Ends

LEMMA ChildRunsOn ==
  ASSUME RInv, IInv', pc \in InChild, NEW c, quality' = [quality EXCEPT ![phase] = c],
         c.state = "Running", UNCHANGED <<hydraulics, msx, result>>
  PROVE  Contract!Next
<1>1. /\ phase \in DOMAIN quality /\ quality[phase].state = "Running" /\ pc # "returned"
  BY InAChild DEF RInv, InChild
<1>2. States(quality') = States(quality)
  BY <1>1, ChildChanges DEF States
<1>3. QED
  BY <1>1, <1>2, GoesOn

LEMMA ChildFailsContract ==
  ASSUME RInv, IInv', pc \in InChild, NEW child, "state" \in DOMAIN child, NEW failures,
         FailChild(child, failures), UNCHANGED <<hydraulics, msx, noticed>>
  PROVE  Contract!Next
<1> DEFINE list == AppendAll(child.diags, failures)
           c == [child EXCEPT !.success = FALSE, !.diags = list, !.state = "Error",
                              !.validity = FinalValidity(list, FALSE), !.report = collector]
           res == [result EXCEPT !.success = FALSE]
<1>1. NextChild(c, res)
  BY DEF FailChild
<1>2. c.state \in Completed
  BY DEF Completed
<1> HIDE DEF c, res
<1>3. QED
  BY <1>1, <1>2, ChildFinishes

LEMMA ChildrenContract ==
  ASSUME RInv, RInv', \/ SkipChild \/ StartChild \/ ValidateQuality \/ ConfigureQuality
                      \/ SolveQuality \/ SolvedQuality \/ ReportQuality \/ FinishExecutor
  PROVE  Contract!Next
<1>1. pc \in Middle /\ UNCHANGED msx
  BY DEF SkipChild, StartChild, ValidateQuality, ConfigureQuality, SolveQuality, SolvedQuality,
         ReportQuality, FinishExecutor, Middle, InChild
<1>2. IInv' /\ IInv
  BY DEF RInv
<1>3. CASE SkipChild
  <2>1. /\ pc = "nextChild" /\ phase \in DOMAIN quality
        /\ quality' = [quality EXCEPT ![phase].state = "Skipped"]
        /\ UNCHANGED <<hydraulics, result>>
    BY <1>3 DEF SkipChild
  <2> DEFINE c == [quality[phase] EXCEPT !.state = "Skipped"]
  <2>2. quality' = [quality EXCEPT ![phase] = c] /\ c.state = "Skipped"
    BY <1>1, <2>1, InTheMiddle
  <2> HIDE DEF c
  <2>3. States(quality') = [States(quality) EXCEPT ![phase] = "Skipped"]
    BY <2>1, <2>2, ChildChanges
  <2>4. Contract!SettledBefore(phase) /\ quality[phase].state = "Pending"
    BY <1>1, <1>2, <2>1, InAChild, InTheMiddle, SettlesBefore
  <2>5. QED
    BY <1>1, <1>2, <2>1, <2>3, <2>4, InTheMiddle, Starts
<1>4. CASE StartChild
  <2>1. pc = "nextChild" /\ phase \in DOMAIN quality
    BY <1>4 DEF StartChild
  <2>2. quality[phase].state = "Pending"
    BY <1>1, <1>2, <2>1, InAChild, InTheMiddle
  <2>3. CASE StopExecutor([result EXCEPT !.cancelled = TRUE], hydraulics,
                          Settled(quality, "Cancelled"))
    <3> DEFINE res == [result EXCEPT !.cancelled = TRUE]
    <3>1. /\ {"state", "cancelled"} \subseteq DOMAIN res /\ res.cancelled = TRUE
          /\ StopExecutor(res, hydraulics, Settled(quality, "Cancelled"))
      BY <1>1, <2>3, InTheMiddle
    <3> HIDE DEF res
    <3>2. \A i \in DOMAIN quality : "state" \in DOMAIN quality[i]
      BY <1>1, InTheMiddle
    <3>3. QED
      BY <1>1, <1>2, <2>1, <2>2, <3>1, <3>2, RestIsCancelled
  <2>4. CASE /\ quality' = [quality EXCEPT ![phase].state = "Running"]
             /\ UNCHANGED <<hydraulics, result>>
    <3> DEFINE c == [quality[phase] EXCEPT !.state = "Running"]
    <3>1. quality' = [quality EXCEPT ![phase] = c] /\ c.state = "Running"
      BY <1>1, <2>1, <2>4, InTheMiddle
    <3> HIDE DEF c
    <3>2. States(quality') = [States(quality) EXCEPT ![phase] = "Running"]
      BY <2>1, <3>1, ChildChanges
    <3>3. Contract!SettledBefore(phase)
      BY <1>1, <1>2, <2>1, InTheMiddle, SettlesBefore
    <3>4. QED
      BY <1>1, <1>2, <2>1, <2>2, <2>4, <3>2, <3>3, InTheMiddle, Starts
  <2>5. QED
    BY <1>4, <2>3, <2>4 DEF StartChild
<1>5. CASE ValidateQuality \/ ConfigureQuality
  <2>1. pc \in InChild /\ UNCHANGED <<hydraulics, msx, noticed>>
    BY <1>5 DEF ValidateQuality, ConfigureQuality, InChild
  <2>2. phase \in DOMAIN quality /\ quality[phase].state = "Running"
        /\ "state" \in DOMAIN quality[phase]
    BY <1>2, <2>1, InAChild DEF InChild
  <2> DEFINE child == [quality[phase] EXCEPT !.diags = SinceCheckpoint(@)]
             failure == {Diag("Error", "Configure")}
  <2>3. "state" \in DOMAIN child /\ child.state = "Running"
    BY <2>2
  <2>4. \/ FailChild(quality[phase], failure)
        \/ FailChild(child, failure)
        \/ \E c \in {quality[phase], child} :
             quality' = [quality EXCEPT ![phase] = c] /\ UNCHANGED result
    <3>1. CASE ValidateQuality
      <4>1. UNCHANGED quality => quality' = [quality EXCEPT ![phase] = quality[phase]]
        BY <1>2, <2>2 DEF IInv, Shape
      <4>2. QED
        BY <3>1, <4>1 DEF ValidateQuality
    <3>2. CASE ConfigureQuality
      <4>1. FailChild(child, failure) \/ (CurrentChild(child) /\ UNCHANGED result)
        BY <3>2 DEF ConfigureQuality
      <4>2. QED
        BY <4>1 DEF CurrentChild
    <3>3. QED
      BY <1>5, <3>1, <3>2
  <2> HIDE DEF child, failure
  <2>5. ASSUME NEW c \in {quality[phase], child}, quality' = [quality EXCEPT ![phase] = c],
               UNCHANGED result
        PROVE  Contract!Next
    BY <1>2, <2>1, <2>2, <2>3, <2>5, ChildRunsOn
  <2>6. QED
    BY <1>2, <2>1, <2>2, <2>3, <2>4, <2>5, ChildFailsContract
<1>6. CASE SolveQuality \/ SolvedQuality
  <2>1. pc \in InChild
    BY <1>6 DEF SolveQuality, SolvedQuality, InChild
  <2>2. /\ phase \in DOMAIN quality /\ quality[phase].state = "Running"
        /\ "state" \in DOMAIN quality[phase]
        /\ \A i \in DOMAIN quality : "state" \in DOMAIN quality[i]
    BY <1>2, <2>1, InAChild DEF InChild
  <2>3. \/ \E o : QualityReturn(o)
        \/ UNCHANGED <<hydraulics, quality, result>>
    BY <1>6 DEF SolveQuality, SolvedQuality
  <2>4. CASE UNCHANGED <<hydraulics, quality, result>>
    BY <1>1, <1>2, <2>4, InTheMiddle, GoesOn
  <2>5. ASSUME NEW o, QualityReturn(o) PROVE Contract!Next
    <3> DEFINE warnings == {d \in o.diags : d.severity = "Warning"}
               list  == SinceCheckpoint(quality[phase].diags \union (o.diags \ warnings))
               child == [quality[phase] EXCEPT !.success = o.success, !.nonempty = o.nonempty,
                           !.complete = o.complete, !.diags = list]
               stopped == [child EXCEPT !.state = "Cancelled", !.report = collector',
                                        !.validity = CancelledValidity(o.nonempty)]
               ended == [child EXCEPT !.validity = FinalValidity(list, o.nonempty)]
               res == [result EXCEPT !.cancelled = TRUE, !.diags = AppendAll(@, list)]
               children == [quality EXCEPT ![phase] = stopped]
    <3>1. \/ StopExecutor(res, hydraulics, Settled(children, "Cancelled"))
          \/ /\ quality' = [quality EXCEPT ![phase] = ended]
             /\ UNCHANGED <<hydraulics, result>>
      BY <2>5 DEF QualityReturn, CurrentChild
    <3>2. "state" \in DOMAIN child /\ child.state = "Running"
      BY <2>2
    <3> HIDE DEF child, list
    <3>3. /\ "state" \in DOMAIN stopped /\ stopped.state = "Cancelled"
          /\ ended.state = "Running"
          /\ {"state", "cancelled"} \subseteq DOMAIN res /\ res.cancelled = TRUE
      BY <1>1, <3>2, InTheMiddle
    <3> HIDE DEF stopped, ended, res
    <3>4. /\ DOMAIN children = DOMAIN quality
          /\ \A i \in DOMAIN quality : /\ "state" \in DOMAIN children[i]
                                       /\ i # phase => children[i] = quality[i]
          /\ children[phase].state \in {"Pending", "Cancelled"}
      BY <2>2, <3>3
    <3> HIDE DEF children
    <3>5. CASE StopExecutor(res, hydraulics, Settled(children, "Cancelled"))
      BY <1>1, <1>2, <2>2, <3>3, <3>4, <3>5, RestIsCancelled
    <3>6. CASE /\ quality' = [quality EXCEPT ![phase] = ended]
               /\ UNCHANGED <<hydraulics, result>>
      BY <1>1, <1>2, <2>1, <3>3, <3>6, ChildRunsOn
    <3>7. QED
      BY <3>1, <3>5, <3>6
  <2>6. QED
    BY <2>3, <2>4, <2>5
<1>7. CASE ReportQuality
  <2>1. pc \in InChild /\ UNCHANGED <<hydraulics, msx, noticed>>
    BY <1>7 DEF ReportQuality, InChild
  <2>2. "state" \in DOMAIN quality[phase]
    BY <1>2, <2>1, InAChild DEF InChild
  <2>3. PICK success, list, validity, res :
          NextChild([quality[phase] EXCEPT !.success = success, !.diags = list,
                       !.report = collector, !.validity = validity,
                       !.state = CompletedState(success, list)], res)
    BY <1>7 DEF ReportQuality
  <2> DEFINE c == [quality[phase] EXCEPT !.success = success, !.diags = list,
                       !.report = collector, !.validity = validity,
                       !.state = CompletedState(success, list)]
  <2>4. c.state \in Completed
    <3>1. CompletedState(success, list) \in Completed
      BY DEF CompletedState, Completed
    <3>2. c.state = CompletedState(success, list)
      BY <2>2
    <3>3. QED
      BY <3>1, <3>2
  <2>5. NextChild(c, res)
    BY <2>3
  <2> HIDE DEF c
  <2>6. QED
    BY <1>2, <2>1, <2>4, <2>5, ChildFinishes
<1>8. CASE FinishExecutor
  <2>1. /\ UNCHANGED noticed
        /\ \E res : StopExecutor(res, hydraulics, quality)
    BY <1>8 DEF FinishExecutor
  <2>2. quality' = quality /\ hydraulics'.validity = hydraulics.validity
    BY <1>1, <2>1, InTheMiddle DEF StopExecutor, HydraulicResults
  <2>3. result'.cancelled = result.cancelled
    BY <1>2, <2>1 DEF IInv, NoticedIsCancelled
  <2>4. QED
    BY <1>1, <1>2, <2>2, <2>3, InTheMiddle, GoesOn
<1>9. QED
  BY <1>3, <1>4, <1>5, <1>6, <1>7, <1>8

LEMMA MultiSpeciesContract ==
  ASSUME RInv, RInv', SettleMultiSpecies \/ StartMultiSpecies \/ RunMultiSpecies
  PROVE  Contract!Next
<1>1. /\ IInv' /\ IInv /\ pc # "returned" /\ pc \in Late
      /\ UNCHANGED <<hydraulics, quality>>
  BY DEF RInv, SettleMultiSpecies, StartMultiSpecies, RunMultiSpecies, Late
<1>2. Contract!MayEnd
  BY <1>1, RunMayEnd
<1>3. \A i \in DOMAIN quality : quality[i].state \in Contract!Settled
  <2>1. ChildrenSettled
    BY <1>1 DEF IInv, SettledLate
  <2>2. QED
    BY <2>1, ContractStates, StatesAreTerminal DEF ChildrenSettled
<1>4. Contract!AllSettled
  <2>1. PICK m \in Nat : DOMAIN quality = 1 .. m
    BY <1>1 DEF IInv, Shape
  <2> DEFINE n == (Len(States(quality)) + 1) - 1
  <2>2. 1 .. n = DOMAIN quality /\ \A i \in DOMAIN quality : States(quality)[i] = quality[i].state
    BY <2>1, ListOfStates
  <2>3. Contract!AllSettled <=> \A i \in 1 .. n : States(quality)[i] \in Contract!Settled
    BY DEF Contract!AllSettled, Contract!SettledBefore, States
  <2> HIDE DEF n
  <2>4. QED
    BY <1>3, <2>2, <2>3
<1>5. result.cancelled \in BOOLEAN
  BY DEF RInv, Known, RunTypes, RestOfResult
<1>6. CASE SettleMultiSpecies
  <2>1. /\ UNCHANGED result
        /\ msx' = SettledMsx(IF result.cancelled THEN "Cancelled" ELSE "Skipped")
    BY <1>6 DEF SettleMultiSpecies
  <2>2. CASE msx = "Pending"
    <3>1. Contract!SettleMultiSpecies
      BY <1>1, <1>4, <2>1, <2>2 DEF Contract!SettleMultiSpecies, SettledMsx
    <3>2. QED
      BY <1>1, <1>2, <3>1 DEF Contract!Next
  <2>3. CASE msx # "Pending"
    <3>1. UNCHANGED msx /\ States(quality') = States(quality)
      BY <1>1, <2>1, <2>3 DEF SettledMsx
    <3>2. QED
      BY <1>1, <2>1, <3>1, GoesOn
  <2>4. QED
    BY <2>2, <2>3
<1>7. CASE StartMultiSpecies
  <2>1. /\ pc = "multiSpecies" /\ ~result.cancelled /\ hydraulics.success /\ request.msx
        /\ msx' = "Running" /\ UNCHANGED result
    BY <1>7 DEF StartMultiSpecies, CanRunMultiSpecies
  <2>2. msx = "Pending" /\ hydraulics.validity = "Valid"
    BY <2>1, <1>1 DEF RInv, Known, MsxPlanned, Meaning
  <2>3. Contract!StartMultiSpecies
    BY <1>1, <1>4, <2>1, <2>2 DEF Contract!StartMultiSpecies
  <2>4. QED
    BY <1>1, <1>2, <2>3 DEF Contract!Next
<1>8. CASE RunMultiSpecies
  <2>1. pc = "runMultiSpecies"
    BY <1>8 DEF RunMultiSpecies
  <2>2. msx = "Running" /\ ~result.cancelled
    BY <2>1 DEF RInv, Known, MsxPlanned
  <2>3. \/ msx' = "Cancelled" /\ noticed' = TRUE
        \/ msx' \in {"Success", "Error"} /\ UNCHANGED noticed
    BY <1>8 DEF RunMultiSpecies
  <2>4. result'.cancelled = noticed' /\ result.cancelled = noticed
    BY <1>1 DEF IInv, NoticedIsCancelled
  <2>5. CASE msx' = "Cancelled" /\ noticed' = TRUE
    BY <1>1, <1>3, <1>5, <2>2, <2>4, <2>5, Cancels
  <2>6. CASE msx' \in {"Success", "Error"} /\ UNCHANGED noticed
    <3>1. Contract!EndMultiSpecies
      BY <1>1, <2>2, <2>4, <2>6 DEF Contract!EndMultiSpecies
    <3>2. QED
      BY <1>1, <1>2, <3>1 DEF Contract!Next
  <2>7. QED
    BY <2>3, <2>5, <2>6
<1>9. QED
  BY <1>6, <1>7, <1>8

LEMMA ContractInit == Init => Contract!Init
<1> SUFFICES ASSUME Init PROVE Contract!Init
  OBVIOUS
<1>1. IInv
  BY RunInit
<1>2. PICK n \in Nat : DOMAIN quality = 1 .. n
  BY <1>1 DEF IInv, Shape
<1>3. \A i \in DOMAIN quality : quality[i].state = "Pending"
  BY DEF Init
<1> DEFINE f == States(quality)
<1>4. f \in [1 .. n -> {"Pending"}]
  BY <1>2, <1>3 DEF States
<1> HIDE DEF f
<1>5. f \in Seq({"Pending"})
  BY <1>4
<1>6. [i \in DOMAIN quality |-> quality[i].state] \in Seq({"Pending"})
  BY <1>5 DEF f, States
<1>7. QED
  BY <1>6 DEF Contract!Init, Init

(* The executor keeps the contract of a run: hydraulics first, then the    *)
(* children one after the other, then the multi-species run; nothing runs  *)
(* on hydraulics that are not complete, nothing starts after a poll saw    *)
(* the cancellation, and what is settled stays.                            *)
THEOREM RunImplementsContract == Spec => KeepsContract
<1>1. RInv /\ RInv' /\ [Next]_vars => [Contract!Next]_(Contract!vars)
  <2> SUFFICES ASSUME RInv, RInv', [Next]_vars
               PROVE  Contract!Next \/ UNCHANGED Contract!vars
    BY DEF Contract!vars
  <2>1. CASE RequestCancel \/ UNCHANGED vars
    BY <2>1 DEF RequestCancel, vars, Contract!vars
  <2>2. CASE EntryPoll \/ ValidateMsx \/ Prepare \/ Prepared
    BY <2>2, StartContract DEF RInv
  <2>3. CASE \/ ConfigureHydraulics \/ SolveHydraulics \/ SolvedHydraulics
             \/ SaveHydraulics \/ SavedHydraulics \/ ReportHydraulics
    BY <2>3, HydraulicsContract
  <2>4. CASE \/ SkipChild \/ StartChild \/ ValidateQuality \/ ConfigureQuality
             \/ SolveQuality \/ SolvedQuality \/ ReportQuality \/ FinishExecutor
    BY <2>4, ChildrenContract
  <2>5. CASE SettleMultiSpecies \/ StartMultiSpecies \/ RunMultiSpecies
    BY <2>5, MultiSpeciesContract
  <2>6. QED
    BY <2>1, <2>2, <2>3, <2>4, <2>5 DEF Next
<1>2. QED
  BY <1>1, ContractInit, KnownAlways, PTL DEF Spec, KeepsContract, Contract!Spec

=============================================================================
