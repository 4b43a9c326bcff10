---------------------- MODULE SimulationManagerProofs ----------------------
(***************************************************************************)
(* Safety of the simulation manager for any set of jobs, any clients and   *)
(* any number of workers.  The inductive invariant adds to the properties: *)
(* which client owns a job being submitted, that the pool's queue holds    *)
(* each queued job once, where the destructor is, and who raised a flag.   *)
(* The order of the signals is proved from a second invariant, of which of *)
(* them have been emitted and which are still posted to the event loop.    *)
(* The manager implements SimulationService; what the refinement needs     *)
(* beyond those invariants is OInv.                                        *)
(***************************************************************************)
EXTENDS SimulationManager, SequenceTheorems, TLAPS

(* A job is being submitted exactly while one client is inside submit.     *)
OwnedSubmits ==
    /\ \A c \in Clients : inside[c] # NoJob => task[inside[c]] \in SubmitStates
    /\ \A c, d \in Clients : inside[c] # NoJob /\ inside[c] = inside[d] => c = d
    /\ \A j \in Jobs : task[j] \in SubmitStates => \E c \in Clients : inside[c] = j

QueueHoldsQueued ==
    /\ \A i \in DOMAIN pool_queue : task[pool_queue[i]] = "queued"
    /\ \A i, k \in DOMAIN pool_queue : pool_queue[i] = pool_queue[k] => i = k

(* What the steps of the destructor have settled.                          *)
ShutdownProgress ==
    /\ shutting_down <=> destructor # "alive"
    /\ shutting_down => \A c \in Clients : inside[c] = NoJob
    /\ destructor \in {"waiting", "erasing", "destroyed"} =>
         pool_queue = <<>> /\ \A j \in Jobs : task[j] # "queued"

RaisedFlags == \A j \in Jobs : flag[j] => j \in asked \/ shutting_down

IInv ==
    /\ TypeOK
    /\ OwnedSubmits
    /\ QueueHoldsQueued
    /\ ShutdownProgress
    /\ RaisedFlags
    /\ TrackedExactly
    /\ IndependentCancellation
    /\ QuietAfterDestruction

-----------------------------------------------------------------------------
(* Typing. *)

LEMMA TypeStep == TypeOK /\ [Next]_vars => TypeOK'
<1> SUFFICES ASSUME TypeOK, [Next]_vars PROVE TypeOK'
  OBVIOUS
<1> USE DEF TypeOK, TaskStates, SubmitStates, WorkerStates, Outcomes, Stages
<1>1. ASSUME NEW c \in Clients, Submit(c) PROVE TypeOK'
  <2>1. ASSUME NEW j \in Jobs, SubmitInsert(c, j) PROVE TypeOK'
    BY <2>1 DEF SubmitInsert
  <2>2. CASE SubmitAnnounce(c)
    <3>1. inside[c] \in Jobs /\ "Queued" \in SignalKinds
      BY <2>2 DEF SubmitAnnounce, SignalKinds
    <3>2. signals' \in [Jobs -> Seq(SignalKinds)]
      BY <2>2, <3>1 DEF SubmitAnnounce
    <3>3. QED
      BY <2>2, <3>1, <3>2 DEF SubmitAnnounce
  <2>3. CASE SubmitStart(c)
    <3>1. inside[c] \in Jobs
      BY <2>3 DEF SubmitStart
    <3>2. QED
      BY <2>3, <3>1 DEF SubmitStart
  <2>4. QED
    BY <1>1, <2>1, <2>2, <2>3 DEF Submit
<1>2. ASSUME NEW c \in Clients, Request(c) PROVE TypeOK'
  <2>1. ASSUME NEW j \in Jobs, Cancel(c, j) PROVE TypeOK'
    BY <2>1 DEF Cancel
  <2>2. CASE CancelAll(c)
    BY <2>2 DEF CancelAll, RaiseFlags
  <2>3. ASSUME NEW count \in WorkerCounts, SetMaxWorkerCount(c, count) PROVE TypeOK'
    BY <2>3, WorkerAssumption DEF SetMaxWorkerCount, AtLeastOne
  <2>4. QED
    BY <1>2, <2>1, <2>2, <2>3 DEF Request
<1>3. CASE Dispatch
  <2>1. Head(pool_queue) \in Jobs /\ Tail(pool_queue) \in Seq(Jobs)
    BY <1>3 DEF Dispatch
  <2>2. QED
    BY <1>3, <2>1 DEF Dispatch
<1>4. ASSUME NEW j \in Jobs, Task(j) PROVE TypeOK'
  <2>1. \A k \in SignalKinds : [kind |-> k, id |-> j] \in Posted
    BY DEF Posted
  <2>2. CASE TaskStarted(j) \/ TaskCompleted(j)
    <3>1. PICK e \in Posted : events' = Append(events, e)
      BY <2>1, <2>2 DEF TaskStarted, TaskCompleted, SignalKinds
    <3>2. events' \in Seq(Posted)
      BY <3>1
    <3>3. QED
      BY <2>2, <3>2 DEF TaskStarted, TaskCompleted
  <2>3. CASE TaskAbandon(j) \/ TaskForget(j) \/ RunEntryPoll(j) \/ TaskRemove(j)
    BY <2>3 DEF TaskAbandon, TaskForget, RunEntryPoll, TaskRemove
  <2>4. CASE RunCancelled(j) \/ RunFinished(j)
    BY <2>4 DEF RunCancelled, RunFinished, RunReturns
  <2>5. QED
    BY <1>4, <2>2, <2>3, <2>4 DEF Task
<1>5. CASE Deliver
  <2>1. Head(events) \in Posted /\ Tail(events) \in Seq(Posted)
    BY <1>5 DEF Deliver
  <2>2. Head(events).kind \in SignalKinds /\ Head(events).id \in Jobs
    BY <2>1 DEF Posted
  <2>3. signals' \in [Jobs -> Seq(SignalKinds)]
    BY <1>5, <2>2 DEF Deliver
  <2>4. QED
    BY <1>5, <2>1, <2>3 DEF Deliver
<1>6. CASE Destroy
  <2>1. CASE DestroyBegin \/ DestroyWait
    BY <2>1 DEF DestroyBegin, DestroyWait
  <2>2. CASE DestroyCancelAll
    BY <2>2 DEF DestroyCancelAll, RaiseFlags
  <2>3. CASE DestroyClear
    BY <2>3 DEF DestroyClear
  <2>4. CASE DestroyErase
    BY <2>4 DEF DestroyErase
  <2>5. QED
    BY <1>6, <2>1, <2>2, <2>3, <2>4 DEF Destroy
<1>7. CASE UNCHANGED vars
  BY <1>7 DEF vars
<1>8. QED
  BY <1>1, <1>2, <1>3, <1>4, <1>5, <1>6, <1>7 DEF Next

LEMMA TypeInit == Init => TypeOK
<1> SUFFICES ASSUME Init PROVE TypeOK
  OBVIOUS
<1>1. max_threads \in Int /\ max_threads > 0
  BY WorkerAssumption DEF Init, AtLeastOne
<1>2. pool_queue \in Seq(Jobs) /\ events \in Seq(Posted)
  BY DEF Init
<1>3. signals \in [Jobs -> Seq(SignalKinds)]
  BY DEF Init
<1>4. QED
  BY <1>1, <1>2, <1>3 DEF Init, TypeOK, TaskStates, Outcomes, Stages

(* Every state of the manager is well typed.                               *)
THEOREM TypeCorrect == Spec => []TypeOK
BY TypeInit, TypeStep, PTL DEF Spec

-----------------------------------------------------------------------------
(* The inductive invariant, one lemma for each group of actions. *)

LEMMA InvInit == Init => IInv
<1> SUFFICES ASSUME Init PROVE IInv
  OBVIOUS
<1>1. TypeOK
  BY TypeInit
<1>2. QED
  BY <1>1 DEF Init, IInv, OwnedSubmits, QueueHoldsQueued, ShutdownProgress, RaisedFlags,
              TrackedExactly, Tracked, IndependentCancellation, QuietAfterDestruction,
              SubmitStates, WorkerStates

LEMMA InvSubmit ==
  ASSUME NEW c \in Clients, IInv, Submit(c)
  PROVE  IInv'
<1> USE DEF IInv, OwnedSubmits, QueueHoldsQueued, ShutdownProgress, RaisedFlags,
            TrackedExactly, Tracked, IndependentCancellation, QuietAfterDestruction,
            SubmitStates, WorkerStates
<1>t. TypeOK'
  BY TypeStep DEF Next
<1>1. ASSUME NEW j \in Jobs, SubmitInsert(c, j) PROVE IInv'
  <2>1. /\ inside' = [inside EXCEPT ![c] = j] /\ task' = [task EXCEPT ![j] = "inserted"]
        /\ inside[c] = NoJob /\ task[j] = "absent" /\ pool_queue' = pool_queue
    BY <1>1 DEF SubmitInsert
  <2>2. OwnedSubmits'
    <3>1. \A d \in Clients : inside[d] # j
      BY <2>1, NoJobAssumption
    <3>2. /\ \A d \in Clients : inside'[d] = IF d = c THEN j ELSE inside[d]
          /\ \A k \in Jobs : task'[k] = IF k = j THEN "inserted" ELSE task[k]
      BY <2>1 DEF TypeOK
    <3>3. /\ \A d \in Clients : inside'[d] # NoJob => task'[inside'[d]] \in SubmitStates
          /\ \A d, e \in Clients : inside'[d] # NoJob /\ inside'[d] = inside'[e] => d = e
      BY <2>1, <3>1, <3>2, NoJobAssumption DEF TypeOK
    <3>4. ASSUME NEW k \in Jobs, task'[k] \in SubmitStates
          PROVE  \E d \in Clients : inside'[d] = k
      <4>1. CASE k = j
        BY <3>2, <4>1
      <4>2. CASE k # j
        <5>1. PICK d \in Clients : inside[d] = k
          BY <3>2, <3>4, <4>2
        <5>2. d # c
          BY <2>1, <5>1, NoJobAssumption
        <5>3. QED
          BY <3>2, <5>1, <5>2
      <4>3. QED
        BY <4>1, <4>2
    <3>5. QED
      BY <3>3, <3>4
  <2>3. QueueHoldsQueued'
    BY <2>1 DEF TypeOK
  <2>4. (/\ ShutdownProgress /\ RaisedFlags /\ TrackedExactly
         /\ IndependentCancellation /\ QuietAfterDestruction)'
    BY <1>1 DEF SubmitInsert, TypeOK
  <2>5. QED
    BY <1>t, <2>2, <2>3, <2>4
<1>2. CASE SubmitAnnounce(c)
  <2>1. inside[c] \in Jobs /\ task' = [task EXCEPT ![inside[c]] = "announced"]
    BY <1>2 DEF SubmitAnnounce, TypeOK
  <2>2. OwnedSubmits'
    BY <1>2, <2>1 DEF SubmitAnnounce, TypeOK
  <2>3. QueueHoldsQueued'
    BY <1>2, <2>1 DEF SubmitAnnounce, TypeOK
  <2>4. (/\ ShutdownProgress /\ RaisedFlags /\ TrackedExactly
         /\ IndependentCancellation /\ QuietAfterDestruction)'
    BY <1>2, <2>1 DEF SubmitAnnounce, TypeOK
  <2>5. QED
    BY <1>t, <2>2, <2>3, <2>4
<1>3. CASE SubmitStart(c)
  <2> DEFINE j == inside[c]
  <2>1. /\ j \in Jobs /\ task[j] = "announced" /\ task' = [task EXCEPT ![j] = "queued"]
        /\ pool_queue' = Append(pool_queue, j) /\ inside' = [inside EXCEPT ![c] = NoJob]
    BY <1>3 DEF SubmitStart, TypeOK
  <2> HIDE DEF j
  <2>2. OwnedSubmits'
    BY <2>1, NoJobAssumption DEF TypeOK, j
  <2>3. QueueHoldsQueued'
    <3>1. \A i \in DOMAIN pool_queue : pool_queue[i] \in Jobs /\ pool_queue[i] # j
      BY <2>1 DEF TypeOK
    <3>2. /\ DOMAIN pool_queue' = DOMAIN pool_queue \union {Len(pool_queue) + 1}
          /\ \A i \in DOMAIN pool_queue : pool_queue'[i] = pool_queue[i]
          /\ pool_queue'[Len(pool_queue) + 1] = j
      BY <2>1 DEF TypeOK
    <3>3. QED
      BY <2>1, <3>1, <3>2 DEF TypeOK
  <2>4. (/\ ShutdownProgress /\ RaisedFlags /\ TrackedExactly
         /\ IndependentCancellation /\ QuietAfterDestruction)'
    BY <1>3, <2>1, NoJobAssumption DEF SubmitStart, TypeOK, j
  <2>5. QED
    BY <1>t, <2>2, <2>3, <2>4
<1>4. QED
  BY <1>1, <1>2, <1>3 DEF Submit

LEMMA InvRequest ==
  ASSUME NEW c \in Clients, IInv, Request(c)
  PROVE  IInv'
<1> USE DEF IInv, OwnedSubmits, QueueHoldsQueued, ShutdownProgress, RaisedFlags,
            TrackedExactly, Tracked, IndependentCancellation, QuietAfterDestruction
<1>t. TypeOK'
  BY TypeStep DEF Next
<1>1. ASSUME NEW j \in Jobs, Cancel(c, j) PROVE IInv'
  BY <1>t, <1>1 DEF Cancel, TypeOK
<1>2. CASE CancelAll(c)
  BY <1>t, <1>2 DEF CancelAll, RaiseFlags, TypeOK
<1>3. ASSUME NEW count \in WorkerCounts, SetMaxWorkerCount(c, count) PROVE IInv'
  BY <1>t, <1>3 DEF SetMaxWorkerCount, TypeOK
<1>4. QED
  BY <1>1, <1>2, <1>3 DEF Request

LEMMA InvDispatch ==
  ASSUME IInv, Dispatch
  PROVE  IInv'
<1> DEFINE j == Head(pool_queue)
<1> USE DEF IInv, OwnedSubmits, QueueHoldsQueued, ShutdownProgress, RaisedFlags,
            TrackedExactly, Tracked, IndependentCancellation, QuietAfterDestruction,
            SubmitStates, WorkerStates
<1>t. TypeOK'
  BY TypeStep DEF Next
<1>1. /\ pool_queue \in Seq(Jobs) /\ pool_queue # <<>> /\ j = pool_queue[1]
      /\ pool_queue' = Tail(pool_queue) /\ task' = [task EXCEPT ![j] = "entered"]
  BY DEF Dispatch, TypeOK
<1>2. j \in Jobs /\ task[j] = "queued" /\ 1 \in DOMAIN pool_queue
  BY <1>1
<1>3. \A i \in DOMAIN pool_queue' : i + 1 \in DOMAIN pool_queue /\ pool_queue'[i] = pool_queue[i + 1]
  BY <1>1
<1> HIDE DEF j
<1>4. QueueHoldsQueued'
  <2>1. \A i \in DOMAIN pool_queue' : i \in Nat /\ i >= 1 /\ pool_queue'[i] \in Jobs
    BY <1>1
  <2>2. \A i \in DOMAIN pool_queue' : pool_queue'[i] # j
    BY <1>1, <1>2, <1>3, <2>1
  <2>3. \A i \in DOMAIN pool_queue' : task'[pool_queue'[i]] = "queued"
    BY <1>1, <1>3, <2>1, <2>2 DEF TypeOK
  <2>4. ASSUME NEW i \in DOMAIN pool_queue', NEW k \in DOMAIN pool_queue',
               pool_queue'[i] = pool_queue'[k]
        PROVE  i = k
    <3>1. i + 1 = k + 1
      BY <1>3, <2>4
    <3>2. QED
      BY <2>1, <3>1
  <2>5. QED
    BY <2>3, <2>4
<1>5. (/\ OwnedSubmits /\ ShutdownProgress /\ RaisedFlags /\ TrackedExactly
       /\ IndependentCancellation /\ QuietAfterDestruction)'
  BY <1>1, <1>2 DEF Dispatch, TypeOK, j
<1>6. QED
  BY <1>t, <1>4, <1>5

LEMMA InvTask ==
  ASSUME NEW j \in Jobs, IInv, Task(j)
  PROVE  IInv'
<1> USE DEF IInv, OwnedSubmits, QueueHoldsQueued, ShutdownProgress, RaisedFlags,
            TrackedExactly, Tracked, IndependentCancellation, QuietAfterDestruction,
            SubmitStates, WorkerStates
<1>t. TypeOK'
  BY TypeStep DEF Next
<1>1. CASE TaskAbandon(j)
  BY <1>t, <1>1 DEF TaskAbandon, TypeOK
<1>2. CASE TaskForget(j)
  BY <1>t, <1>2 DEF TaskForget, TypeOK
<1>3. CASE TaskStarted(j)
  BY <1>t, <1>3 DEF TaskStarted, TypeOK
<1>4. CASE RunEntryPoll(j)
  <2>1. task[j] = "started" /\ task' = [task EXCEPT ![j] = "running"]
    BY <1>4 DEF RunEntryPoll
  <2>2. OwnedSubmits' /\ QueueHoldsQueued'
    BY <1>4, <2>1 DEF RunEntryPoll, TypeOK
  <2>3. (/\ ShutdownProgress /\ RaisedFlags /\ TrackedExactly
         /\ IndependentCancellation /\ QuietAfterDestruction)'
    BY <1>4, <2>1 DEF RunEntryPoll, TypeOK
  <2>4. QED
    BY <1>t, <2>2, <2>3
<1>5. CASE RunCancelled(j)
  BY <1>t, <1>5 DEF RunCancelled, RunReturns, Interrupted, TypeOK
<1>6. CASE RunFinished(j)
  BY <1>t, <1>6 DEF RunFinished, RunReturns, TypeOK
<1>7. CASE TaskRemove(j)
  BY <1>t, <1>7 DEF TaskRemove, TypeOK
<1>8. CASE TaskCompleted(j)
  BY <1>t, <1>8 DEF TaskCompleted, TypeOK
<1>9. QED
  BY <1>1, <1>2, <1>3, <1>4, <1>5, <1>6, <1>7, <1>8 DEF Task

LEMMA InvDestroy ==
  ASSUME IInv, Destroy
  PROVE  IInv'
<1> USE DEF IInv, OwnedSubmits, QueueHoldsQueued, ShutdownProgress, RaisedFlags,
            TrackedExactly, Tracked, IndependentCancellation, QuietAfterDestruction,
            SubmitStates, WorkerStates
<1>t. TypeOK'
  BY TypeStep DEF Next
<1>1. CASE DestroyBegin
  BY <1>t, <1>1 DEF DestroyBegin, TypeOK
<1>2. CASE DestroyCancelAll
  BY <1>t, <1>2 DEF DestroyCancelAll, RaiseFlags, TypeOK
<1>3. CASE DestroyClear
  BY <1>t, <1>3, NoJobAssumption DEF DestroyClear, TypeOK
<1>4. CASE DestroyWait
  <2>1. \A j \in Jobs : task[j] \notin WorkerStates \union SubmitStates \union {"queued"}
    BY <1>4, NoJobAssumption DEF DestroyWait, Active, TypeOK
  <2>2. \A j \in Jobs : task[j] \in {"absent", "discarded", "ended"}
    BY <2>1 DEF TypeOK, TaskStates
  <2>3. QED
    BY <1>t, <1>4, <2>2 DEF DestroyWait, TypeOK
<1>5. CASE DestroyErase
  BY <1>t, <1>5 DEF DestroyErase, TypeOK
<1>6. QED
  BY <1>1, <1>2, <1>3, <1>4, <1>5 DEF Destroy

LEMMA InvStep == IInv /\ [Next]_vars => IInv'
<1> SUFFICES ASSUME IInv, [Next]_vars PROVE IInv'
  OBVIOUS
<1>t. TypeOK'
  BY TypeStep DEF IInv
<1>1. CASE Deliver
  BY <1>t, <1>1 DEF Deliver, IInv, TypeOK, OwnedSubmits, QueueHoldsQueued, ShutdownProgress,
     RaisedFlags, TrackedExactly, Tracked, IndependentCancellation, QuietAfterDestruction
<1>2. CASE UNCHANGED vars
  BY <1>t, <1>2 DEF vars, IInv, OwnedSubmits, QueueHoldsQueued, ShutdownProgress,
     RaisedFlags, TrackedExactly, Tracked, IndependentCancellation, QuietAfterDestruction
<1>3. QED
  BY <1>1, <1>2, InvSubmit, InvRequest, InvDispatch, InvTask, InvDestroy DEF Next

LEMMA Invariant == Spec => []IInv
BY InvInit, InvStep, PTL DEF Spec

-----------------------------------------------------------------------------
(* A run that ends cancelled was itself asked to, or shutdown was.         *)
THEOREM CancellationIsIndependent == Spec => []IndependentCancellation
BY Invariant, PTL DEF IInv

(* The hash holds exactly the jobs whose runs have not returned.           *)
THEOREM TrackingIsExact == Spec => []TrackedExactly
BY Invariant, PTL DEF IInv

(* Past the destructor's wait no task is left that could use the manager.  *)
THEOREM DestructionIsQuiet == Spec => []QuietAfterDestruction
BY Invariant, PTL DEF IInv

-----------------------------------------------------------------------------
(* The order of the signals.  A job's task tells which signals have been   *)
(* given to the manager's thread; those not yet emitted are posted, each   *)
(* once, and Completed never ahead of Started.                             *)

Silent  == {"absent", "inserted"}
Waiting == {"announced", "queued", "discarded", "entered", "abandoned"}
Begun   == {"started", "running", "returned", "removed"}

Q   == <<"Queued">>
QS  == <<"Queued", "Started">>
QSC == <<"Queued", "Started", "Completed">>

StartedOf(j)   == [kind |-> "Started", id |-> j]
CompletedOf(j) == [kind |-> "Completed", id |-> j]

(* Started has been emitted for j, or is posted ahead of position n.       *)
StartedBefore(j, n) ==
    \/ signals[j] = QS
    \/ signals[j] = Q /\ \E k \in DOMAIN events : k < n /\ events[k] = StartedOf(j)

EmittedSoFar ==
    \A j \in Jobs :
        /\ task[j] \in Silent => signals[j] = <<>>
        /\ task[j] \in Waiting => signals[j] = Q
        /\ task[j] \in Begun => StartedBefore(j, Len(events) + 1)
        /\ task[j] = "ended" => signals[j] \in {Q, QS, QSC}

PostedInOrder ==
    /\ \A i \in DOMAIN events : \E j \in Jobs :
         \/ events[i] = StartedOf(j) /\ signals[j] = Q /\ task[j] \in Begun \union {"ended"}
         \/ events[i] = CompletedOf(j) /\ task[j] = "ended" /\ StartedBefore(j, i)
    /\ \A i, k \in DOMAIN events : events[i] = events[k] => i = k

SInv == EmittedSoFar /\ PostedInOrder

LEMMA AppendIs ==
  ASSUME NEW S, NEW s \in Seq(S), NEW e \in S, NEW t \in Seq(S), Len(t) = Len(s) + 1,
         \A i \in 1 .. Len(s) : t[i] = s[i], t[Len(s) + 1] = e
  PROVE  Append(s, e) = t
<1> DEFINE a == Append(s, e)
<1>1. /\ a \in Seq(S) /\ Len(a) = Len(s) + 1 /\ a[Len(s) + 1] = e
      /\ \A i \in 1 .. Len(s) : a[i] = s[i]
  OBVIOUS
<1> HIDE DEF a
<1>2. \A i \in 1 .. Len(a) : a[i] = t[i]
  BY <1>1
<1>3. a = t
  BY <1>1, <1>2, SeqEqual
<1>4. QED
  BY <1>3 DEF a

LEMMA SignalSteps ==
  /\ Append(<<>>, "Queued") = Q
  /\ Append(Q, "Started") = QS
  /\ Append(QS, "Completed") = QSC
  /\ Q # <<>> /\ QS # <<>> /\ Q # QS /\ Q # QSC /\ QS # QSC
<1>0. "Queued" \in SignalKinds /\ "Started" \in SignalKinds /\ "Completed" \in SignalKinds
  BY DEF SignalKinds
<1>1. Q \in Seq(SignalKinds) /\ Len(Q) = 1 /\ Q[1] = "Queued"
  BY <1>0 DEF Q
<1>2. QS \in Seq(SignalKinds) /\ Len(QS) = 2 /\ QS[1] = "Queued" /\ QS[2] = "Started"
  BY <1>0 DEF QS
<1>3. /\ QSC \in Seq(SignalKinds) /\ Len(QSC) = 3
      /\ QSC[1] = "Queued" /\ QSC[2] = "Started" /\ QSC[3] = "Completed"
  BY <1>0 DEF QSC
<1>4. /\ Len(QS) = Len(Q) + 1 /\ QS[Len(Q) + 1] = "Started"
      /\ \A i \in 1 .. Len(Q) : QS[i] = Q[i]
  BY <1>1, <1>2
<1>5. /\ Len(QSC) = Len(QS) + 1 /\ QSC[Len(QS) + 1] = "Completed"
      /\ \A i \in 1 .. Len(QS) : QSC[i] = QS[i]
  BY <1>2, <1>3
<1>6. Append(Q, "Started") = QS
  BY <1>0, <1>1, <1>2, <1>4, AppendIs, Zenon
<1>7. Append(QS, "Completed") = QSC
  BY <1>0, <1>2, <1>3, <1>5, AppendIs, Zenon
<1>8. Append(<<>>, "Queued") = Q
  BY DEF Q
<1>9. QED
  BY <1>1, <1>2, <1>3, <1>6, <1>7, <1>8

LEMMA EventFields ==
  ASSUME NEW j
  PROVE  /\ StartedOf(j).kind = "Started" /\ StartedOf(j).id = j
         /\ CompletedOf(j).kind = "Completed" /\ CompletedOf(j).id = j
BY DEF StartedOf, CompletedOf

LEMMA EventsDiffer ==
  ASSUME NEW j, NEW k
  PROVE  /\ StartedOf(j) # CompletedOf(k)
         /\ StartedOf(j) = StartedOf(k) => j = k
         /\ CompletedOf(j) = CompletedOf(k) => j = k
<1>1. /\ StartedOf(j).kind = "Started" /\ CompletedOf(k).kind = "Completed"
      /\ StartedOf(j).id = j /\ StartedOf(k).id = k
      /\ CompletedOf(j).id = j /\ CompletedOf(k).id = k
  BY EventFields
<1>2. QED
  BY <1>1

LEMMA StatesAreApart ==
  ASSUME NEW t \in TaskStates
  PROVE  /\ t \in Silent \union Waiting \union Begun \union {"ended"}
         /\ t \in Silent => t \notin Waiting \union Begun \union {"ended"}
         /\ t \in Waiting => t \notin Silent \union Begun \union {"ended"}
         /\ t \in Begun => t \notin Silent \union Waiting \union {"ended"}
BY DEF TaskStates, SubmitStates, WorkerStates, Silent, Waiting, Begun

(* A step that emits and posts nothing, and moves no job past a signal.    *)
LEMMA SignalsKept ==
  ASSUME TypeOK, SInv, UNCHANGED <<events, signals>>,
         \A j \in Jobs : \/ task'[j] = task[j]
                         \/ task[j] \in Silent /\ task'[j] \in Silent
                         \/ task[j] \in Waiting /\ task'[j] \in Waiting \union {"ended"}
                         \/ task[j] \in Begun /\ task'[j] \in Begun
  PROVE  SInv'
<1>1. \A j \in Jobs : task[j] \in TaskStates
  BY DEF TypeOK
<1>2. \A j \in Jobs : \A n : StartedBefore(j, n) = StartedBefore(j, n)'
  BY DEF StartedBefore
<1>3. EmittedSoFar'
  <2> SUFFICES ASSUME NEW j \in Jobs
               PROVE  /\ task'[j] \in Silent => signals[j] = <<>>
                      /\ task'[j] \in Waiting => signals[j] = Q
                      /\ task'[j] \in Begun => StartedBefore(j, Len(events) + 1)
                      /\ task'[j] = "ended" => signals[j] \in {Q, QS, QSC}
    BY <1>2 DEF EmittedSoFar
  <2>1. QED
    BY DEF SInv, EmittedSoFar, Silent, Waiting, Begun
<1>4. PostedInOrder'
  <2>1. \A j \in Jobs : /\ task[j] \in Begun \union {"ended"} => task'[j] \in Begun \union {"ended"}
                        /\ task[j] = "ended" => task'[j] = "ended"
    BY DEF Silent, Waiting, Begun
  <2>2. QED
    BY <1>2, <2>1 DEF SInv, PostedInOrder
<1>5. QED
  BY <1>3, <1>4 DEF SInv

(* The task posts an event that was not posted before.                     *)
LEMMA PostedAtEnd ==
  ASSUME TypeOK, NEW e, events' = Append(events, e)
  PROVE  /\ DOMAIN events' = DOMAIN events \union {Len(events) + 1}
         /\ Len(events') = Len(events) + 1 /\ Len(events) \in Nat
         /\ \A i \in DOMAIN events : /\ events'[i] = events[i]
                                     /\ i \in Nat /\ i < Len(events) + 1
         /\ events'[Len(events) + 1] = e
BY DEF TypeOK

LEMMA PostKeeps ==
  ASSUME NEW j \in Jobs, TypeOK, SInv, UNCHANGED signals,
         NEW e, e \in {StartedOf(j), CompletedOf(j)}, events' = Append(events, e),
         NEW t, task' = [task EXCEPT ![j] = t],
         \/ e = StartedOf(j) /\ task[j] \in Waiting /\ t = "started"
         \/ e = CompletedOf(j) /\ task[j] \in Begun /\ t = "ended"
  PROVE  SInv'
<1> DEFINE n == Len(events) + 1
<1>1. /\ DOMAIN events' = DOMAIN events \union {n} /\ Len(events') = n /\ n \in Nat
      /\ \A i \in DOMAIN events : events'[i] = events[i] /\ i \in Nat /\ i < n
      /\ events'[n] = e
  BY PostedAtEnd
<1> HIDE DEF n
<1>2. /\ task'[j] = t /\ \A k \in Jobs : k # j => task'[k] = task[k]
      /\ \A k \in Jobs : task[k] \in TaskStates
  BY DEF TypeOK
<1>3. \A k \in Jobs : \A m : StartedBefore(k, m) => StartedBefore(k, m)'
  BY <1>1 DEF StartedBefore
<1>4. EmittedSoFar /\ PostedInOrder /\ n = Len(events) + 1
  BY DEF SInv, n
<1>5. \A k \in Jobs : StartedBefore(k, n) => StartedBefore(k, Len(events) + 1)'
  BY <1>1 DEF StartedBefore
<1>6. CASE e = StartedOf(j) /\ task[j] \in Waiting /\ t = "started"
  <2>1. signals[j] = Q /\ task[j] \notin Silent \union Begun \union {"ended"}
    BY <1>2, <1>4, <1>6, StatesAreApart DEF EmittedSoFar
  <2>2. \A i \in DOMAIN events : events[i] # e
    BY <1>4, <1>6, <2>1, EventsDiffer DEF PostedInOrder
  <2>3. StartedBefore(j, Len(events) + 1)'
    BY <1>1, <1>6, <2>1 DEF StartedBefore
  <2>4. t \in Begun /\ t \notin Silent \union Waiting \union {"ended"}
    BY <1>6 DEF Silent, Waiting, Begun
  <2>5. EmittedSoFar'
    <3> SUFFICES ASSUME NEW k \in Jobs
                 PROVE  /\ task'[k] \in Silent => signals[k] = <<>>
                        /\ task'[k] \in Waiting => signals[k] = Q
                        /\ task'[k] \in Begun => StartedBefore(k, Len(events) + 1)'
                        /\ task'[k] = "ended" => signals[k] \in {Q, QS, QSC}
      BY DEF EmittedSoFar
    <3>1. CASE k = j
      BY <1>2, <2>3, <2>4, <3>1
    <3>2. CASE k # j
      BY <1>2, <1>4, <1>5, <3>2 DEF EmittedSoFar
    <3>3. QED
      BY <3>1, <3>2
  <2>6. PostedInOrder'
    <3>1. ASSUME NEW i \in DOMAIN events'
          PROVE  \E k \in Jobs :
                   \/ /\ events'[i] = StartedOf(k) /\ signals[k] = Q
                      /\ task'[k] \in Begun \union {"ended"}
                   \/ events'[i] = CompletedOf(k) /\ task'[k] = "ended" /\ StartedBefore(k, i)'
      <4>1. CASE i = n
        BY <1>1, <1>2, <1>6, <2>1, <2>4, <4>1
      <4>2. CASE i \in DOMAIN events
        <5>1. PICK k \in Jobs :
                \/ /\ events[i] = StartedOf(k) /\ signals[k] = Q
                   /\ task[k] \in Begun \union {"ended"}
                \/ events[i] = CompletedOf(k) /\ task[k] = "ended" /\ StartedBefore(k, i)
          BY <1>4, <4>2 DEF PostedInOrder
        <5>2. k # j
          BY <2>1, <5>1
        <5>3. QED
          BY <1>1, <1>2, <1>3, <4>2, <5>1, <5>2
      <4>3. QED
        BY <1>1, <3>1, <4>1, <4>2
    <3>2. \A i, k \in DOMAIN events' : events'[i] = events'[k] => i = k
      BY <1>1, <1>4, <2>2 DEF PostedInOrder
    <3>3. QED
      BY <3>1, <3>2 DEF PostedInOrder
  <2>7. QED
    BY <2>5, <2>6 DEF SInv
<1>7. CASE e = CompletedOf(j) /\ task[j] \in Begun /\ t = "ended"
  <2>1. StartedBefore(j, n) /\ task[j] \notin Silent \union Waiting \union {"ended"}
    BY <1>2, <1>4, <1>7, StatesAreApart DEF EmittedSoFar
  <2>2. \A i \in DOMAIN events : events[i] # e
    BY <1>4, <1>7, <2>1, EventsDiffer DEF PostedInOrder
  <2>3. signals[j] \in {Q, QS}
    BY <2>1 DEF StartedBefore
  <2>4. t \notin Silent \union Waiting \union Begun
    BY <1>7 DEF Silent, Waiting, Begun
  <2>5. EmittedSoFar'
    <3> SUFFICES ASSUME NEW k \in Jobs
                 PROVE  /\ task'[k] \in Silent => signals[k] = <<>>
                        /\ task'[k] \in Waiting => signals[k] = Q
                        /\ task'[k] \in Begun => StartedBefore(k, Len(events) + 1)'
                        /\ task'[k] = "ended" => signals[k] \in {Q, QS, QSC}
      BY DEF EmittedSoFar
    <3>1. CASE k = j
      BY <1>2, <2>3, <2>4, <3>1
    <3>2. CASE k # j
      BY <1>2, <1>4, <1>5, <3>2 DEF EmittedSoFar
    <3>3. QED
      BY <3>1, <3>2
  <2>6. PostedInOrder'
    <3>1. ASSUME NEW i \in DOMAIN events'
          PROVE  \E k \in Jobs :
                   \/ /\ events'[i] = StartedOf(k) /\ signals[k] = Q
                      /\ task'[k] \in Begun \union {"ended"}
                   \/ events'[i] = CompletedOf(k) /\ task'[k] = "ended" /\ StartedBefore(k, i)'
      <4>1. CASE i = n
        BY <1>1, <1>2, <1>3, <1>7, <2>1, <4>1
      <4>2. CASE i \in DOMAIN events
        <5>1. PICK k \in Jobs :
                \/ /\ events[i] = StartedOf(k) /\ signals[k] = Q
                   /\ task[k] \in Begun \union {"ended"}
                \/ events[i] = CompletedOf(k) /\ task[k] = "ended" /\ StartedBefore(k, i)
          BY <1>4, <4>2 DEF PostedInOrder
        <5>2. task[k] = "ended" => task'[k] = "ended"
          BY <1>2, <1>7
        <5>3. task[k] \in Begun => task'[k] \in Begun \union {"ended"}
          BY <1>2, <1>7
        <5>4. QED
          BY <1>1, <1>3, <4>2, <5>1, <5>2, <5>3
      <4>3. QED
        BY <1>1, <3>1, <4>1, <4>2
    <3>2. \A i, k \in DOMAIN events' : events'[i] = events'[k] => i = k
      BY <1>1, <1>4, <2>2 DEF PostedInOrder
    <3>3. QED
      BY <3>1, <3>2 DEF PostedInOrder
  <2>7. QED
    BY <2>5, <2>6 DEF SInv
<1>8. QED
  BY <1>6, <1>7

(* submit emits Queued before the task is in the pool.                     *)
LEMMA AnnounceKeeps ==
  ASSUME NEW c \in Clients, TypeOK, SInv, SubmitAnnounce(c)
  PROVE  SInv'
<1> DEFINE j == inside[c]
<1>1. /\ j \in Jobs /\ task[j] = "inserted" /\ UNCHANGED events
      /\ signals' = [signals EXCEPT ![j] = Append(@, "Queued")]
      /\ task' = [task EXCEPT ![j] = "announced"]
  BY DEF SubmitAnnounce, TypeOK
<1> HIDE DEF j
<1>2. EmittedSoFar /\ PostedInOrder
  BY DEF SInv
<1>3. signals[j] = <<>>
  BY <1>1, <1>2 DEF EmittedSoFar, Silent
<1>4. /\ signals'[j] = Q /\ task'[j] = "announced"
      /\ \A k \in Jobs : k # j => signals'[k] = signals[k] /\ task'[k] = task[k]
  BY <1>1, <1>3, SignalSteps DEF TypeOK
<1>5. \A k \in Jobs : \A m : k # j /\ StartedBefore(k, m) => StartedBefore(k, m)'
  BY <1>1, <1>4 DEF StartedBefore
<1>6. EmittedSoFar'
  <2>1. "announced" \notin Silent \union Begun \union {"ended"}
    BY DEF Silent, Begun
  <2>2. QED
    BY <1>1, <1>2, <1>4, <1>5, <2>1 DEF EmittedSoFar
<1>7. PostedInOrder'
  <2>1. ASSUME NEW i \in DOMAIN events, NEW k \in Jobs,
               events[i] = StartedOf(k) \/ events[i] = CompletedOf(k)
        PROVE  k # j
    <3>1. PICK m \in Jobs : \/ events[i] = StartedOf(m) /\ signals[m] = Q
                            \/ events[i] = CompletedOf(m) /\ StartedBefore(m, i)
      BY <1>2 DEF PostedInOrder
    <3>2. m = k
      BY <2>1, <3>1, EventsDiffer
    <3>3. signals[m] # <<>>
      BY <3>1, SignalSteps DEF StartedBefore
    <3>4. QED
      BY <1>3, <3>2, <3>3
  <2>2. QED
    BY <1>1, <1>2, <1>4, <1>5, <2>1 DEF PostedInOrder
<1>8. QED
  BY <1>6, <1>7 DEF SInv

(* The event loop emits what was posted first.                             *)
LEMMA DeliverKeeps ==
  ASSUME TypeOK, SInv, ~shutting_down, Deliver
  PROVE  /\ SInv' /\ (SignalOrder => SignalOrder')
         /\ \E j \in Jobs :
              \/ signals[j] = Q /\ signals' = [signals EXCEPT ![j] = QS]
              \/ /\ signals[j] = QS /\ signals' = [signals EXCEPT ![j] = QSC]
                 /\ 1 \in DOMAIN events /\ events[1] = CompletedOf(j)
<1> DEFINE e == Head(events)
<1>1. /\ events \in Seq(Posted) /\ 1 \in DOMAIN events /\ events[1] = e
      /\ signals' = [signals EXCEPT ![e.id] = Append(@, e.kind)] /\ UNCHANGED task
      /\ events' = Tail(events)
  BY DEF Deliver, TypeOK
<1>2. /\ Len(events') = Len(events) - 1
      /\ \A i \in DOMAIN events : i \in Nat /\ i >= 1 /\ i < Len(events) + 1
      /\ \A i \in DOMAIN events' : i \in Nat /\ i >= 1 /\ i + 1 \in DOMAIN events
                                  /\ events'[i] = events[i + 1]
      /\ \A i \in DOMAIN events : i # 1 => i - 1 \in DOMAIN events'
                                           /\ events'[i - 1] = events[i]
  BY <1>1
<1> HIDE DEF e
<1>3. EmittedSoFar /\ PostedInOrder
  BY DEF SInv
<1>4. PICK j \in Jobs :
        \/ e = StartedOf(j) /\ signals[j] = Q /\ task[j] \in Begun \union {"ended"}
        \/ e = CompletedOf(j) /\ task[j] = "ended" /\ StartedBefore(j, 1)
  BY <1>1, <1>3 DEF PostedInOrder
<1>5. ~\E k \in DOMAIN events : k < 1
  BY <1>2
<1>6. \/ e = StartedOf(j) /\ signals[j] = Q /\ signals'[j] = QS
      \/ e = CompletedOf(j) /\ signals[j] = QS /\ signals'[j] = QSC /\ task[j] = "ended"
  BY <1>1, <1>4, <1>5, SignalSteps, EventFields DEF StartedBefore, TypeOK
<1>7. \A k \in Jobs : k # j => signals'[k] = signals[k]
  BY <1>1, <1>4, EventFields DEF TypeOK
<1>8. ASSUME NEW k \in Jobs, NEW m, StartedBefore(k, m), m \in Int,
             k = j => e = StartedOf(j)
      PROVE  StartedBefore(k, m - 1)'
  <2>1. CASE k = j
    BY <1>6, <1>8, <2>1, EventsDiffer DEF StartedBefore
  <2>2. CASE k # j
    <3>1. CASE signals[k] = QS
      BY <1>7, <2>2, <3>1 DEF StartedBefore
    <3>2. CASE signals[k] = Q
      <4>1. PICK i \in DOMAIN events : i < m /\ events[i] = StartedOf(k)
        BY <1>8, <3>2, SignalSteps DEF StartedBefore
      <4>2. i # 1
        BY <1>1, <1>4, <2>2, <4>1, EventsDiffer
      <4>3. i - 1 \in DOMAIN events' /\ events'[i - 1] = StartedOf(k) /\ i - 1 < m - 1
        BY <1>2, <1>8, <4>1, <4>2
      <4>4. QED
        BY <1>7, <2>2, <3>2, <4>3 DEF StartedBefore
    <3>3. QED
      BY <1>8, <3>1, <3>2 DEF StartedBefore
  <2>3. QED
    BY <2>1, <2>2
<1>9. Len(events) \in Nat /\ \A k \in Jobs : task[k] \in TaskStates
  BY <1>1 DEF TypeOK
<1>10. EmittedSoFar'
  <2> SUFFICES ASSUME NEW k \in Jobs
               PROVE  /\ task[k] \in Silent => signals'[k] = <<>>
                      /\ task[k] \in Waiting => signals'[k] = Q
                      /\ task[k] \in Begun => StartedBefore(k, Len(events) + 1)'
                      /\ task[k] = "ended" => signals'[k] \in {Q, QS, QSC}
    BY <1>1 DEF EmittedSoFar
  <2>1. k = j => task[k] \in Begun \union {"ended"} /\ (task[k] \in Begun => e = StartedOf(j))
    BY <1>4, <1>9, StatesAreApart
  <2>2. task[k] \in Begun => StartedBefore(k, Len(events) + 1)'
    <3> SUFFICES ASSUME task[k] \in Begun
                 PROVE  StartedBefore(k, Len(events) + 1)'
      OBVIOUS
    <3>1. StartedBefore(k, Len(events) + 1)
      BY <1>3 DEF EmittedSoFar
    <3>2. PICK m \in Int : m = Len(events) + 1
      BY <1>9
    <3>3. StartedBefore(k, m) /\ (k = j => e = StartedOf(j)) /\ m - 1 = Len(events') + 1
      BY <1>2, <2>1, <3>1, <3>2, <1>9
    <3>4. StartedBefore(k, m - 1)'
      BY <1>8, <3>3
    <3>5. QED
      BY <3>3, <3>4 DEF StartedBefore
  <2>3. CASE k = j
    BY <1>6, <1>9, <2>1, <2>2, <2>3, StatesAreApart
  <2>4. CASE k # j
    BY <1>3, <1>7, <2>2, <2>4 DEF EmittedSoFar
  <2>5. QED
    BY <2>3, <2>4
<1>11. PostedInOrder'
  <2>1. ASSUME NEW i \in DOMAIN events'
        PROVE  \E k \in Jobs :
                 \/ /\ events'[i] = StartedOf(k) /\ signals'[k] = Q
                    /\ task[k] \in Begun \union {"ended"}
                 \/ events'[i] = CompletedOf(k) /\ task[k] = "ended" /\ StartedBefore(k, i)'
    <3>1. /\ i + 1 \in DOMAIN events /\ events'[i] = events[i + 1] /\ i + 1 # 1
          /\ i \in Nat
      BY <1>2
    <3>2. PICK k \in Jobs :
            \/ /\ events[i + 1] = StartedOf(k) /\ signals[k] = Q
               /\ task[k] \in Begun \union {"ended"}
            \/ /\ events[i + 1] = CompletedOf(k) /\ task[k] = "ended"
               /\ StartedBefore(k, i + 1)
      BY <1>3, <3>1 DEF PostedInOrder
    <3>3. events[i + 1] # e
      BY <1>1, <1>3, <3>1 DEF PostedInOrder
    <3>4. CASE events[i + 1] = StartedOf(k)
      <4>1. signals[k] = Q /\ task[k] \in Begun \union {"ended"}
        BY <3>2, <3>4, EventsDiffer
      <4>2. k # j
        BY <1>6, <3>3, <3>4, <4>1, SignalSteps
      <4>3. QED
        BY <1>7, <3>1, <3>4, <4>1, <4>2
    <3>5. CASE events[i + 1] = CompletedOf(k)
      <4>1. task[k] = "ended" /\ StartedBefore(k, i + 1)
        BY <3>2, <3>5, EventsDiffer
      <4>2. k = j => e = StartedOf(j)
        BY <1>6, <3>3, <3>5
      <4>3. StartedBefore(k, (i + 1) - 1)'
        BY <1>8, <3>1, <4>1, <4>2
      <4>4. (i + 1) - 1 = i
        BY <3>1
      <4>5. QED
        BY <3>1, <3>5, <4>1, <4>3, <4>4
    <3>6. QED
      BY <3>2, <3>4, <3>5
  <2>2. \A i, k \in DOMAIN events' : events'[i] = events'[k] => i = k
    <3> SUFFICES ASSUME NEW i \in DOMAIN events', NEW k \in DOMAIN events',
                        events'[i] = events'[k]
                 PROVE  i = k
      OBVIOUS
    <3>1. i + 1 = k + 1
      BY <1>2, <1>3 DEF PostedInOrder
    <3>2. QED
      BY <1>2, <3>1
  <2>3. QED
    BY <1>1, <2>1, <2>2 DEF PostedInOrder
<1>12. SignalOrder => SignalOrder'
  BY <1>6, <1>7 DEF SignalOrder, QS, QSC
<1>13. \/ signals[j] = Q /\ signals' = [signals EXCEPT ![j] = QS]
       \/ signals[j] = QS /\ signals' = [signals EXCEPT ![j] = QSC] /\ e = CompletedOf(j)
  BY <1>1, <1>4, <1>6, EventFields DEF TypeOK
<1>14. QED
  BY <1>1, <1>10, <1>11, <1>12, <1>13 DEF SInv

LEMMA SignalInit == Init => SInv /\ SignalOrder
BY DEF Init, SInv, SignalOrder, EmittedSoFar, PostedInOrder, Silent, Waiting, Begun

LEMMA SignalStep == IInv /\ SInv /\ SignalOrder /\ [Next]_vars => SInv' /\ SignalOrder'
<1> SUFFICES ASSUME IInv, SInv, SignalOrder, [Next]_vars PROVE SInv' /\ SignalOrder'
  OBVIOUS
<1>a. TypeOK /\ ShutdownProgress /\ QuietAfterDestruction
  BY DEF IInv
<1>b. UNCHANGED signals => SignalOrder'
  BY DEF SignalOrder
<1> USE DEF Silent, Waiting, Begun
<1>1. ASSUME NEW c \in Clients, Submit(c) PROVE SInv' /\ SignalOrder'
  <2>1. ASSUME NEW j \in Jobs, SubmitInsert(c, j) PROVE SInv' /\ SignalOrder'
    BY <1>a, <1>b, <2>1, SignalsKept DEF SubmitInsert, TypeOK
  <2>2. CASE SubmitAnnounce(c)
    <3>1. SInv'
      BY <1>a, <2>2, AnnounceKeeps
    <3>2. inside[c] \in Jobs /\ signals[inside[c]] = <<>>
      BY <1>a, <2>2 DEF SubmitAnnounce, TypeOK, SInv, EmittedSoFar
    <3>3. signals' = [signals EXCEPT ![inside[c]] = Q]
      BY <2>2, <3>2, SignalSteps DEF SubmitAnnounce
    <3>4. SignalOrder'
      BY <1>a, <3>2, <3>3 DEF SignalOrder, TypeOK, Q
    <3>5. QED
      BY <3>1, <3>4
  <2>3. CASE SubmitStart(c)
    BY <1>a, <1>b, <2>3, SignalsKept DEF SubmitStart, TypeOK
  <2>4. QED
    BY <1>1, <2>1, <2>2, <2>3 DEF Submit
<1>2. ASSUME NEW c \in Clients, Request(c) PROVE SInv' /\ SignalOrder'
  <2>1. UNCHANGED <<events, signals, task>>
    BY <1>2 DEF Request, Cancel, CancelAll, SetMaxWorkerCount
  <2>2. QED
    BY <1>a, <1>b, <2>1, SignalsKept
<1>3. CASE Dispatch
  <2>1. /\ Head(pool_queue) \in Jobs /\ task[Head(pool_queue)] = "queued"
        /\ task' = [task EXCEPT ![Head(pool_queue)] = "entered"]
        /\ UNCHANGED <<events, signals>>
    <3>1. pool_queue \in Seq(Jobs) /\ pool_queue # <<>>
      BY <1>3, <1>a DEF Dispatch, TypeOK
    <3>2. 1 \in DOMAIN pool_queue /\ Head(pool_queue) = pool_queue[1]
      BY <3>1
    <3>3. QED
      BY <1>3, <3>1, <3>2 DEF Dispatch, IInv, QueueHoldsQueued
  <2>2. QED
    BY <1>a, <1>b, <2>1, SignalsKept DEF TypeOK
<1>4. ASSUME NEW j \in Jobs, Task(j) PROVE SInv' /\ SignalOrder'
  <2>1. CASE TaskStarted(j)
    BY <1>a, <1>b, <2>1, PostKeeps DEF TaskStarted, StartedOf
  <2>2. CASE TaskCompleted(j)
    BY <1>a, <1>b, <2>2, PostKeeps DEF TaskCompleted, CompletedOf
  <2>3. CASE TaskAbandon(j) \/ TaskForget(j) \/ RunEntryPoll(j) \/ TaskRemove(j)
    BY <1>a, <1>b, <2>3, SignalsKept
       DEF TaskAbandon, TaskForget, RunEntryPoll, TaskRemove, TypeOK
  <2>4. CASE RunCancelled(j) \/ RunFinished(j)
    BY <1>a, <1>b, <2>4, SignalsKept DEF RunCancelled, RunFinished, RunReturns, TypeOK
  <2>5. QED
    BY <1>4, <2>1, <2>2, <2>3, <2>4 DEF Task
<1>5. CASE Deliver
  BY <1>a, <1>5, DeliverKeeps DEF ShutdownProgress, Deliver
<1>6. CASE Destroy
  <2>1. CASE DestroyErase
    <3>1. /\ events' = <<>> /\ UNCHANGED <<signals, task>>
          /\ \A j \in Jobs : task[j] \notin Begun
      BY <1>a, <2>1 DEF DestroyErase, QuietAfterDestruction
    <3>2. QED
      BY <1>b, <3>1 DEF SInv, EmittedSoFar, PostedInOrder
  <2>2. CASE DestroyClear
    BY <1>a, <1>b, <2>2, SignalsKept DEF DestroyClear, TypeOK
  <2>3. CASE DestroyBegin \/ DestroyCancelAll \/ DestroyWait
    <3>1. UNCHANGED <<events, signals, task>>
      BY <2>3 DEF DestroyBegin, DestroyCancelAll, DestroyWait
    <3>2. QED
      BY <1>a, <1>b, <3>1, SignalsKept
  <2>4. QED
    BY <1>6, <2>1, <2>2, <2>3 DEF Destroy
<1>7. CASE UNCHANGED vars
  BY <1>a, <1>b, <1>7, SignalsKept DEF vars
<1>8. QED
  BY <1>1, <1>2, <1>3, <1>4, <1>5, <1>6, <1>7 DEF Next

(* The signals of a job come in order, each at most once, for any clients  *)
(* and workers: Queued before the task is given to the pool, the other two *)
(* through the one queue of the event loop.                                *)
THEOREM SignalsAreInOrder == Spec => []SignalOrder
BY Invariant, SignalInit, SignalStep, PTL DEF Spec

-----------------------------------------------------------------------------
(* The refinement.  What it needs: where a task is when its job has an     *)
(* outcome, that only a job that is known can be flagged, and that a job   *)
(* whose completion is posted has ended by itself or by cancellation.      *)

Undecided == Silent \union {"announced", "queued", "entered", "abandoned", "started", "running"}

Returned == {"finished", "cancelled"}

OutcomesFit ==
    \A j \in Jobs :
        /\ outcome[j] = "none" <=> task[j] \in Undecided
        /\ task[j] \in {"returned", "removed"} => outcome[j] \in Returned
        /\ task[j] = "absent" => ~flag[j]
        /\ task[j] = "abandoned" => shutting_down

CompletedReturned ==
    \A i \in DOMAIN events : \A j \in Jobs :
        events[i] = CompletedOf(j) => task[j] = "ended" /\ outcome[j] \in Returned

OInv == OutcomesFit /\ CompletedReturned

LEMMA OutcomeInit == Init => OInv
BY DEF Init, OInv, OutcomesFit, CompletedReturned, Undecided, Silent

(* A step that posts nothing and settles no job that has ended.            *)
LEMMA CompletedKept ==
  ASSUME CompletedReturned, UNCHANGED events,
         \A j \in Jobs : task[j] = "ended" => task'[j] = "ended" /\ outcome'[j] = outcome[j]
  PROVE  CompletedReturned'
BY DEF CompletedReturned

LEMMA OutcomeStep == IInv /\ OInv /\ [Next]_vars => OInv'
<1> SUFFICES ASSUME IInv, OInv, [Next]_vars PROVE OInv'
  OBVIOUS
<1>a. TypeOK /\ TrackedExactly /\ OutcomesFit /\ CompletedReturned /\ ShutdownProgress
  BY DEF IInv, OInv
<1>b. \A j \in cancellation_flags : task[j] # "absent"
  BY <1>a DEF TrackedExactly, Tracked, SubmitStates, WorkerStates
<1> USE DEF TypeOK, OutcomesFit, Undecided, Silent, Returned
<1>1. ASSUME NEW c \in Clients, Submit(c) PROVE OInv'
  <2>1. ASSUME NEW j \in Jobs, SubmitInsert(c, j) PROVE OInv'
    BY <1>a, <2>1, CompletedKept DEF SubmitInsert, OInv
  <2>2. CASE SubmitAnnounce(c)
    BY <1>a, <2>2, CompletedKept DEF SubmitAnnounce, OInv
  <2>3. CASE SubmitStart(c)
    BY <1>a, <2>3, CompletedKept DEF SubmitStart, OInv
  <2>4. QED
    BY <1>1, <2>1, <2>2, <2>3 DEF Submit
<1>2. ASSUME NEW c \in Clients, Request(c) PROVE OInv'
  <2>1. /\ UNCHANGED <<task, outcome, events, shutting_down>>
        /\ \A j \in Jobs : flag'[j] => flag[j] \/ j \in cancellation_flags
    BY <1>2, <1>a DEF Request, Cancel, CancelAll, RaiseFlags, SetMaxWorkerCount
  <2>2. QED
    BY <1>a, <1>b, <2>1, CompletedKept DEF OInv
<1>3. CASE Dispatch
  <2>1. /\ Head(pool_queue) \in Jobs /\ task[Head(pool_queue)] = "queued"
        /\ task' = [task EXCEPT ![Head(pool_queue)] = "entered"]
        /\ UNCHANGED <<events, outcome, flag, shutting_down>>
    <3>1. pool_queue \in Seq(Jobs) /\ pool_queue # <<>>
      BY <1>3, <1>a DEF Dispatch
    <3>2. 1 \in DOMAIN pool_queue /\ Head(pool_queue) = pool_queue[1]
      BY <3>1
    <3>3. QED
      BY <1>3, <3>1, <3>2 DEF Dispatch, IInv, QueueHoldsQueued
  <2>2. QED
    BY <1>a, <2>1, CompletedKept DEF OInv
<1>4. ASSUME NEW j \in Jobs, Task(j) PROVE OInv'
  <2>1. CASE TaskStarted(j)
    <3>1. OutcomesFit'
      BY <1>a, <2>1 DEF TaskStarted
    <3>2. events' = Append(events, StartedOf(j)) /\ UNCHANGED outcome
          /\ task' = [task EXCEPT ![j] = "started"] /\ task[j] = "entered"
      BY <2>1 DEF TaskStarted, StartedOf
    <3>3. CompletedReturned'
      <4> SUFFICES ASSUME NEW i \in DOMAIN events', NEW k \in Jobs,
                          events'[i] = CompletedOf(k)
                   PROVE  task'[k] = "ended" /\ outcome'[k] \in Returned
        BY DEF CompletedReturned
      <4>1. i \in DOMAIN events /\ events[i] = CompletedOf(k)
        BY <1>a, <3>2, PostedAtEnd, EventsDiffer
      <4>2. task[k] = "ended" /\ outcome[k] \in Returned
        BY <1>a, <4>1 DEF CompletedReturned
      <4>3. QED
        BY <1>a, <3>2, <4>2
    <3>4. QED
      BY <3>1, <3>3 DEF OInv
  <2>2. CASE TaskCompleted(j)
    <3>1. OutcomesFit'
      BY <1>a, <2>2 DEF TaskCompleted
    <3>2. events' = Append(events, CompletedOf(j)) /\ UNCHANGED outcome
          /\ task' = [task EXCEPT ![j] = "ended"] /\ outcome[j] \in Returned
      BY <1>a, <2>2 DEF TaskCompleted, CompletedOf
    <3>3. CompletedReturned'
      <4> SUFFICES ASSUME NEW i \in DOMAIN events', NEW k \in Jobs,
                          events'[i] = CompletedOf(k)
                   PROVE  task'[k] = "ended" /\ outcome'[k] \in Returned
        BY DEF CompletedReturned
      <4>1. CASE i \in DOMAIN events
        BY <1>a, <3>2, <4>1, PostedAtEnd DEF CompletedReturned
      <4>2. CASE i \notin DOMAIN events
        <5>1. CompletedOf(j) = CompletedOf(k)
          BY <1>a, <3>2, <4>2, PostedAtEnd
        <5>2. k = j
          BY <5>1, EventsDiffer
        <5>3. QED
          BY <1>a, <3>2, <5>2
      <4>3. QED
        BY <4>1, <4>2
    <3>4. QED
      BY <3>1, <3>3 DEF OInv
  <2>3. CASE TaskAbandon(j) \/ TaskForget(j) \/ RunEntryPoll(j) \/ TaskRemove(j)
    BY <1>a, <2>3, CompletedKept DEF TaskAbandon, TaskForget, RunEntryPoll, TaskRemove, OInv
  <2>4. CASE RunCancelled(j) \/ RunFinished(j)
    BY <1>a, <2>4, CompletedKept DEF RunCancelled, RunFinished, RunReturns, OInv
  <2>5. QED
    BY <1>4, <2>1, <2>2, <2>3, <2>4 DEF Task
<1>5. CASE Deliver
  <2>1. UNCHANGED <<task, outcome, flag, shutting_down>>
    BY <1>5 DEF Deliver
  <2>2. \A i \in DOMAIN events' : i + 1 \in DOMAIN events /\ events'[i] = events[i + 1]
    BY <1>5, <1>a DEF Deliver
  <2>3. QED
    BY <1>a, <2>1, <2>2 DEF OInv, CompletedReturned
<1>6. CASE Destroy
  <2>1. CASE DestroyErase
    BY <1>a, <2>1 DEF DestroyErase, OInv, CompletedReturned
  <2>2. CASE DestroyClear
    BY <1>a, <2>2, CompletedKept DEF DestroyClear, OInv
  <2>3. CASE DestroyBegin \/ DestroyCancelAll \/ DestroyWait
    <3>1. /\ UNCHANGED <<task, outcome, events>> /\ (shutting_down => shutting_down')
          /\ \A j \in Jobs : flag'[j] => flag[j] \/ j \in cancellation_flags
      BY <1>a, <2>3 DEF DestroyBegin, DestroyCancelAll, DestroyWait, RaiseFlags
    <3>2. QED
      BY <1>a, <1>b, <3>1, CompletedKept DEF OInv
  <2>4. QED
    BY <1>6, <2>1, <2>2, <2>3 DEF Destroy
<1>7. CASE UNCHANGED vars
  BY <1>a, <1>7, CompletedKept DEF vars, OInv
<1>8. QED
  BY <1>1, <1>2, <1>3, <1>4, <1>5, <1>6, <1>7 DEF Next

-----------------------------------------------------------------------------
(* The refinement mapping. *)

phases  == [j \in Jobs |-> ServicePhase(j)]
reports == {j \in Jobs : \E i \in DOMAIN signals[j] : signals[j][i] = "Completed"}

LEMMA CompletedIn ==
  \A s \in {<<>>, Q, QS, QSC} : (\E i \in DOMAIN s : s[i] = "Completed") <=> s = QSC
<1>1. DOMAIN <<>> = {} /\ DOMAIN Q = {1} /\ DOMAIN QS = {1, 2} /\ 3 \in DOMAIN QSC
  BY DEF Q, QS, QSC
<1>2. Q[1] = "Queued" /\ QS[1] = "Queued" /\ QS[2] = "Started" /\ QSC[3] = "Completed"
  BY DEF Q, QS, QSC
<1>3. QED
  BY <1>1, <1>2, SignalSteps

(* reports, before and after a step.                                       *)
LEMMA ReportedIs ==
  ASSUME SignalOrder, SignalOrder'
  PROVE  /\ reports = {j \in Jobs : signals[j] = QSC}
         /\ reports' = {j \in Jobs : signals'[j] = QSC}
<1>1. \A j \in Jobs : signals[j] \in {<<>>, Q, QS, QSC} /\ signals'[j] \in {<<>>, Q, QS, QSC}
  BY DEF SignalOrder, Q, QS, QSC
<1>2. QED
  BY <1>1, CompletedIn DEF reports

(* What the phase of a job depends on.                                     *)
LEMMA PhaseIs ==
  ASSUME OutcomesFit, TypeOK, NEW j \in Jobs
  PROVE  /\ task[j] = "absent" => ServicePhase(j) = "absent"
         /\ task[j] \in Undecided \ {"absent", "running"} =>
              ServicePhase(j) = IF flag[j] THEN "doomed" ELSE "accepted"
         /\ task[j] = "running" => ServicePhase(j) = IF flag[j] THEN "stopping" ELSE "running"
         /\ task[j] \notin Undecided => ServicePhase(j) = outcome[j]
BY DEF OutcomesFit, ServicePhase, Undecided, Silent

LEMMA PhasesKept ==
  ASSUME UNCHANGED <<outcome, flag>>,
         \A j \in Jobs : outcome[j] # "none" \/ task'[j] = task[j]
                         \/ {task[j], task'[j]} \subseteq Undecided \ {"absent", "running"}
  PROVE  phases' = phases
<1>1. \A j \in Jobs : ServicePhase(j)' = ServicePhase(j)
  BY DEF ServicePhase
<1>2. QED
  BY <1>1 DEF phases

(* A request flags the jobs in S, which are all known.                     *)
LEMMA RequestRefines ==
  ASSUME TypeOK, OutcomesFit, NEW S \in SUBSET Jobs, \A j \in S : task[j] # "absent",
         flag' = [j \in Jobs |-> flag[j] \/ j \in S],
         UNCHANGED <<task, outcome, signals, shutting_down>>
  PROVE  Service!RequestCancel(S)
<1>1. ASSUME NEW j \in Jobs
      PROVE  ServicePhase(j)' = IF j \in S THEN Service!AfterRequest(ServicePhase(j))
                                ELSE ServicePhase(j)
  <2>1. flag[j] \in BOOLEAN /\ task[j] \in TaskStates /\ outcome[j] \in Outcomes
        /\ flag'[j] = (flag[j] \/ j \in S)
    BY DEF TypeOK
  <2>2. CASE j \notin S
    BY <2>1, <2>2 DEF ServicePhase
  <2>3. CASE j \in S
    BY <2>1, <2>3 DEF ServicePhase, Service!AfterRequest, Outcomes
  <2>4. QED
    BY <2>2, <2>3
<1>2. QED
  BY <1>1 DEF Service!RequestCancel

LEMMA RefinesInit == Init => Service!Init
BY DEF Init, Service!Init, ServicePhase

LEMMA RefinesStep ==
  IInv /\ SInv /\ SignalOrder /\ OInv /\ [Next]_vars => [Service!Next]_(Service!vars)
<1> SUFFICES ASSUME IInv, SInv, SignalOrder, OInv, [Next]_vars
             PROVE  Service!Next \/ UNCHANGED <<phases, reports, shutting_down>>
  BY DEF Service!vars, phases, reports
<1>a. TypeOK /\ TrackedExactly /\ OutcomesFit /\ CompletedReturned /\ ShutdownProgress
  BY DEF IInv, OInv
<1>b. \A j \in cancellation_flags : task[j] # "absent"
  BY <1>a DEF TrackedExactly, Tracked, SubmitStates, WorkerStates
<1>c. UNCHANGED signals => UNCHANGED reports
  BY DEF reports
<1> DEFINE Stutters == UNCHANGED <<phases, reports, shutting_down>>
<1>1. ASSUME NEW c \in Clients, Submit(c) PROVE Service!Next \/ Stutters
  <2>1. ASSUME NEW j \in Jobs, SubmitInsert(c, j) PROVE Service!Next
    <3>1. /\ task[j] = "absent" /\ task' = [task EXCEPT ![j] = "inserted"]
          /\ ~flag[j] /\ outcome[j] = "none" /\ ~shutting_down
          /\ UNCHANGED <<flag, outcome, signals, shutting_down>>
      BY <1>a, <2>1 DEF SubmitInsert, OutcomesFit, ShutdownProgress, Undecided, Silent
    <3>2. Service!Accept(j)
      BY <1>a, <3>1 DEF Service!Accept, ServicePhase, TypeOK
    <3>3. QED
      BY <3>2 DEF Service!Next
  <2>2. CASE SubmitAnnounce(c)
    <3>1. phases' = phases /\ UNCHANGED shutting_down
      BY <1>a, <2>2, PhasesKept DEF SubmitAnnounce, TypeOK, Undecided, Silent
    <3>2. inside[c] \in Jobs /\ signals[inside[c]] = <<>>
          /\ signals' = [signals EXCEPT ![inside[c]] = Q]
      BY <1>a, <2>2, SignalSteps DEF SubmitAnnounce, TypeOK, SInv, EmittedSoFar, Silent
    <3>3. SignalOrder'
      BY SignalStep
    <3>4. reports' = {j \in Jobs : signals'[j] = QSC} /\ reports = {j \in Jobs : signals[j] = QSC}
      BY <3>3, ReportedIs
    <3>5. \A j \in Jobs : signals'[j] = QSC <=> signals[j] = QSC
      BY <1>a, <3>2, SignalSteps DEF TypeOK
    <3>6. QED
      BY <3>1, <3>4, <3>5
  <2>3. CASE SubmitStart(c)
    <3>1. phases' = phases /\ UNCHANGED <<signals, shutting_down>>
      BY <1>a, <2>3, PhasesKept DEF SubmitStart, TypeOK, Undecided, Silent
    <3>2. QED
      BY <1>c, <3>1
  <2>4. QED
    BY <1>1, <2>1, <2>2, <2>3 DEF Submit
<1>2. ASSUME NEW c \in Clients, Request(c) PROVE Service!Next \/ Stutters
  <2>1. ASSUME NEW j \in Jobs, Cancel(c, j) PROVE Service!Next
    <3>1. /\ {j} \in SUBSET Jobs /\ \A k \in {j} : task[k] # "absent"
          /\ flag' = [k \in Jobs |-> flag[k] \/ k \in {j}]
          /\ UNCHANGED <<task, outcome, signals, shutting_down>>
      BY <1>a, <1>b, <2>1 DEF Cancel, TypeOK
    <3>2. Service!RequestCancel({j})
      BY <1>a, <3>1, RequestRefines
    <3>3. QED
      BY <3>1, <3>2 DEF Service!Next
  <2>2. CASE CancelAll(c)
    <3>1. /\ cancellation_flags \in SUBSET Jobs
          /\ flag' = [k \in Jobs |-> flag[k] \/ k \in cancellation_flags]
          /\ UNCHANGED <<task, outcome, signals, shutting_down>>
      BY <1>a, <2>2 DEF CancelAll, RaiseFlags, TypeOK
    <3>2. Service!RequestCancel(cancellation_flags)
      BY <1>a, <1>b, <3>1, RequestRefines
    <3>3. QED
      BY <3>1, <3>2 DEF Service!Next
  <2>3. ASSUME NEW count \in WorkerCounts, SetMaxWorkerCount(c, count) PROVE Stutters
    BY <1>c, <2>3, PhasesKept DEF SetMaxWorkerCount
  <2>4. QED
    BY <1>2, <2>1, <2>2, <2>3 DEF Request
<1>3. CASE Dispatch
  <2>1. /\ Head(pool_queue) \in Jobs /\ task[Head(pool_queue)] = "queued"
        /\ task' = [task EXCEPT ![Head(pool_queue)] = "entered"]
        /\ UNCHANGED <<outcome, flag, signals, shutting_down>>
    <3>1. pool_queue \in Seq(Jobs) /\ pool_queue # <<>>
      BY <1>3, <1>a DEF Dispatch, TypeOK
    <3>2. 1 \in DOMAIN pool_queue /\ Head(pool_queue) = pool_queue[1]
      BY <3>1
    <3>3. QED
      BY <1>3, <3>1, <3>2 DEF Dispatch, IInv, QueueHoldsQueued
  <2>2. phases' = phases
    BY <1>a, <2>1, PhasesKept DEF TypeOK, Undecided, Silent
  <2>3. QED
    BY <1>c, <2>1, <2>2
<1>4. ASSUME NEW j \in Jobs, Task(j) PROVE Service!Next \/ Stutters
  <2>a. flag[j] \in BOOLEAN /\ task[j] \in TaskStates /\ shutting_down \in BOOLEAN
    BY <1>a DEF TypeOK
  <2>1. CASE TaskAbandon(j) \/ TaskStarted(j) \/ TaskRemove(j) \/ TaskCompleted(j)
    <3>1. /\ UNCHANGED <<outcome, flag, signals, shutting_down>>
          /\ \A k \in Jobs : k # j => task'[k] = task[k]
          /\ \/ task[j] \in {"returned", "removed"}
             \/ {task[j], task'[j]} \subseteq Undecided \ {"absent", "running"}
      BY <1>a, <2>1
         DEF TaskAbandon, TaskStarted, TaskRemove, TaskCompleted, TypeOK, Undecided, Silent
    <3>2. task[j] \in {"returned", "removed"} => outcome[j] # "none"
      BY <1>a DEF OutcomesFit, Returned
    <3>3. phases' = phases
      BY <3>1, <3>2, PhasesKept
    <3>4. QED
      BY <1>c, <3>1, <3>3
  <2>2. CASE TaskForget(j)
    <3>1. /\ task[j] = "abandoned" /\ outcome[j] = "none" /\ shutting_down
          /\ task' = [task EXCEPT ![j] = "ended"]
          /\ outcome' = [outcome EXCEPT ![j] = "dropped"]
          /\ UNCHANGED <<flag, signals, shutting_down>>
      BY <1>a, <2>2 DEF TaskForget, OutcomesFit, Undecided
    <3>2. Service!Drop({j})
      BY <1>a, <2>a, <3>1 DEF Service!Drop, Service!Waiting, ServicePhase, TypeOK
    <3>3. QED
      BY <3>2 DEF Service!Next
  <2>3. CASE RunEntryPoll(j)
    <3>1. /\ task[j] = "started" /\ outcome[j] = "none" /\ ~shutting_down /\ ~flag[j]
          /\ task' = [task EXCEPT ![j] = "running"]
          /\ UNCHANGED <<outcome, flag, signals, shutting_down>>
      BY <1>a, <2>3 DEF RunEntryPoll, Interrupted, OutcomesFit, Undecided
    <3>2. Service!Run(j)
      BY <1>a, <3>1 DEF Service!Run, ServicePhase, TypeOK
    <3>3. QED
      BY <3>2 DEF Service!Next
  <2>4. CASE RunCancelled(j)
    <3>1. /\ task[j] \in {"started", "running"} /\ outcome[j] = "none"
          /\ shutting_down \/ flag[j]
          /\ outcome' = [outcome EXCEPT ![j] = "cancelled"]
          /\ \A k \in Jobs : k # j => task'[k] = task[k]
          /\ UNCHANGED <<flag, signals, shutting_down>>
      BY <1>a, <2>4 DEF RunCancelled, RunReturns, Interrupted, OutcomesFit, Undecided, TypeOK
    <3>2. phases' = [phases EXCEPT ![j] = "cancelled"]
      BY <1>a, <3>1 DEF phases, ServicePhase, TypeOK
    <3>3. \/ phases[j] \in {"doomed", "stopping"}
          \/ shutting_down /\ phases[j] \in {"accepted", "running"}
      BY <2>a, <3>1 DEF phases, ServicePhase
    <3>4. Service!EndCancelled(j)
      BY <3>1, <3>2, <3>3 DEF Service!EndCancelled, phases
    <3>5. QED
      BY <3>4 DEF Service!Next
  <2>5. CASE RunFinished(j)
    <3>1. /\ task[j] = "running" /\ outcome[j] = "none"
          /\ outcome' = [outcome EXCEPT ![j] = "finished"]
          /\ \A k \in Jobs : k # j => task'[k] = task[k]
          /\ UNCHANGED <<flag, signals, shutting_down>>
      BY <1>a, <2>5 DEF RunFinished, RunReturns, OutcomesFit, Undecided, TypeOK
    <3>2. phases' = [phases EXCEPT ![j] = "finished"]
      BY <1>a, <3>1 DEF phases, ServicePhase, TypeOK
    <3>3. phases[j] \in {"running", "stopping"}
      BY <2>a, <3>1 DEF phases, ServicePhase
    <3>4. Service!Finish(j)
      BY <3>1, <3>2, <3>3 DEF Service!Finish, phases
    <3>5. QED
      BY <3>4 DEF Service!Next
  <2>6. QED
    BY <1>4, <2>1, <2>2, <2>3, <2>4, <2>5 DEF Task
<1>5. CASE Deliver
  <2>1. /\ ~shutting_down /\ UNCHANGED <<task, outcome, flag, shutting_down>>
    BY <1>a, <1>5 DEF Deliver, ShutdownProgress
  <2>2. phases' = phases
    BY <2>1, PhasesKept
  <2>3. PICK j \in Jobs :
          \/ signals[j] = Q /\ signals' = [signals EXCEPT ![j] = QS]
          \/ /\ signals[j] = QS /\ signals' = [signals EXCEPT ![j] = QSC]
             /\ 1 \in DOMAIN events /\ events[1] = CompletedOf(j)
    BY <1>a, <1>5, <2>1, DeliverKeeps
  <2>4. SignalOrder'
    BY SignalStep
  <2>5. reports' = {k \in Jobs : signals'[k] = QSC} /\ reports = {k \in Jobs : signals[k] = QSC}
    BY <2>4, ReportedIs
  <2>6. CASE signals[j] = Q /\ signals' = [signals EXCEPT ![j] = QS]
    <3>1. \A k \in Jobs : signals'[k] = QSC <=> signals[k] = QSC
      BY <1>a, <2>6, SignalSteps DEF TypeOK
    <3>2. QED
      BY <2>1, <2>2, <2>5, <3>1
  <2>7. CASE /\ signals[j] = QS /\ signals' = [signals EXCEPT ![j] = QSC]
             /\ 1 \in DOMAIN events /\ events[1] = CompletedOf(j)
    <3>1. reports' = reports \union {j} /\ j \notin reports
      BY <1>a, <2>5, <2>7, SignalSteps DEF TypeOK
    <3>2. ServicePhase(j) \in {"finished", "cancelled"}
      BY <1>a, <2>7 DEF CompletedReturned, Returned, ServicePhase
    <3>3. Service!Report(j)
      BY <2>1, <2>2, <3>1, <3>2 DEF Service!Report, phases, reports
    <3>4. QED
      BY <3>3 DEF Service!Next
  <2>8. QED
    BY <2>3, <2>6, <2>7
<1>6. CASE Destroy
  <2>1. CASE DestroyBegin
    <3>1. phases' = phases /\ UNCHANGED signals /\ ~shutting_down /\ shutting_down'
      BY <1>a, <2>1, PhasesKept DEF DestroyBegin, ShutdownProgress
    <3>2. Service!Close
      BY <1>c, <3>1 DEF Service!Close, phases, reports
    <3>3. QED
      BY <3>2 DEF Service!Next
  <2>2. CASE DestroyCancelAll
    <3>1. /\ cancellation_flags \in SUBSET Jobs
          /\ flag' = [k \in Jobs |-> flag[k] \/ k \in cancellation_flags]
          /\ UNCHANGED <<task, outcome, signals, shutting_down>>
      BY <1>a, <2>2 DEF DestroyCancelAll, RaiseFlags, TypeOK
    <3>2. Service!RequestCancel(cancellation_flags)
      BY <1>a, <1>b, <3>1, RequestRefines
    <3>3. QED
      BY <3>1, <3>2 DEF Service!Next
  <2>3. CASE DestroyClear
    <3> DEFINE D == {j \in Jobs : task[j] = "queued"}
    <3>1. /\ D \in SUBSET Jobs /\ shutting_down /\ UNCHANGED <<flag, signals, shutting_down>>
          /\ \A j \in D : task[j] = "queued" /\ outcome[j] = "none" /\ outcome'[j] = "dropped"
          /\ \A j \in Jobs \ D : outcome'[j] = outcome[j] /\ task'[j] = task[j]
      BY <1>a, <2>3 DEF DestroyClear, ShutdownProgress, OutcomesFit, Undecided
    <3>2. \A j \in D : ServicePhase(j) \in Service!Waiting
      BY <1>a, <3>1 DEF ServicePhase, Service!Waiting
    <3>3. \A j \in Jobs : ServicePhase(j)' = IF j \in D THEN "dropped" ELSE ServicePhase(j)
      BY <3>1 DEF ServicePhase
    <3> HIDE DEF D
    <3>4. Service!Drop(D)
      BY <1>c, <3>1, <3>2, <3>3 DEF Service!Drop, reports
    <3>5. QED
      BY <3>1, <3>4 DEF Service!Next
  <2>4. CASE DestroyWait \/ DestroyErase
    <3>1. UNCHANGED <<task, outcome, flag, signals, shutting_down>>
      BY <2>4 DEF DestroyWait, DestroyErase
    <3>2. QED
      BY <1>c, <3>1, PhasesKept
  <2>5. QED
    BY <1>6, <2>1, <2>2, <2>3, <2>4 DEF Destroy
<1>7. CASE UNCHANGED vars
  BY <1>c, <1>7, PhasesKept DEF vars
<1>8. QED
  BY <1>1, <1>2, <1>3, <1>4, <1>5, <1>6, <1>7 DEF Next

(* Whatever the pool, the clients and the event loop do, the manager is a  *)
(* simulation service: a job cancelled before its run never finishes, a    *)
(* job ends once and is reported once, and nothing after the shutdown.     *)
THEOREM ManagerIsAService == Spec => ImplementsService
BY Invariant, SignalInit, SignalStep, OutcomeInit, OutcomeStep, RefinesInit, RefinesStep, PTL
   DEF Spec, ImplementsService, Service!Spec

=============================================================================
