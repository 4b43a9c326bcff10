------------------------- MODULE SimulationManager -------------------------
(***************************************************************************)
(* EpanetSimulationManager: the asynchronous queue of simulations.         *)
(*                                                                         *)
(* Client threads submit and cancel jobs; a QThreadPool runs each job's    *)
(* task on a worker; the task posts Started and Completed to the thread    *)
(* the manager lives on, which delivers them from its event loop; the      *)
(* destructor, on that same thread, shuts everything down.                 *)
(*                                                                         *)
(* One action per stretch of code that no other thread can observe half    *)
(* done: a critical section of simulations_mutex, one atomic load or store,*)
(* one call into the pool, one posted or delivered event.                  *)
(* EpanetRunner::run is here the loop its contract makes it: it polls the  *)
(* cancellation callback on entry and then as often as it likes, ends      *)
(* cancelled when a poll answers TRUE, and may also end by itself.         *)
(***************************************************************************)
EXTENDS Integers, FiniteSets, Sequences

CONSTANTS
    Jobs,          (* the UUIDs submit may draw: bounds the submissions    *)
    Clients,       (* the threads that call the manager                    *)
    Manager,       (* the thread the QObject lives on                      *)
    NoJob,         (* "not inside submit"                                  *)
    IdealThreads,  (* QThread::idealThreadCount()                          *)
    WorkerCounts   (* the arguments setMaxWorkerCount is called with       *)

ASSUME ManagerAssumption == Manager \in Clients
ASSUME NoJobAssumption   == NoJob \notin Jobs
ASSUME WorkerAssumption  == IdealThreads \in Int /\ WorkerCounts \subseteq Int

VARIABLES
    cancellation_flags, (* the ids in the hash                             *)
    flag,               (* the shared atomic_bool of each job              *)
    shutting_down,
    pool_queue,         (* thread_pool: tasks waiting for a worker         *)
    max_threads,        (* thread_pool: maxThreadCount                     *)
    task,               (* task[j]: where submit, then the task of j, is   *)
    inside,             (* inside[c]: the job client c is submitting       *)
    events,             (* posted to the manager's thread, in order        *)
    signals,            (* signals[j]: what was emitted for j, in order    *)
    outcome,            (* how j ended                                     *)
    destructor,         (* where the destructor is                         *)
    asked               (* history: jobs a cancel call reached             *)

vars == <<cancellation_flags, flag, shutting_down, pool_queue, max_threads,
          task, inside, events, signals, outcome, destructor, asked>>

-----------------------------------------------------------------------------
SubmitStates == {"inserted", "announced"}
WorkerStates == {"entered", "abandoned", "started", "running", "returned", "removed"}
TaskStates   == {"absent", "queued", "discarded", "ended"}
                    \union SubmitStates \union WorkerStates

SignalKinds == {"Queued", "Started", "Completed"}
Outcomes    == {"none", "finished", "cancelled", "dropped"}
Stages      == {"alive", "cancelling", "clearing", "waiting", "erasing", "destroyed"}
Posted      == [kind : SignalKinds, id : Jobs]

(* Mutant of AtLeastOne: the count is used as given.                       *)
AsGiven(count) == count

AtLeastOne(count) == IF count < 1 THEN 1 ELSE count

Init ==
    /\ cancellation_flags = {}
    /\ flag = [j \in Jobs |-> FALSE]
    /\ shutting_down = FALSE
    /\ pool_queue = <<>>
    /\ max_threads = AtLeastOne(IdealThreads)
    /\ task = [j \in Jobs |-> "absent"]
    /\ inside = [c \in Clients |-> NoJob]
    /\ events = <<>>
    /\ signals = [j \in Jobs |-> <<>>]
    /\ outcome = [j \in Jobs |-> "none"]
    /\ destructor = "alive"
    /\ asked = {}

-----------------------------------------------------------------------------
(* submit(): three steps, other threads may act between them. *)

SubmitInsert(c, j) ==
    /\ destructor = "alive"
    /\ inside[c] = NoJob
    /\ task[j] = "absent"
    /\ cancellation_flags' = cancellation_flags \union {j}
    /\ task' = [task EXCEPT ![j] = "inserted"]
    /\ inside' = [inside EXCEPT ![c] = j]
    /\ UNCHANGED <<flag, shutting_down, pool_queue, max_threads, events,
                   signals, outcome, destructor, asked>>

SubmitAnnounce(c) ==
    /\ inside[c] # NoJob
    /\ task[inside[c]] = "inserted"
    /\ signals' = [signals EXCEPT ![inside[c]] = Append(@, "Queued")]
    /\ task' = [task EXCEPT ![inside[c]] = "announced"]
    /\ UNCHANGED <<cancellation_flags, flag, shutting_down, pool_queue,
                   max_threads, inside, events, outcome, destructor, asked>>

SubmitStart(c) ==
    /\ inside[c] # NoJob
    /\ task[inside[c]] = "announced"
    /\ pool_queue' = Append(pool_queue, inside[c])
    /\ task' = [task EXCEPT ![inside[c]] = "queued"]
    /\ inside' = [inside EXCEPT ![c] = NoJob]
    /\ UNCHANGED <<cancellation_flags, flag, shutting_down, max_threads, events,
                   signals, outcome, destructor, asked>>

(* A client is free to call the manager between two submits, and in a slot *)
(* connected to signalSimulationQueued, which runs inside submit.          *)
MayCall(c) ==
    /\ destructor = "alive"
    /\ inside[c] # NoJob => task[inside[c]] = "announced"

(* Mutant of Cancel: every tracked run shares the fate of the named one.   *)
CancelEverything(c, j) ==
    /\ MayCall(c)
    /\ j \in cancellation_flags
    /\ flag' = [k \in Jobs |-> flag[k] \/ k \in cancellation_flags]
    /\ asked' = asked \union {j}
    /\ UNCHANGED <<cancellation_flags, shutting_down, pool_queue, max_threads,
                   task, inside, events, signals, outcome, destructor>>

(* cancel(id) where it returns true; for an id that is not in the hash it  *)
(* returns false and changes nothing.                                      *)
Cancel(c, j) ==
    /\ MayCall(c)
    /\ j \in cancellation_flags
    /\ flag' = [flag EXCEPT ![j] = TRUE]
    /\ asked' = asked \union {j}
    /\ UNCHANGED <<cancellation_flags, shutting_down, pool_queue, max_threads,
                   task, inside, events, signals, outcome, destructor>>

RaiseFlags == flag' = [j \in Jobs |-> flag[j] \/ j \in cancellation_flags]

CancelAll(c) ==
    /\ MayCall(c)
    /\ RaiseFlags
    /\ asked' = asked \union cancellation_flags
    /\ UNCHANGED <<cancellation_flags, shutting_down, pool_queue, max_threads,
                   task, inside, events, signals, outcome, destructor>>

SetMaxWorkerCount(c, count) ==
    /\ MayCall(c)
    /\ max_threads' = AtLeastOne(count)
    /\ UNCHANGED <<cancellation_flags, flag, shutting_down, pool_queue, task,
                   inside, events, signals, outcome, destructor, asked>>

-----------------------------------------------------------------------------
(* QThreadPool hands the oldest waiting task to a worker while fewer than  *)
(* maxThreadCount of them are busy.                                        *)

Active == {j \in Jobs : task[j] \in WorkerStates}

Dispatch ==
    /\ pool_queue # <<>>
    /\ Cardinality(Active) < max_threads
    /\ task' = [task EXCEPT ![Head(pool_queue)] = "entered"]
    /\ pool_queue' = Tail(pool_queue)
    /\ UNCHANGED <<cancellation_flags, flag, shutting_down, max_threads, inside,
                   events, signals, outcome, destructor, asked>>

-----------------------------------------------------------------------------
(* The task of job j. *)

(* The early return of a task that finds the manager shutting down: the    *)
(* load, and then removeSimulation.                                        *)
TaskAbandon(j) ==
    /\ task[j] = "entered"
    /\ shutting_down
    /\ task' = [task EXCEPT ![j] = "abandoned"]
    /\ UNCHANGED <<cancellation_flags, flag, shutting_down, pool_queue,
                   max_threads, inside, events, signals, outcome, destructor, asked>>

(* Mutant of TaskForget: the early return without removeSimulation.        *)
TaskLeaks(j) ==
    /\ task[j] = "abandoned"
    /\ task' = [task EXCEPT ![j] = "ended"]
    /\ outcome' = [outcome EXCEPT ![j] = "dropped"]
    /\ UNCHANGED <<cancellation_flags, flag, shutting_down, pool_queue,
                   max_threads, inside, events, signals, destructor, asked>>

TaskForget(j) ==
    /\ task[j] = "abandoned"
    /\ cancellation_flags' = cancellation_flags \ {j}
    /\ task' = [task EXCEPT ![j] = "ended"]
    /\ outcome' = [outcome EXCEPT ![j] = "dropped"]
    /\ UNCHANGED <<flag, shutting_down, pool_queue, max_threads, inside, events,
                   signals, destructor, asked>>

TaskStarted(j) ==
    /\ task[j] = "entered"
    /\ ~shutting_down
    /\ events' = Append(events, [kind |-> "Started", id |-> j])
    /\ task' = [task EXCEPT ![j] = "started"]
    /\ UNCHANGED <<cancellation_flags, flag, shutting_down, pool_queue,
                   max_threads, inside, signals, outcome, destructor, asked>>

(* Mutant of Interrupted: the callback forgets the flag of its own job.    *)
InterruptedByShutdown(j) == shutting_down

(* The callback given to EpanetRunner::run.  Both loads are of booleans    *)
(* that only ever become TRUE, so reading them one after the other gives   *)
(* an answer that one instant would give.                                  *)
Interrupted(j) == shutting_down \/ flag[j]

RunReturns(j, how) ==
    /\ task' = [task EXCEPT ![j] = "returned"]
    /\ outcome' = [outcome EXCEPT ![j] = how]
    /\ UNCHANGED <<cancellation_flags, flag, shutting_down, pool_queue,
                   max_threads, inside, events, signals, destructor, asked>>

(* Mutant of RunEntryPoll: no poll before the work starts.                 *)
RunEntryUnpolled(j) ==
    /\ task[j] = "started"
    /\ task' = [task EXCEPT ![j] = "running"]
    /\ UNCHANGED <<cancellation_flags, flag, shutting_down, pool_queue,
                   max_threads, inside, events, signals, outcome, destructor, asked>>

RunEntryPoll(j) ==
    /\ task[j] = "started"
    /\ ~Interrupted(j)
    /\ task' = [task EXCEPT ![j] = "running"]
    /\ UNCHANGED <<cancellation_flags, flag, shutting_down, pool_queue,
                   max_threads, inside, events, signals, outcome, destructor, asked>>

(* Mutant of RunCancelled: the only poll is the one on entry.              *)
RunCancelledOnEntry(j) ==
    /\ task[j] = "started"
    /\ Interrupted(j)
    /\ RunReturns(j, "cancelled")

RunCancelled(j) ==
    /\ task[j] \in {"started", "running"}
    /\ Interrupted(j)
    /\ RunReturns(j, "cancelled")

(* The run ends by itself: its last poll, if any, came before the request. *)
RunFinished(j) ==
    /\ task[j] = "running"
    /\ RunReturns(j, "finished")

TaskRemove(j) ==
    /\ task[j] = "returned"
    /\ cancellation_flags' = cancellation_flags \ {j}
    /\ task' = [task EXCEPT ![j] = "removed"]
    /\ UNCHANGED <<flag, shutting_down, pool_queue, max_threads, inside, events,
                   signals, outcome, destructor, asked>>

(* Mutant of TaskCompleted: the worker emits the signal itself.            *)
CompletedDirectly(j) ==
    /\ task[j] = "removed"
    /\ signals' = [signals EXCEPT ![j] = Append(@, "Completed")]
    /\ task' = [task EXCEPT ![j] = "ended"]
    /\ UNCHANGED <<cancellation_flags, flag, shutting_down, pool_queue,
                   max_threads, inside, events, outcome, destructor, asked>>

TaskCompleted(j) ==
    /\ task[j] = "removed"
    /\ events' = Append(events, [kind |-> "Completed", id |-> j])
    /\ task' = [task EXCEPT ![j] = "ended"]
    /\ UNCHANGED <<cancellation_flags, flag, shutting_down, pool_queue,
                   max_threads, inside, signals, outcome, destructor, asked>>

(* The manager's event loop: it runs when that thread is in no call.       *)
Deliver ==
    /\ destructor = "alive"
    /\ inside[Manager] = NoJob
    /\ events # <<>>
    /\ events' = Tail(events)
    /\ signals' = IF shutting_down THEN signals
                  ELSE [signals EXCEPT ![Head(events).id] = Append(@, Head(events).kind)]
    /\ UNCHANGED <<cancellation_flags, flag, shutting_down, pool_queue,
                   max_threads, task, inside, outcome, destructor, asked>>

-----------------------------------------------------------------------------
(* The destructor.  C++ requires that no call on the object is in progress *)
(* when it starts and that none begins afterwards.                         *)

DestroyBegin ==
    /\ destructor = "alive"
    /\ \A c \in Clients : inside[c] = NoJob
    /\ shutting_down' = TRUE
    /\ destructor' = "cancelling"
    /\ UNCHANGED <<cancellation_flags, flag, pool_queue, max_threads, task,
                   inside, events, signals, outcome, asked>>

DestroyCancelAll ==
    /\ destructor = "cancelling"
    /\ RaiseFlags
    /\ destructor' = "clearing"
    /\ UNCHANGED <<cancellation_flags, shutting_down, pool_queue, max_threads,
                   task, inside, events, signals, outcome, asked>>

(* thread_pool.clear(): the tasks no worker has taken are deleted unrun.   *)
DestroyClear ==
    /\ destructor = "clearing"
    /\ pool_queue' = <<>>
    /\ task' = [j \in Jobs |-> IF task[j] = "queued" THEN "discarded" ELSE task[j]]
    /\ outcome' = [j \in Jobs |-> IF task[j] = "queued" THEN "dropped" ELSE outcome[j]]
    /\ destructor' = "waiting"
    /\ UNCHANGED <<cancellation_flags, flag, shutting_down, max_threads, inside,
                   events, signals, asked>>

(* Mutant of DestroyWait: only the queue has to be empty.                  *)
DestroyUnwaited ==
    /\ destructor = "waiting"
    /\ pool_queue = <<>>
    /\ destructor' = "erasing"
    /\ UNCHANGED <<cancellation_flags, flag, shutting_down, pool_queue,
                   max_threads, task, inside, events, signals, outcome, asked>>

DestroyWait ==
    /\ destructor = "waiting"
    /\ pool_queue = <<>>
    /\ Active = {}
    /\ destructor' = "erasing"
    /\ UNCHANGED <<cancellation_flags, flag, shutting_down, pool_queue,
                   max_threads, task, inside, events, signals, outcome, asked>>

(* flags.clear(), then the members and the QObject, with the events still  *)
(* posted to it, are gone.                                                 *)
DestroyErase ==
    /\ destructor = "erasing"
    /\ cancellation_flags' = {}
    /\ events' = <<>>
    /\ destructor' = "destroyed"
    /\ UNCHANGED <<flag, shutting_down, pool_queue, max_threads, task, inside,
                   signals, outcome, asked>>

-----------------------------------------------------------------------------
Submit(c)  == (\E j \in Jobs : SubmitInsert(c, j)) \/ SubmitAnnounce(c) \/ SubmitStart(c)

Request(c) ==
    \/ \E j \in Jobs : Cancel(c, j)
    \/ CancelAll(c)
    \/ \E count \in WorkerCounts : SetMaxWorkerCount(c, count)

Task(j) ==
    \/ TaskAbandon(j) \/ TaskForget(j) \/ TaskStarted(j)
    \/ RunEntryPoll(j) \/ RunCancelled(j) \/ RunFinished(j)
    \/ TaskRemove(j) \/ TaskCompleted(j)

Destroy ==
    DestroyBegin \/ DestroyCancelAll \/ DestroyClear \/ DestroyWait \/ DestroyErase

Next ==
    \/ \E c \in Clients : Submit(c) \/ Request(c)
    \/ Dispatch
    \/ \E j \in Jobs : Task(j)
    \/ Deliver
    \/ Destroy

Spec == Init /\ [][Next]_vars

(* What runs as long as it can: a submit that has begun, the workers, the  *)
(* event loop, a destructor that has begun.  Nobody has to submit, cancel  *)
(* or destroy, and a simulation may run for ever, but it keeps polling.    *)
Progress ==
    /\ \A c \in Clients : WF_vars(SubmitAnnounce(c) \/ SubmitStart(c))
    /\ WF_vars(Dispatch)
    /\ \A j \in Jobs : WF_vars(TaskAbandon(j) \/ TaskForget(j) \/ TaskStarted(j)
                                \/ RunEntryPoll(j) \/ RunCancelled(j)
                                \/ TaskRemove(j) \/ TaskCompleted(j))
    /\ WF_vars(Deliver)
    /\ WF_vars(DestroyCancelAll \/ DestroyClear \/ DestroyWait \/ DestroyErase)

EndlessSpec == Spec /\ Progress

(* Every simulation ends, as the solvers' termination properties say.      *)
SimulationsEnd == \A j \in Jobs : WF_vars(RunFinished(j))

-----------------------------------------------------------------------------
(* Properties. *)

(* The values the manager's state can take.                                *)
TypeOK ==
    /\ cancellation_flags \subseteq Jobs
    /\ flag \in [Jobs -> BOOLEAN]
    /\ shutting_down \in BOOLEAN
    /\ pool_queue \in Seq(Jobs)
    /\ max_threads \in Int /\ max_threads > 0
    /\ task \in [Jobs -> TaskStates]
    /\ inside \in [Clients -> Jobs \union {NoJob}]
    /\ events \in Seq(Posted)
    /\ signals \in [Jobs -> Seq(SignalKinds)]
    /\ outcome \in [Jobs -> Outcomes]
    /\ destructor \in Stages
    /\ asked \subseteq Jobs

(* Whatever thread submits and however fast the worker is, the signals of  *)
(* a job come in the order Queued, Started, Completed, each at most once:  *)
(* Queued is emitted before the task is given to the pool, and the other   *)
(* two pass through one queue.                                             *)
SignalOrder ==
    \A j \in Jobs : signals[j] \in
        {<<>>, <<"Queued">>, <<"Queued", "Started">>, <<"Queued", "Started", "Completed">>}

(* While the manager lives, an id is in the hash (so cancel can reach it   *)
(* and activeSimulationCount counts it) exactly from the moment submit     *)
(* makes it known until its run has returned: no early return of the task  *)
(* leaks it, and whoever receives Completed finds it gone already.         *)
Tracked(j) == task[j] \in SubmitStates \union (WorkerStates \ {"removed"}) \union {"queued"}

TrackedExactly ==
    /\ \A j \in Jobs : Tracked(j) => j \in cancellation_flags
    /\ \A j \in cancellation_flags : Tracked(j) \/ (shutting_down /\ task[j] = "discarded")

(* Cancellation is independent for each job: a run that ends cancelled was *)
(* asked to by a call that named it or reached all jobs, or by shutdown.   *)
IndependentCancellation ==
    \A j \in Jobs : outcome[j] = "cancelled" => j \in asked \/ shutting_down

(* The tasks capture "this": once the destructor is past its wait, none is *)
(* on a worker or about to be, and in the end no flag or event is left.    *)
QuietAfterDestruction ==
    /\ destructor \in {"erasing", "destroyed"} =>
         \A j \in Jobs : task[j] \in {"absent", "discarded", "ended"}
    /\ destructor = "destroyed" => cancellation_flags = {} /\ events = <<>>

(* The refinement mapping: what SimulationService calls the phase of a job.*)
ServicePhase(j) ==
    IF outcome[j] # "none" THEN outcome[j]
    ELSE IF task[j] = "absent" THEN "absent"
    ELSE IF task[j] = "running" THEN (IF flag[j] THEN "stopping" ELSE "running")
    ELSE IF flag[j] THEN "doomed" ELSE "accepted"

Service == INSTANCE SimulationService WITH
    phase    <- [j \in Jobs |-> ServicePhase(j)],
    reported <- {j \in Jobs : \E i \in DOMAIN signals[j] : signals[j][i] = "Completed"},
    open     <- ~shutting_down

(* The manager implements the service: among other things, a job cancelled *)
(* before its run starts never finishes as if it had not been, a job ends  *)
(* once, and nothing is reported during the shutdown.                      *)
ImplementsService == Service!Spec

(* The destructor returns although simulations may be arbitrarily long,    *)
(* because every one of them polls.                                        *)
ShutdownTerminates == destructor # "alive" ~> destructor = "destroyed"

(* A running simulation that was cancelled stops, even one that would      *)
(* never end by itself.                                                    *)
CancelStopsRun ==
    \A j \in Jobs : j \in asked /\ task[j] = "running" ~> task[j] # "running"

(* If every simulation ends, every submitted job is reported in the end,   *)
(* however many others compete for the workers and whatever worker count   *)
(* was asked for (setMaxWorkerCount), unless the manager is destroyed.     *)
EveryJobReported ==
    SimulationsEnd =>
        \A j \in Jobs : task[j] # "absent" ~>
            shutting_down \/ (signals[j] # <<>> /\ signals[j][Len(signals[j])] = "Completed")

=============================================================================
