# Verification of the AOWIS EPANET adapter

This directory holds TLA+ models of the EPANET adapter (`src/src/lib` and
`src/include`), the TLC configurations that check them on small instances, and
proofs, checked by TLAPS, that some of what TLC checks holds for every instance.

The adapter turns a solver-neutral network (`NetworkHydraulic`) into a project of
the EPANET toolkit, simulates the hydraulics once, then any number of water-quality
analyses on them, then perhaps a multi-species run with EPANET-MSX, and returns one
result. What makes it hard is not the arithmetic, which the toolkit does, but
everything around it: each of several hundred toolkit calls may fail or warn; the
caller may cancel between any two of them; several phases share one project, one
list of diagnostics and one report; a failure in one part must neither lose nor
disguise the others; and a manager runs such requests on a pool of threads that it
has to stop safely.

Contents: [1 Inventory](#1-inventory), [2 Modules](#2-modules),
[3 Runs, bounds and mutants](#3-runs-bounds-and-mutants), [4 Fairness](#4-fairness),
[5 Proofs](#5-proofs), [6 Assumptions](#6-assumptions),
[7 Divergence from the documents](#7-divergence-from-the-documents),
[8 Not modelled](#8-not-modelled), [9 Plan](#9-plan).

Paths of source files are relative to `src/src/lib` unless they start with `src/`;
`internal/x` is short for `internal/epanet_x` where no file of that name exists.

## 1 Inventory

### 1.1 Simulation manager

`epanet_simulation_manager.cpp` (111 lines), public API of the asynchronous use.

- State: a `QThreadPool`, a mutex and a hash from the id of each job to its
  cancellation flag, the atomic `shutting_down`.
- Operations: `submit`, `cancel`, `cancelAll`, `setMaxWorkerCount`, the task that
  runs on a worker, the two signals it posts to the manager's thread, the destructor.
- Interactions: called from any thread; calls `EpanetRunner::run` with a callback
  that reads the flag; signals through the Qt event loop.
- Hard: submission, dispatch, run, cancellation and destruction interleave freely;
  the task captures `this`.
- Correct when: signals of a job come in order and at most once; the hash holds
  exactly the jobs that can still be cancelled; a job ends cancelled only if it was
  asked to; after the destructor no task exists; the destructor returns, cancelled
  runs stop, every job is reported.

### 1.2 Runner and executor

`epanet_runner.cpp` (`run`), `internal/multi_quality_run_executor.cpp`,
`internal/prepared_project.cpp`, `internal/report_collector.cpp`,
`internal/diagnostic_helpers.cpp`, `internal/result_finalizer.cpp`.

- State: the result under construction (states of the run, of the hydraulics, of
  each quality child and of the multi-species run), the project's diagnostics with a
  checkpoint per phase, the report collector, the saved hydraulic file.
- Operations: preparation, configuration, solution, saving and reporting of the
  hydraulics; for each child validation, configuration, solution, report; the
  multi-species run; settlement of whatever did not run.
- Hard: eleven returns, each of which has to settle every part that did not start;
  the poll that comes between a call and the look at its status; sharing of
  diagnostics and report by all phases; results that stay valid although something
  fails later.
- Correct when: every part of a returned result has a final state; `Success` means
  that everything asked for is there; the phases' diagnostics and reports stay apart
  and none gets lost; nothing runs on incomplete hydraulics; valid hydraulics stay
  valid.

### 1.3 Solvers

`internal/hydraulic_solver.cpp`, `internal/quality_solver.cpp`: the loops that step
the toolkit.

- State: the toolkit's session, previous and current time, the timeline, the first
  failure, the flow balance and pump energy accumulated so far.
- Operations: a poll between any two calls; open, init, run, next or step, close.
- Hard: failures that lose one step only (error 110, a failed read) and the
  simulation goes on; times that do not advance; a close that fails.
- Correct when: the session is closed whichever way the solver returns; times
  strictly increase; the balance covers exactly the intervals of the results; a
  failure is diagnosed and a cancellation is not one; the solver returns.

### 1.4 Multi-species stage

`internal/msx_project.cpp` with `internal/msx_mass_balance_bridge.c`.

- State: EPANET-MSX has one project and one model per process, guarded by a mutex.
- Operations: export of the two input files, open, load, resolve all names, the step
  loop, close; a dozen early exits, each with its own clean-up.
- Hard: several managers or workers meet at the mutex; a clean-up that is forgotten
  poisons all later runs of the process; the wait for the mutex does not poll.
- Correct when: runs never touch each other's model; the toolkit is closed whenever
  the mutex is free; the timeline says what happened; every run returns.

### 1.5 Network preparation

`internal/network_preparer.cpp`, `internal/hydraulic_node_demand_projection.cpp`.

- State: the prepared copy of the network.
- Operations: resolve roughness from the material library, validate, keep what is
  enabled, project the demand points onto junctions and aggregate them, validate
  again, trim the report selections.
- Hard: order of the stages (disabled entities must not fail the run, enabled ones
  must be checked), shares of demand points on pipes, compaction that has to leave
  the junction's own demands in front.
- Correct when: the projection conserves demand; own demands stay first; what comes
  out refers to nothing that was filtered; disabled parts never fail a run.

### 1.6 Network builder and index registry

`internal/network_builder*.cpp`, `internal/index_registry.h`.

- State: the toolkit's project, the registry from UUID to toolkit index, the private
  constant demand pattern.
- Operations: one per kind of entity, in a fixed order, with two refreshes of the
  indices between.
- Hard: EPANET renumbers nodes while junctions are added; the build goes on after a
  failure; objects that were added but not finished; indices that are looked up with
  0 as a default.
- Correct when: indices are those of the right objects; a success is a complete
  project; each failure is reported; constant demands do not get the default pattern.

### 1.7 Configuration and INP export

`internal/project_initializer.cpp`, `internal/{hydraulic,quality}_run_configurator.cpp`,
`internal/report_configurator.cpp`, `internal/inp_exporter.cpp` with
`EpanetRunner::retrieveInp`.

- State: the settings of the one project a run has, which all its quality children
  share; the failures collected so far; the text.
- Operations: initialize, build, configure hydraulics, report and each child, save to
  a file, patch the text section by section.
- Hard: a setting that a child does not make is the one an earlier child left; a
  child may fail in the middle; the toolkit converts a roughness by the formula that
  is set at the moment; `EN_saveinpfile` loses parts of a project and changes others.
- Correct when: every child is solved in the project it would have alone; a retrieved
  text, opened again, is the network and the report.

### 1.8 Result readers

`internal/result_reader.cpp`, `internal/quality_result_reader.cpp`.

- State: the registry the build left, the result under construction.
- Operations: read each node and link by index, the next event, the mass balance;
  the first failure ends the reading.
- Hard: only indices connect a row with its entity; a tank event names a node's index,
  a control event a control's.
- Correct when: a row says what is its own entity's, and the event names the tank or
  control EPANET meant.

### 1.9 Multi-species model

`internal/msx_validator.cpp`, `internal/msx_exporter.cpp`.

- State: the failures found; the colours, stack and cycle of a recursive search.
- Operations: a dozen checks in a row; the depth-first search for terms that define
  each other; the lines of the text, section by section.
- Hard: a search that marks as done what leads into a cycle; a symbol, a UUID or a
  selection that is checked in one place and used in another.
- Correct when: exactly the models with a cycle are refused for one, and what is
  reported is a cycle; a text that is written says the whole model and nothing else.

### 1.10 INP import

`internal/inp_importer.cpp`, `internal/inp_{geometry,report,metadata}_importer.cpp`.

- State: the request and the tables from toolkit index to UUID, filled section by
  section; `complete`.
- Operations: one section after the other, from the toolkit and from the text.
- Hard: the toolkit forgets what a file said and makes up what it did not say; what
  was read from the text is matched with its answers by ID or by place; content that
  cannot be represented must show in `complete`.
- Correct when: a request that was imported means what the file means.

### 1.11 The rest

| component | files | state and operations | correct when |
|---|---|---|---|
| validator | `internal/network_validator*.cpp` | stateless checks that compile a list of failures | accepted networks never fail in the builder or the toolkit for a reason it checks |
| advisories | `internal/network_advisories.cpp` | one stateless check of tank levels | only warns |
| coordinates, resolvers, printers, dummy networks, random generator | `internal/coordinate_reference_transform.cpp`, `epanet_resolvers.cpp`, `utility/`, `dummy/` | formulas, text, test data | - |
| HTTP server | `src/src/server` | answers `/status` | - |

## 2 Modules

| module | models | kind |
|---|---|---|
| `SimulationService` | what the manager promises | abstract specification |
| `SimulationManager` | 1.1 | state machine, implements `SimulationService` |
| `RunContract` | what one request promises about its parts | abstract specification |
| `EpanetRun` | 1.2 | state machine, implements `RunContract` |
| `EpanetResult` | diagnostics, validity, states; the contract of the solvers | operators |
| `HydraulicSolver`, `QualitySolver` | 1.3 | state machines |
| `MsxProject` | 1.4 | state machine, several runs |
| `NetworkPreparation` | 1.5 | state machine over one prepared network |
| `NetworkBuilder` | 1.6 | state machine over one toolkit project |
| `ResultReaders` | 1.8, EXTENDS `NetworkBuilder` | composition: build, then reading |
| `MsxModel` | 1.9 | state machine over one model |
| `InpExport` | 1.7, report commands and the exporter's repairs | operators |
| `RunConfiguration` | 1.7, EXTENDS `InpExport` | state machine over one project and its children |
| `InpImport` | 1.10, EXTENDS `RunConfiguration` | composition: retrieve, then import; or import a file from elsewhere |
| `MC...` | the instances TLC checks | |
| `...Proofs` | theorems and proofs; `NetworkBuilderProofs` is about `NetworkBuilder` and `ResultReaders`, `MsxProofs` about `MsxProject` and `MsxModel`, `InpProofs` about `InpExport`, `RunConfiguration` and `InpImport` | |

How the modules compose:

- `SimulationManager` takes `EpanetRunner::run` for the loop its contract makes it:
  it polls on entry and then as often as it likes, and ends cancelled when a poll
  answers TRUE.
- `EpanetRun` takes each solver for what its module shows of it: `HydraulicSolver`
  and `QualitySolver` are checked to return an outcome within
  `EpanetResult!SolverContract` (`ReturnsWithinContract`), and `EpanetRun` draws its
  outcomes from that very operator. In the same way the multi-species run returns as
  `MsxProject!HonestTimeline` says.
- `ResultReaders` reads from the project and the registry that `NetworkBuilder` leaves,
  failed calls included.
- `RunConfiguration` takes the build as one step whose result `NetworkBuilder`
  describes, and draws its children from the request that `EpanetRun` runs.
- `InpImport` imports every text `RunConfiguration` retrieves.
- `NetworkPreparation` and `NetworkBuilder` are two of the steps of
  `EpanetRun!Prepare`, which succeeds, warns or fails. The networks of
  `NetworkBuilder` are prepared ones, filtered by the validator's predicates.

### 2.1 SimulationManager

One action per stretch of code that no other thread can observe half done: a
critical section of `simulations_mutex`, one atomic access, one call into the pool,
one event. `submit` is `SubmitInsert` (the hash), `SubmitAnnounce` (the signal
`Queued`), `SubmitStart` (`thread_pool.start`). The task is `TaskAbandon` or
`TaskForget` (it finds `shutting_down`), `TaskStarted`, `RunEntryPoll`,
`RunCancelled`, `RunFinished`, `TaskRemove`, `TaskCompleted`. The destructor is
`DestroyBegin`, `DestroyCancelAll`, `DestroyClear`, `DestroyWait`, `DestroyErase`.
`Dispatch` (the pool hands a task to a worker) and `Deliver` (the event loop) are
external. The destructor starts only while no call is in progress (`MayCall`), as
for any C++ object.

`SimulationService` knows jobs that are accepted, doomed, running, stopping and
ended, and which ends were reported. `ImplementsService` maps flags, task places and
outcomes to those phases: a job that is flagged before its first poll computes
nothing, a job ends once, nothing is reported after the shutdown began.

### 2.2 EpanetRun

`pc` runs through the runner and the executor, `phase` says whose turn it is. Each
action is the code from one poll to the next. A diagnostic is a record of severity,
stage and operation; a report is the set of the phases whose lines it has, which is
what is needed to say that no report has foreign lines. `emitted` and `noticed` are
history variables: what was diagnosed in each phase, and that a poll saw the request.

`RunContract` is the order of the parts as a client sees it: hydraulics, children
one after the other, multi-species run; nothing on incomplete hydraulics; nothing
after a cancellation; settled parts stay as they are; everything is settled in the
end.

### 2.3 Solvers

One action per poll and per toolkit call with the code up to the next one. Times and
steps are whatever the toolkit says, within bounds. `covered` counts the seconds
that the flow balance and the pump energy were accumulated over, `stored` the value
that went into the last result: the formulas are abstracted, their intervals are not.

### 2.4 MsxProject

A set of runs of one process, each with its own `pc`, `timeline` and request, and
what they share: `holder` of the mutex, open `project`, open `model`. A failure at
any of the calls takes the clean-up that is written there.

### 2.5 NetworkPreparation

Amounts of demand are integers; a position on a pipe is a number of parts of
`Whole`, so that shares are exact; `Limit` stands for the largest finite value. The
shares and the compaction are translated from the code and compared with a
declarative definition of what each junction should receive. `Request` has the types
of a request before validation: ends of pipes, patterns and attachments are any UUIDs.
`UnitsAssumption` says that amounts are given in units that every part of a pipe has a
whole number of; the code's doubles are rounded instead, which the model leaves out.
What may fail for an overflow is stated of the magnitudes of the demands (`SumFails`):
positive and negative demands that cancel out in the end may overflow on the way. A
report selection is free of what is disabled in the list it is about: the node
selection of nodes, the link selection of links, as `removeDisabledReportSelections`
is given them.

### 2.6 NetworkBuilder

`todo` is the list of operations that `build` will still do. An operation ends
"refused" (the toolkit did not add the object), "half" (added, but something after
it failed) or "done". Why it does so is either a defect of the entity (`bad`), an
earlier failure (a pattern that is not registered, a node that is not there) or a
call that fails by itself (`MaxFaults`). `tk` is the project with its objects in
their order, `reg` the registry, `uses` what finished objects refer to.

### 2.7 ResultReaders

All values of an entity are read under one index, so a row is the object of the
toolkit it was read from. `StartReading` needs a build that succeeded; then one
action per turn of each loop (`ReadNode`, `ReadPipeOrValve`, `ReadPump`,
`ReadQuality`), the next event and the mass balance, and `FailReading` for any call.

### 2.8 MsxModel

`phase` goes through the validator's functions; `NextTerm`, `Enter`, `Skip`,
`FindCycle` and `Leave` are the turns of the recursive `findTermCycle`, whose call
stack is the variable `stack`. The search is written as steps, not as a recursive
operator, so that it can be proved about. The sections of the exporter follow.
Numbers are "good" or not, expressions are the set of symbols in them. A line of the
text is a record: its kind (the section, and in `[QUALITY]` and `[PARAMETERS]` the
word the line begins with), the name it defines or the IDs it is about, the pattern it
needs and the symbols of its expression.

### 2.9 RunConfiguration and InpExport

A configurator is a plan, the sequence of the toolkit calls it makes; a call sets one
cell of the project, or fails because a check of the adapter says so or the toolkit
refuses it. Values are named by the part of the request they come from, so a value
that stays from an earlier child is seen as such. A text is a record of sections;
`SavedText` is what `EN_saveinpfile` writes of a project, `RetrievedText` what the
exporter makes of it, `Reopened...` what the toolkit makes of that.

### 2.10 InpImport

A file is a record of its sections as well. `Native...` is what the toolkit holds of
a file it opened (external), `Import...` what the importer makes of that and of its
own reading of the text. `ImportSection` imports one section: "fine", "lossy" (a
warning, the result is not complete) or "failed" (the import ends). `ImportFails` is
any call that fails and a text that does not parse.

## 3 Runs, bounds and mutants

| run | states | question |
|---|---|---|
| `manager_safety` | 178,290 | order of signals, tracking, cancellation, quiet destruction, refinement of `SimulationService` |
| `manager_liveness` | 26,008 | the destructor returns and cancelled runs stop, though simulations may be endless; if they end, every job is reported |
| `request` | 145,836 | the result is settled and honest; parts stay apart; refinement of `RunContract` |
| `hydraulic_solver` | 75,668 | session, balance, contract, termination |
| `quality_solver` | 8,208 | contract and termination, with the steady-state branch |
| `msx_runs` | 152,000 | isolation, clean-up, honesty, return of two concurrent runs |
| `msx_disabled` | - | a violation, see section 7 |
| `msx_model` | 9,966 | circular terms, the text of a model, the end of the search |
| `network_preparation` | 536,536 | conservation of demand, closure, disabled parts |
| `network_builder` | 235,402 | completeness, reports, constant demands, and results read from what was built |
| `configuration` | 355,131 | isolation of the children, roughness and formula, export and import |
| `export_precision` | - | a violation, see section 7 |

Bounds and why they are enough to meet the interesting cases:

- Manager: three jobs with two clients and at most two workers have jobs waiting,
  starting and running at once, and a cancellation or destruction beside each; the
  liveness runs have two jobs on one worker, so that one has to wait. Jobs are
  interchangeable in the safety run (symmetry); the liveness runs use none.
- Solvers: `MaxTime = 2`, `MaxStep = 2`: up to three steps, so that a step can be
  lost before, between and after steps that have results; times may repeat, go back
  or be negative; steps may be zero or negative.
- `request`: two children, so that one is before and one after the child that fails
  or is cancelled; two different diagnostics in a phase beside the outcome, so that
  equal and different ones meet (`MaxEmitted`).
- `msx_runs`: two runs are what mutual exclusion is about, three steps each.
- `network_preparation`: one pipe with every combination of disabled ends, every
  attachment of a demand point, up to two points so that projected demands meet in
  one key and in different ones; one demand is negative, so that sums overflow and
  cancel out.
- `msx_model`: three terms are the fewest with a cycle of two reached from a third, and
  all 512 graphs on them are tried; TLC shows the text on a model that has every kind
  of entry, with each of 40 defects.
- `configuration`: children of each analysis in every order of two, and four with a
  broken one between; two failing calls, so that a child may fail in the middle while
  another setting failed before; every pair of backend report commands; every choice
  of default pattern against names that are taken. The files from elsewhere vary one
  section at a time, up to two demand or report rows and three reaction rows, so that
  rows can repeat, contradict and shadow each other. What the sections share (IDs,
  default pattern, link types, analysis) is varied with them.
- `network_builder`: every kind of entity, two patterns, three curves, two junctions
  so that the second one shifts a reservoir and a tank; a defect at any one entity
  and two failing calls (`MaxFaults`), so that what fails meets what depends on it.

`SimulationsEnd` is a premise of `EveryJobReported` only; the other two properties of
`manager_liveness` hold without it.

Deadlock is not checked: every one of these systems comes to an end (a run returns,
the manager is destroyed), and that it does is stated by the liveness properties
where a loop or a wait could prevent it.

Each property has a mutant in `PROJECT.json`: a definition that models code is
replaced by one with a plausible mistake (defined next to it, marked "Mutant of"),
and the property is violated under the same configuration. Examples: indices are
refreshed before the last junction is added; `EN_initH` fails and the session is not
closed; the mutex belongs to the project instead of the process; the children's
report is not restarted; initial quality is cleared for chemicals only; the importer
leaves a default pattern unsaid.

## 4 Fairness

- Solvers: weak fairness of the solver's own steps: a thread that runs code is
  scheduled. Nobody has to cancel. The toolkit's calls return; which values they
  return is unconstrained, and `Terminates` shows that the guard on times is what
  makes the loop end.
- Manager: weak fairness of every task's steps, of the pool, of the event loop, of a
  destructor that has begun, and of a client that is inside `submit`. A simulation may
  run for ever as long as it polls, which the solvers do between any two calls; that
  every simulation ends, which is what `Terminates` and `EveryRunReturns` show of the
  parts, is a premise of `EveryJobReported`. Submitting, cancelling and destroying are
  never forced.
- Multi-species runs: weak fairness of each run. A run waits for the mutex once, the
  holder always releases it (`LeftClean`, `EveryRunReturns`), so strong fairness,
  which `QMutex` does not promise, is not needed.
- `msx_model`: weak fairness of the next step: a function that was called goes on.
- `request`, `network_preparation`, `network_builder` and `configuration` state safety
  only and assume no fairness: they are finite sequences without waiting.

## 5 Proofs

Most theorems have the form `Spec => []P` and follow from the inductive
invariant `IInv` of their module: `Init => IInv`, `IInv /\ [Next]_vars => IInv'`,
`IInv => P`. Where a theorem needs much that the others do not, that is a second
invariant, inductive relative to `IInv` (`CInv`, `SInv`, `OInv`, `BInv`, `RInv`,
`ReadersInv`, `ExportInv`) or by itself (`MInv`). The exceptions are `HydraulicsStayValid`, about
steps, and two refinements, `ManagerIsAService` and `RunImplementsContract`. Each of
these invariants holds on TLC's instance, too. None of the bounds of section 3 enters: jobs, clients, runs, quality children,
times and steps, networks, demands and demand points are arbitrary.

`SimulationManagerProofs` (assumes that the manager's thread is a client, that
`NoJob` is no job, that worker counts are integers). `TrackedExactly` alone is not
inductive: that a job leaves the hash once needs to know that it is in the queue or
on a worker once. `IInv` adds who owns a job during `submit` (`OwnedSubmits`), that
the queue holds each queued job once (`QueueHoldsQueued`), what each step of the
destructor has settled (`ShutdownProgress`) and who raised a flag (`RaisedFlags`).
The second invariant `SInv` is about the signals: what has been emitted for a job at
each place of its way (`EmittedSoFar`), and that the events still posted are in
order, no event twice, a start before its completion (`PostedInOrder`).
Theorems: `TypeCorrect`, `CancellationIsIndependent`, `TrackingIsExact`,
`DestructionIsQuiet`, `SignalsAreInOrder`.

The module ends with `ManagerIsAService`: the specification of the manager implies that of `SimulationService` under the mapping of `ImplementsService`.
There is one step per action of the manager, which maps to an action of the service
or to a stutter. `OInv` adds what the mapping reads: which outcome a job may have at
each place of its task (`OutcomesFit`), and that a job whose completion is posted has
ended with a result (`CompletedReturned`).

`EpanetRunProofs` (assumes natural bounds). `Settlement` speaks of the returned result
only; `IInv` says what is true on the way there: where in the code which phase is
current (`PhaseFits`), that before the first child all are pending and in a child
those before it are over and those after it pending (`InTurn`), that nothing is
cancelled until a poll has noticed the request (`NotYetNoticed`,
`NoticedIsCancelled`), what the multi-species state may be (`MsxOpen`), and that the
executor leaves everything but the multi-species run settled (`SettledLate`). The
argument for all of the executor's returns is one lemma, `Stops`. This gives
`RunsAreSettled`, for any number of children and diagnostics. The other properties need
`RInv`, which follows a diagnostic through the code: the lists of hydraulics and
children hold only what their phase emitted (`KeptApart`, `Sources`); what was emitted
is in the list of its phase until the executor copies it into the result, and from
then on in the result (`Reaches`); what the validity of the hydraulics and the states of the
children say of their diagnostics (`HydraulicsKnown`, `ChildrenKnown`); that the
multi-species run is planned exactly if it was asked for (`MsxPlanned`); and what the
result says of its parts (`Meaning`). Theorems: `PhasesAreKeptApart`,
`DiagnosticsReachTheResult`, `SuccessIsWhatItSays`, `HydraulicsStayValid` (a step
property), and `RunImplementsContract`: each action of `EpanetRun` maps to an action of
`RunContract` or to a stutter under the mapping of `KeepsContract`.

`HydraulicSolverProofs` (assumes natural bounds). `IInv` adds where the session is
before the loop (`SessionPlaces`), that the previous time bounds the results
(`ResultsBounded`), and that inside the loop an available result is there to be
completed (`ReadHasResult`), without which `EN_nextH` could write to a result that
does not exist. The second invariant `CInv` is about what is returned: that an error among the
diagnostics shows in the status (`FailuresDiagnosed`), that a step lost to error 110 or a failed read leaves an error
behind (`LostSteps`), that a simulation that ended has a result (`EndHasResult`), that
a cancellation comes from a poll (`CancelledAtPoll`), and why the loop was left
(`WhyLeft`). The third, `BInv`, is about the balance: at every poll `covered` is the sum of the
intervals of the results so far, the last one counted by how far it got
(`CoversResults`, `AwaitsNext`), and it is stored once, when the session is closed
(`StoredAtEnd`). The sum over the timeline is a recursive function; how it unfolds is
shown by induction over a set of numbers (see below). Theorems: `TypeCorrect`,
`SessionsAreBalanced`, `TimesAreIncreasing`, `ReturnsAreWithinContract`,
`BalanceIsExact`.

`QualitySolverProofs` (assumes a natural bound). `IInv` adds the same for the quality
session and its samples (`SessionPlaces`, `SamplesBounded`), that a steady-state
analysis has no sample before its only one (`SteadyOnce`), that a failure and an
error among the diagnostics are the same thing (`FailuresDiagnosed`), that a lost
sample is diagnosed (`LostSamples`), and why the loop was left: for a cancellation, at
the end, or for a failure that invalidates the results (`WhyLeft`), which is what the
contract with the executor amounts to. Theorems: `TypeCorrect`,
`SessionsAreBalanced`, `TimesAreIncreasing`, `ReturnsAreWithinContract`.

`MsxProofs`, on the runs that share the toolkit (assumes that `NoRun` is no run). `IInv` ties the places of the
critical section to the holder of the mutex (`Exclusive`), says what is open at each
place (`Opened`), and for each run that no time is accepted twice (`Counted`), what
a run cancelled in the queue may still do (`Waited`) and what its timeline says on
the way to the end (`Underway`). Theorems: `TypeCorrect`, `ModelsAreOwn`,
`ToolkitIsLeftClean`, `TimelinesAreHonest`, `CancelledWaitersDoNothing`.

`MsxProofs`, on the model (assumes the types of a model, `ModelsAssumption`, and that names are
told apart from what stands for a node, a pipe or nothing, `NamesAssumption`). For a depth-first search the
inductive invariant is the whole argument. `SearchInv` says that the terms
marked 1 are those on the stack (`OnStack`), each once (`EachOnce`) and a dependency
of the one below (`Chained`); that what a call has examined is done, but for the call
above it (`ExaminedIsDone`); that what is done refers to what is done (`DoneIsClosed`)
and holds no knot (`NoKnotIsDone`); and that the loop has met all terms it passed
(`LoopHasMet`). From it follow both directions: what is reported is a cycle, because
it is a part of the stack (`CycleIsOne`), and a search that reports none has done all
terms (`AllIsDone`), so that there is none: a set of terms each of which refers to one
of them (a knot) would have had a last one that was done.
`CyclesAreFound` states the second for knots because a recursive definition of paths
is beyond the prover; a finite graph has a cycle exactly if it has a knot. The second
invariant, `MInv`, is about the text: a model without a failure has passed every check
so far (`Passed`), only such a model is written (`OnlyThen`), and the lines are the
sections so far (`TextSoFar`). The work is in `TextMeansTheModel`, that the text of a
model that passed all checks (`Valid`) means the model. It is shown for each section
first (`Fine`: its kinds, nothing unresolved, nothing disabled, nothing said twice, a
line for each entry), where each check of the validator is used for the one section it
protects, and then for sections one after another (`FineTogether`); that each name is
defined once comes from `Mirrors`, that the first three sections are the symbols of the
model in their order. A section of the entries that meet a condition (`Those`) has a
one-to-one map to them (`Picked`). Theorems: `CyclesAreFoundAlways`,
`ExportMeansTheModelAlways`, for any set of models.

`NetworkPreparationProofs` (assumes that a pipe has a part, finitely many junctions,
the types of a request, and the units of section 2.5). `IInv` follows the stages. Up to
the filter nothing is left out (`Untouched`); then each stage leaves what the later
ones rely on: `Resolved`, `Validated`, `Enabled`, `Revalidated`, `Reported`. While
points are projected (`Projecting`), every enabled junction has its own demands and
after them what the points before `index` give: in each category and pattern, `Whole`
times its sum is `Whole` times its own and the parts of every point, and all junctions
together have received the points in full. The latter is where validation of the
attachment enters: both ends of an interpolated pipe are enabled junctions, so the
parts of a point add up to `Whole` (`PartsAreWhole`), and without the check one part
would be lost. Compaction (`CompactedIs`) merges what matches without changing a sum as
long as nothing overflows; every amount it produces is bounded by the magnitudes of
what was given, so that an overflow has its cause in the request (`SumFails`).
`Compacting` says what is left of that in the end. Theorems:
`PreparationKeepsInvariant`, `DemandIsConserved`, `OwnDemandsStayFirst`,
`PreparedNetworkIsClosed`, `FailuresComeFromWhatIsEnabled`.

`NetworkBuilderProofs` (assumes that the parts of a network are lists,
`NetworksAssumption`, and of the IDs that the mark of a constant demand is no
reference and that there are more private IDs to try than the network has taken,
`IdsAssumption`). `SuccessIsComplete` speaks of the end; on the way the argument is the
order of the operations. What is left to do is a suffix of the plan (`Scheduled`, by
the `Rank` of an operation); an operation that is over has settled its entity or left
a diagnostic of its own (`AllSettled`, `FailuresCollected`, where `Missing` names what
an entity refers to that is not there); and while there is no diagnostic, the indices
in the registry lead to the objects they were given for (`IndicesKept`, `NoneTwice`),
the options are set (`OptionsSet`), and objects refer to what the network wants
(`UsesWanted`, `DemandsUsed`, `ConstantNamed`). Junctions that are added move the
reservoirs and tanks behind them; nothing looks at a node's index between that and
`RefreshNodes`, which is why the order is in the invariant. `ReadersInv` is about the
readers on top: rows and what is unread are the network in its order, each row read
under the index of its own entity. Theorems: `BuildIsInvariant`, `BuildIsComplete`,
`BuildReportsFailures`, `ConstantDemandsStay`, `ResultsAreRead`.

`InpProofs` (assumes `RequestsAssumption`, what validation accepts: the parts of a
network are lists, a default pattern is one of the patterns, report commands are ones
`EN_setreport` takes; `IdsAssumption`: the IDs AOWIS tries for patterns of its own
are not all taken, which the code has for granted since it counts on for ever; and
`FilesAssumption` for files from elsewhere, see section 6). The invariant is one of a program that works off a plan. `TodoFits` says which cells each
stage may still set and `Straight` that without a failure the project is the plan's
first calls applied to a new one. `RoughUnderway` carries the roughness through the
loop over the pipes, where a call that fails is skipped: a pipe behind is set under the
formula or is reported; `RoughStays` and `HydraulicsStay` say that quality and report
touch none of it. For the isolation of the children the argument is that the plans of
all children set the same cells, except initial qualities for a run that has none
(`FullPlanIs`), and that the last call for a cell
decides (`LastSet`): a child that got to its end has its own value everywhere, however
many before it broke off where (`ChildUnderway`, `SolvedAlone`).
`ExportInv` is about the text: it says the network (`SaysNetwork`) and the report
rows (`Rows`), and the project still has the report it was saved from. That the
network comes back is a matter of two made-up IDs (`NetworkComesBack`). That the report
does (`ReportComesBack`) is the hard part, since the text has each command once, in an
order of its own: `EN_saveinpfile` writes the toolkit's report, each backend command
replaces the rows with its key, and the rows of the friction factor are computed. The
proof compares the three reports part by part, a part being a flag, a selection's mode,
one selected ID or one attribute of a field: the last command for a part decides what
it is (`Says`), a saved row says what the report has, and a row is replaced only by one
for the same parts.
`ImportInv` is about a file on its way through the importer, one that was retrieved
(`TextIsFile`: it is a file as the assumption has them) or one from elsewhere. What
`ImportMeansTheFile` says at the end of all sections is an invariant if each part is
asked for behind the section that imports it (`MeansSoFar`), and a section changes only
its own fields (`SectionChanges`). The parts themselves are where the importer guesses
what the toolkit forgot: whether a demand was written or made up, which speed and
which state the rows of `[STATUS]` leave a pump with (`NativePump` against the text the
importer reads again), whether a pipe has a coefficient of its own. A pump's price is
compared with the price of all that an earlier section has imported, which is why the
options are in the invariant too. For the report the options imported so far and
the toolkit's own report are compared row by row (`Matches`): flags, selections and
fields one by one, while the parts the options do not have are left to the rows kept as
backend commands; the commands made of both then tell the report again. Theorems: `RoughnessAlwaysFits`,
`ChildrenAlwaysIsolated`, `ExportAlwaysKeepsProject`, `ImportAlwaysMeansTheFile`, all of
`ImportSpec`, so that they hold however a run and the imports go on together.

Induction. The induction theorems of the library take an operator as a parameter and
cannot be used. Where a recursive function has to be unfolded (`Total`, `Compacted`,
`EnabledPoints`, `SecondsUpTo`, `Those`, the plans' and the report's loops, the search
for a private ID), the proofs use the set
of the numbers for which the claim holds and that `Nat` is well-founded
(`SetInduction`); a lemma shows first that the function exists.

Type correctness of the manager, the solvers and the multi-species stage, the order
of times of both solvers and the balance of the quality solver's session are proved
and therefore not checked once more by a run.

Only model-checked: everything under fairness (`Terminates`, `EveryRunReturns`,
`ShutdownTerminates`, `CancelStopsRun`, `EveryJobReported`, `ExportEnds` of
`MsxModel`), which is beyond the prover. Every invariant that a run checks is proved.

## 6 Assumptions

The submodules `external/epanet`, `external/epanet-msx` and `external/GeographicLib`
are not part of the repository; the toolkit is modelled from how the adapter uses it.

- Any call may fail with an error; only `EN_runH` and the calls of the sessions,
  the report and the saving may answer with a warning code (1 to 99). Calls of the
  build do not.
- A failed open of the multi-species model leaves nothing open; closing closes, also
  when it answers with an error.
- `EN_addnode` keeps junctions in front and otherwise the order of addition
  (`internal/network_builder.cpp:264`); other objects are appended.
- `EN_getnodeindex` and `EN_getlinkindex` find exactly what was added.
- EPANET's report header is not empty.
- A setter never answers with a warning. A trace ignores the initial quality.
- `EN_timetonextevent` names a tank by the index of its node.
- A pump's `EN_STATUS` is open exactly if EPANET's status is above `CLOSED`.
- `EN_open` takes the pattern named 1 as the default one if a file names none;
  `[DEMANDS]` replaces the demand in `[JUNCTIONS]`, and with neither the toolkit makes
  up a demand of zero. What an `OPEN` row or a range of links in `[STATUS]` does to a
  pump's speed is EPANET's and left out.
- A file the toolkit opens has rows its parser takes (`IsFile`): a demand has a base, a
  pattern and a category, a report row is a command `EN_setreport` takes, only nodes
  have coordinates, costs are numbers. `Constant` is a mode of a request's demand and
  no pattern of a file. That the price of all is not negative is assumed, no code
  here looks at its sign.
- `QThreadPool` starts a queued task on a free worker, `clear` takes away what did
  not start, `waitForDone` returns when no task runs; the Qt event loop delivers in
  order.

Abstractions that limit what a property says:

- `NothingLost` is about diagnostics. The status of a hydraulic failure that nobody
  has diagnosed when the run is found cancelled is not one.
- A report is a set of phases: the order of its lines is left out.
- `RunConfiguration` takes a successful build to leave an index for everything, which
  is `SuccessIsComplete`; all children see the sources of the one network. Of
  `retrieveInp` a failure at the very end, when the default pattern is asked for,
  returns a text that is not yet repaired, with a failing status; the properties are
  about the texts of a success.
- `ExportKeepsProject` allows one field to differ, the friction factor when its own
  options say off but carry qualifiers and a backend command turns it on
  (`FrictionQualifiersWereHeld`).
- Units and coordinates: `InpImport` knows whether a conversion can be made, not what
  it computes. A file with `QUALITY NONE` gives no child and nothing of quality, with
  no warning and a complete result, as the README of the repository says;
  `ImportMeansTheFile` therefore asks nothing of quality there.
- An entity of `NetworkBuilder` stands for its UUID and its ID at once.
- A cancellation that arrives between the last hydraulic step and the finalisation
  marks complete hydraulics `Partial`
  (`internal/multi_quality_run_executor.cpp:353`); `EpanetRun` models it, and the
  properties allow it, since the results were not `Valid` before.

## 7 Divergence from the documents

`msx_disabled`: `EPANET_BACKEND_SEMANTICS.md:107` says that disabled nodes and links
remain in the editable model but are omitted from the backend project and from
simulation results, and `EPANET_ADAPTER_CONTRACT.md:104` says the same.
`EpanetRunner::run` (`epanet_runner.cpp:396`) passes the network of the request to
the multi-species run, which looks up each of its nodes and links
(`internal/msx_project.cpp:591-629`) in a project that was opened from the INP text
of the enabled ones. With a disabled node or link the lookup fails and the
multi-species run ends with an error though no call went wrong. The run shows this as
a violation of `DisabledMakesNoDifference`.

`export_precision`: `src/README.md:63` says that generated `[DEMANDS]` rows "are
restored from the canonical model at full double precision",
`EPANET_CONFORMANCE_MATRIX.md:14` that the export "preserves demand rows at full
precision", and the comment at `internal/inp_exporter.cpp:537` gives numerical
precision as a reason of the repair. The code writes six decimals
(`internal/inp_exporter.cpp:193`), and the comment beside it (186-191) explains why.
The run shows a demand with seven decimals that comes back changed
(`DemandsKeepPrecision`); `ExportKeepsProject` states what does hold, an error below
half of the sixth decimal.

## 8 Not modelled

- Topology and numerics of the network validator and the lists of failures its other
  files compile: checks of one value or one pair at a time, without state. The models
  take what they accept as the precondition of preparation and build.
- Advisories: one comparison of two tank levels; the warning is one of those the
  preparation of `EpanetRun` may add.
- Coordinate transformation, resolvers, unit conversion, roughness and reaction
  formulas: floating-point arithmetic, out of reach of TLC and TLAPS.
- Printers, dummy networks, random generator, HTTP server, tests: no behaviour of
  the adapter.

## 9 Plan

Order of the modules, the most important behaviour first: the manager and its
service, the solvers, the multi-species stage, the request and its contract, the
preparation, the builder and the readers, the multi-species model, the configuration
with export and import. All of them are done.

What is left: the pairs of valves of the topology validator against the rules of
EPANET error 220.
