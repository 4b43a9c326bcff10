-------------------------- MODULE RunConfiguration --------------------------
(***************************************************************************)
(* How one project of the toolkit is configured, setting by setting, for   *)
(* EpanetRunner::retrieveInp and for the hydraulics and then every quality *)
(* child of EpanetRunner::run: initializeEpanetProject, the builder in one *)
(* step, configureEpanetHydraulicRun, configureEpanetReport,               *)
(* configureEpanetQualityRun and retrieveEpanetInpText.  The project is    *)
(* the only thing the children of a run share: what one of them sets, or   *)
(* failed to set, is there when the next one is configured.                *)
(*                                                                         *)
(* Each configurator is a plan, the sequence of its calls of the toolkit;  *)
(* a call sets one cell of the project.  Values are named by where they    *)
(* come from in the request.  A call fails when a check of the adapter     *)
(* says so, or because the toolkit refuses it, MaxFaults times at most.    *)
(* No setter answers with a warning: EPANET warns only when it solves.     *)
(***************************************************************************)
EXTENDS InpExport

CONSTANTS
    Requests,       (* what run() and retrieveInp() are asked for          *)
    MaxFaults       (* bounds the calls that fail                          *)

ASSUME FaultsAssumption == MaxFaults \in Nat

IsList(s) == s \in Seq(Items(s))

(* What validateEpanetNetwork has found nothing wrong with: references are *)
(* resolved.  Of the IDs AOWIS tries, one is not taken.                    *)
IsNetwork(n) ==
    /\ IsList(n.pipes) /\ IsList(n.places) /\ IsList(n.emitters)
    /\ {NoRef, Constant} \intersect n.patterns = {} /\ n.default \in {NoRef} \union n.patterns
    /\ \A j \in DOMAIN n.demands : IsList(n.demands[j]) /\ \A demand \in Items(n.demands[j]) :
          demand = [base |-> demand.base, pattern |-> demand.pattern, category |-> demand.category]
          /\ demand.base \in Int /\ demand.pattern \in {NoRef, Constant} \union n.patterns
    /\ IsList(n.labels)
    /\ ~(Items(ConstantIds) \subseteq n.patterns) /\ ~(Items(NoDefaultIds) \subseteq n.patterns)
    /\ IsReport(n.report)

Analyses == {"None", "Chemical", "WaterAge", "SourceTrace"}

ASSUME RequestsAssumption ==
    \A r \in Requests :
        /\ IsNetwork(r.network) /\ r.inp \in BOOLEAN /\ r.multiSpecies \in BOOLEAN
        /\ IsList(r.children) /\ \A options \in Items(r.children) : options.analysis \in Analyses

VARIABLES
    request,    (* the prepared network, the children, and which call      *)
    stage,      (* the function that is configuring, or what comes next    *)
    todo,       (* the calls it has still to make                          *)
    project,    (* the toolkit's project                                   *)
    failed,     (* the cells whose failure it has collected                *)
    child,      (* the quality child it is about; 0 before the first       *)
    solved,     (* history: the children solved, with the project's cells  *)
    text,       (* the INP text retrieved; NoRef if none was               *)
    faults

vars == <<request, stage, todo, project, failed, child, solved, text, faults>>

Network == request.network

-----------------------------------------------------------------------------
(* Calls of the toolkit and what they do.                                  *)

Call(cell, value, fine) == [cell |-> cell, value |-> value, fine |-> fine]
Set(name, value) == Call(<<name, NoRef>>, value, TRUE)
SetAll(names) == [k \in DOMAIN names |-> Set(names[k], <<names[k]>>)]

NewProject == [cells |-> <<>>, patterns |-> {}, demands |-> <<>>, default |-> NoRef,
               report |-> NewReport, rules |-> <<>>]

Formula == <<"HEADLOSSFORM", NoRef>>
Headloss(p) == p.cells[Formula]

Put(cells, cell, value) ==
    [c \in DOMAIN cells \union {cell} |-> IF c = cell THEN value ELSE cells[c]]

(* EN_init makes all new, the callback included; EN_setreport obeys a      *)
(* command; EN_setlinkvalue takes a roughness for one of the formula that  *)
(* is set; all other calls set their cell.                                 *)
Called(p, c) ==
    CASE c.cell[1] = "init" -> [NewProject EXCEPT !.cells = Put(@, Formula, c.value)]
      [] c.cell[1] = "report" -> [p EXCEPT !.report = SetReport(@, c.value)]
      [] c.cell[1] = "ROUGHNESS" -> [p EXCEPT !.cells = Put(@, c.cell, <<c.value, Headloss(p)>>)]
      [] OTHER -> [p EXCEPT !.cells = Put(@, c.cell, c.value)]

Configured(p, plan) ==
    LET after[n \in 0 .. Len(plan)] == IF n = 0 THEN p ELSE Called(after[n - 1], plan[n])
    IN  after[Len(plan)]

-----------------------------------------------------------------------------
(* initializeEpanetProject                                                 *)

TimeParameters ==
    <<"DURATION", "HYDSTEP", "QUALSTEP", "PATTERNSTEP", "PATTERNSTART",
      "REPORTSTEP", "REPORTSTART", "RULESTEP", "STARTTIME">>

(* Tried before it is converted to long                                    *)
SetTime(n, name) == Call(<<name, NoRef>>, <<name>>, name # n.tooLong)

EmitterPressureExponent(n) ==
    LET emitters == {k \in DOMAIN n.emitters : n.emitters[k] # NoRef}
    IN  IF emitters = {} THEN <<"0.5">>
        ELSE <<n.emitters[CHOOSE k \in emitters : \A i \in emitters : k <= i]>>

Callbacks == <<Set("reportcallbackuserdata", <<"collector">>), Set("reportcallback", <<"callback">>)>>

TimePlan(n) ==
    [k \in DOMAIN TimeParameters |-> SetTime(n, TimeParameters[k])] \o <<Set("STATISTIC", <<"report_statistic">>)>>

(* A negative number of extra trials is refused before the first option.   *)
OptionPlan(n) ==
    <<Set("demandmodel", <<"demand_model">>),
      Call(<<"TRIALS", NoRef>>, <<"TRIALS">>, n.unbalanced # "negative"), Set("ACCURACY", <<"ACCURACY">>),
      Set("UNBALANCED", IF n.unbalanced = "Stop" THEN <<-1>> ELSE <<n.unbalanced>>)>>
    \o SetAll(<<"CHECKFREQ", "MAXCHECK", "DAMPLIMIT", "HEADERROR", "FLOWCHANGE", "DEMANDMULT">>)
    \o <<Set("EMITEXPON", EmitterPressureExponent(n))>>
    \o SetAll(<<"EMITBACKFLOW", "SP_GRAVITY", "SP_VISCOS", "GLOBALEFFIC", "GLOBALPRICE", "DEMANDCHARGE">>)

(* What the collector does with the header meanwhile is in EpanetRun.      *)
InitializePlan(n) ==
    Callbacks \o <<Set("init", <<"HW">>)>> \o Callbacks
    \o <<Set("title", <<"title">>), Set("PRESS_UNITS", <<"METERS">>)>>
    \o TimePlan(n) \o OptionPlan(n)

(* What EpanetNetworkBuilder::build leaves when it succeeds, of what this  *)
(* module is about.  Pipes are built with a roughness of no meaning.       *)
Built(p, n) ==
    LET constant == InternalConstantDemandPatternId(n)
        built(d) == IF d.pattern = Constant THEN [d EXCEPT !.pattern = constant] ELSE d
        roughness == [k \in DOMAIN n.pipes |->
                        Call(<<"ROUGHNESS", n.pipes[k].id>>, <<"construction_roughness">>, TRUE)]
    IN  [Configured(p, roughness) EXCEPT
            !.patterns = n.patterns \union ({constant} \ {NoRef}), !.default = n.default,
            !.demands = [j \in DOMAIN n.demands |-> [k \in DOMAIN n.demands[j] |-> built(n.demands[j][k])]],
            !.rules = n.rules]

-----------------------------------------------------------------------------
(* configureEpanetHydraulicRun                                             *)

SetRoughness(n) ==
    [k \in DOMAIN n.pipes |-> Call(<<"ROUGHNESS", n.pipes[k].id>>, n.formula, TRUE)]

(* Mutant of HydraulicPlan: the pipes before their formula.                *)
HydraulicPlanPipesFirst(n) == SetRoughness(n) \o <<Set("HEADLOSSFORM", n.formula)>>

HydraulicPlan(n) == <<Set("HEADLOSSFORM", n.formula)>> \o SetRoughness(n)

(* configureEpanetReport                                                   *)
ReportPlan(n) ==
    LET commands == ReportCommands(n.report)
    IN  IF SelectionsResolve(n.report, n.nodes, n.links)
          THEN [k \in DOMAIN commands |-> Call(<<"report", NoRef>>, commands[k], TRUE)]
          ELSE <<Call(<<"selection", NoRef>>, NoRef, FALSE)>>

-----------------------------------------------------------------------------
(* configureQualityAnalysis.  Junctions, reservoirs and tanks are in this  *)
(* order in the network's places.                                          *)

(* Mutant of HasInitialNodeQuality: water age starts with what is there.   *)
OnlyChemicalHasInitialNodeQuality(analysis) == analysis = "Chemical"

HasInitialNodeQuality(analysis) == analysis \in {"Chemical", "WaterAge"}

SetInitial(options, place) ==
    IF HasInitialNodeQuality(options.analysis)
      THEN <<Call(<<"INITQUAL", place.id>>, <<options.analysis, place.id>>, TRUE)>> ELSE <<>>

(* configure_source: the pattern is looked up after two calls were made.   *)
SetSource(n, place) ==
    IF place.source = "None" THEN <<>>
    ELSE <<Call(<<"SOURCETYPE", place.id>>, <<place.source>>, TRUE),
           Call(<<"SOURCEQUAL", place.id>>,
                <<IF place.source = "MassBooster" THEN "mass flow" ELSE "concentration">>, TRUE),
           Call(<<"SOURCEPAT", place.id>>, <<place.pattern>>, place.pattern \in {NoRef} \union n.patterns)>>

SetMixing(place) ==
    IF place.kind # "Tank" THEN <<>>
    ELSE <<Call(<<"MIXMODEL", place.id>>, <<"mixing_model">>, TRUE),
           Call(<<"MIXFRACTION", place.id>>, <<"mixing_fraction">>, TRUE)>>

QualityTolerance(options) ==
    CASE options.analysis \in {"Chemical", "None"} -> <<"chemical_tolerance">>
      [] options.analysis = "WaterAge" -> <<"water_age_tolerance">>
      [] options.analysis = "SourceTrace" -> <<"source_trace_tolerance">>

TraceNode(options) == IF options.analysis = "SourceTrace" THEN options.trace ELSE NoRef

AnalysisPlan(n, options) ==
    <<Call(<<"qualtype", NoRef>>, <<options.analysis, TraceNode(options)>>,
           TraceNode(options) \in {NoRef} \union n.nodes),
      Set("TOLERANCE", QualityTolerance(options)), Set("SP_DIFFUS", <<options.diffusivity>>)>>
    \o SetAll(<<"BULKORDER", "WALLORDER", "TANKORDER", "CONCENLIMIT">>)
    \o Joined([k \in DOMAIN n.places |->
         SetInitial(options, n.places[k]) \o SetSource(n, n.places[k]) \o SetMixing(n.places[k])])

(* validateQualityRun: a trace node that is there, tolerances and a         *)
(* diffusivity that are numbers, a chemical with a name                    *)
ValidQualityRun(n, options) ==
    /\ options.analysis = "SourceTrace" => options.trace \in n.nodes
    /\ options.usable

(* effectivePipeWallReactionCoefficient                                    *)
WallCoefficient(n, pipe) ==
    CASE pipe.override -> <<"own", pipe.id>>
      [] ~pipe.override /\ ~n.correlated -> <<"global">>
      [] ~pipe.override /\ n.correlated -> <<"correlated", n.formula, pipe.id>>

(* configureQualityReactions                                               *)
ReactionPlan(n) ==
    Joined([k \in DOMAIN n.pipes |->
        <<Call(<<"KBULK", n.pipes[k].id>>, IF n.pipes[k].override THEN <<"own">> ELSE <<"global">>, TRUE),
          Call(<<"KWALL", n.pipes[k].id>>, WallCoefficient(n, n.pipes[k]), TRUE)>>])
    \o LET tanks == Those(n.places, {k \in DOMAIN n.places : n.places[k].kind = "Tank"})
       IN  [k \in DOMAIN tanks |-> Call(<<"TANK_KBULK", tanks[k].id>>, <<"effective">>, TRUE)]

-----------------------------------------------------------------------------
(* What one INP file cannot say                                            *)
Rejected == request.inp /\ (request.multiSpecies \/ Len(request.children) > 1)

Init ==
    /\ request \in Requests
    /\ stage = IF Rejected THEN "returned" ELSE "initialize"
    /\ todo = IF Rejected THEN <<>> ELSE InitializePlan(Network)
    /\ project = NewProject
    /\ failed = <<>>
    /\ child = 0
    /\ solved = {}
    /\ text = NoRef
    /\ faults = 0

(* A call succeeds.                                                        *)
CallSucceeds ==
    /\ todo # <<>> /\ Head(todo).fine
    /\ project' = Called(project, Head(todo))
    /\ todo' = Tail(todo)
    /\ UNCHANGED <<request, stage, failed, child, solved, text, faults>>

(* Only the pipes of the hydraulic configuration are gone through to the   *)
(* last; everywhere else the function returns with its first failure.      *)
CallFails ==
    /\ todo # <<>>
    /\ \/ ~Head(todo).fine /\ UNCHANGED faults
       \/ Head(todo).fine /\ faults < MaxFaults /\ faults' = faults + 1
    /\ failed' = Append(failed, Head(todo).cell)
    /\ todo' = IF Head(todo).cell[1] = "ROUGHNESS" THEN Tail(todo) ELSE <<>>
    /\ UNCHANGED <<request, stage, project, child, solved, text>>

Ready(s) == stage = s /\ todo = <<>>
Begin(s, plan) == stage' = s /\ todo' = plan

GiveUp ==
    /\ stage' = "returned"
    /\ UNCHANGED <<request, todo, project, failed, child, solved, text>>

Build ==
    /\ Ready("initialize") /\ failed = <<>>
    /\ project' = Built(project, Network)
    /\ Begin("hydraulics", HydraulicPlan(Network))
    /\ UNCHANGED <<request, failed, child, solved, text, faults>>

(* What the builder half built is never used.                              *)
BuildFails ==
    /\ Ready("initialize") /\ failed = <<>> /\ faults < MaxFaults
    /\ faults' = faults + 1
    /\ GiveUp

Abandon ==
    /\ stage \in {"initialize", "hydraulics", "report"} \/ (stage = "reactions" /\ request.inp)
    /\ todo = <<>> /\ failed # <<>>
    /\ UNCHANGED faults
    /\ GiveUp

(* The solver of run() begins with the report.                             *)
Solve ==
    /\ Ready("hydraulics") /\ failed = <<>> /\ ~request.inp
    /\ Begin("report", ReportPlan(Network))
    /\ UNCHANGED <<request, project, failed, child, solved, text, faults>>

(* The one child of retrieveInp, or no analysis                            *)
InpOptions ==
    IF request.children = <<>>
      THEN [analysis |-> "None", trace |-> NoRef, diffusivity |-> "1", usable |-> TRUE]
      ELSE request.children[1]

ConfigureForInp ==
    /\ Ready("hydraulics") /\ failed = <<>> /\ request.inp
    /\ IF ValidQualityRun(Network, InpOptions)
         THEN Begin("analysis", AnalysisPlan(Network, InpOptions))
         ELSE stage' = "returned" /\ UNCHANGED todo
    /\ UNCHANGED <<request, project, failed, child, solved, text, faults>>

ReportForInp ==
    /\ Ready("reactions") /\ failed = <<>> /\ request.inp
    /\ Begin("report", ReportPlan(Network))
    /\ UNCHANGED <<request, project, failed, child, solved, text, faults>>

Retrieve ==
    /\ Ready("report") /\ failed = <<>>
    /\ text' = RetrievedText(project, Network)
    /\ stage' = IF request.inp THEN "returned" ELSE "children"
    /\ UNCHANGED <<request, todo, project, failed, child, solved, faults>>

(* EN_getoption, the directory, EN_saveinpfile or the file; or the look    *)
(* for an unused ID, which leaves a text with a status of failure: run()   *)
(* clears it, retrieveInp returns it.                                      *)
RetrieveFails ==
    /\ Ready("report") /\ failed = <<>> /\ faults < MaxFaults
    /\ faults' = faults + 1
    /\ GiveUp

(* The loop of EpanetMultiQualityRunExecutor::run over its children; one   *)
(* without an analysis is skipped, one that is not valid is an error.      *)
NextChild ==
    /\ stage = "children" /\ child < Len(request.children)
    /\ child' = child + 1
    /\ failed' = <<>>
    /\ LET options == request.children[child + 1]
       IN  IF options.analysis = "None" \/ ~ValidQualityRun(Network, options)
             THEN UNCHANGED <<stage, todo>>
             ELSE Begin("analysis", AnalysisPlan(Network, options))
    /\ UNCHANGED <<request, project, solved, text, faults>>

(* The reactions are configured whether or not the analysis was.           *)
AnalysisEnds ==
    /\ Ready("analysis")
    /\ Begin("reactions", ReactionPlan(Network))
    /\ UNCHANGED <<request, project, failed, child, solved, text, faults>>

SolveChild ==
    /\ Ready("reactions") /\ ~request.inp /\ failed = <<>>
    /\ solved' = solved \union {[child |-> child, cells |-> project.cells]}
    /\ stage' = "children"
    /\ UNCHANGED <<request, todo, project, failed, child, text, faults>>

ChildFails ==
    /\ Ready("reactions") /\ ~request.inp /\ failed # <<>>
    /\ stage' = "children"
    /\ UNCHANGED <<request, todo, project, failed, child, solved, text, faults>>

(* cancellationRequested, before a child is configured                     *)
Cancelled ==
    /\ stage = "children" /\ child < Len(request.children)
    /\ stage' = "returned"
    /\ UNCHANGED <<request, todo, project, failed, child, solved, text, faults>>

Next ==
    \/ CallSucceeds \/ CallFails \/ Build \/ BuildFails \/ Abandon \/ Solve
    \/ ConfigureForInp \/ ReportForInp \/ Retrieve \/ RetrieveFails
    \/ NextChild \/ AnalysisEnds \/ SolveChild \/ ChildFails \/ Cancelled

Spec == Init /\ [][Next]_vars

-----------------------------------------------------------------------------
(* Properties. *)

(* Where the hydraulics are configured with no failure to report, every    *)
(* pipe has the roughness that belongs to the requested formula, given     *)
(* when the toolkit already had that formula: a roughness is read in its   *)
(* unit.  A pipe of which this is not so has been reported, unless it has  *)
(* still to come (epanet_hydraulic_run_configurator.cpp:85-149).           *)
RoughnessFitsFormula ==
    stage \notin {"initialize", "returned"} =>
        \/ <<"HEADLOSSFORM", NoRef>> \in Items(failed) \union {todo[k].cell : k \in DOMAIN todo}
        \/ \A pipe \in Items(Network.pipes) :
              \/ project.cells[<<"ROUGHNESS", pipe.id>>] = <<Network.formula, Network.formula>>
              \/ <<"ROUGHNESS", pipe.id>> \in Items(failed) \union {todo[k].cell : k \in DOMAIN todo}

(* What a project holds when this child is all that it was configured for. *)
Alone(n, options) ==
    LET built == Built(Configured(NewProject, InitializePlan(n)), n)
    IN  Configured(built, HydraulicPlan(n) \o AnalysisPlan(n, options) \o ReactionPlan(n)).cells

(* A trace starts from nothing, whatever initial quality is set.           *)
Heeds(options, cell) == options.analysis = "SourceTrace" => cell[1] # "INITQUAL"

(* Every child that is solved is solved in the project it would have alone *)
(* and in no other order: no setting of an earlier child is left over,     *)
(* not even of one whose configuration broke off in the middle, and none   *)
(* of its own is missing (the "isolated equivalence" and "child failure    *)
(* isolation" of EPANET_CONFORMANCE.md:93).                                *)
ChildrenAreIsolated ==
    \A s \in solved :
        LET options == request.children[s.child]
            alone == Alone(Network, options)
        IN  \A cell \in DOMAIN s.cells \union DOMAIN alone :
                Heeds(options, cell) => /\ cell \in DOMAIN s.cells \intersect DOMAIN alone
                                        /\ s.cells[cell] = alone[cell]

(* What a report shows of a field: of one that is off, nothing.            *)
Shown(field) == IF field.enabled THEN field ELSE PlainField
Selected(chosen) == IF chosen.mode = "LIST" THEN chosen ELSE [chosen EXCEPT !.ids = {}]

(* The one field for which the text says what the request has and not what *)
(* the toolkit got: the friction factor when its own options say it is off *)
(* but carry qualifiers, which configureEpanetReport does not pass on, and *)
(* a backend command turns it on.                                          *)
FrictionQualifiersWereHeld ==
    LET friction == Network.report.fields["F-FACTOR"]
    IN  /\ ~friction.enabled /\ EffectiveFrictionReportField(Network.report).enabled
        /\ friction # [friction EXCEPT !.precision = NoRef, !.below = NoRef, !.above = NoRef]

(* A retrieved text, opened again, is the network: every demand has the    *)
(* pattern and the category it has there, a constant one no pattern of the *)
(* network; every fill time is read as it was meant, every label that can  *)
(* has its anchor.  This needs the sentinel: with no default pattern the   *)
(* toolkit would take the pattern named 1 (epanet_inp_exporter.cpp:543).   *)
NetworkKept ==
    /\ \A j \in DOMAIN Network.demands : \A k \in DOMAIN Network.demands[j] :
          LET meant == Network.demands[j][k]
              row == text.demands[j][k]
              pattern == ReopenedPattern(text, row)
          IN  /\ row.category = meant.category
              /\ row.base - meant.base \in -5 .. 5
              /\ row.pattern \in {NoRef} \union text.patterns
              /\ CASE meant.pattern = Constant -> pattern \notin Network.patterns
                   [] meant.pattern = NoRef -> pattern = Network.default
                   [] OTHER -> pattern = meant.pattern
    /\ \A r \in DOMAIN Network.rules : text.rules[r] = [form |-> "hours", value |-> Network.rules[r]]
    /\ \A k \in DOMAIN Network.labels :
          text.map.labels[k] = IF Network.labels[k] \in Network.nodes THEN Network.labels[k] ELSE NoRef

(* And it has the report the project was configured for: selections,       *)
(* flags, each field with its precision and limits, and what only backend  *)
(* commands can say, though EN_saveinpfile writes neither FILE nor         *)
(* F-FACTOR (epanet_inp_exporter.cpp:567-576).                             *)
ReportKept ==
    FrictionQualifiersWereHeld
    \/ LET again == ReopenedReport(text)
       IN  /\ again.flags = project.report.flags
           /\ \A word \in {"NODES", "LINKS"} : Selected(again.chosen[word]) = Selected(project.report.chosen[word])
           /\ \A word \in Items(ReportFields) :
                 Shown(again.fields[word]) = Shown(project.report.fields[word])

(* Both, of every text that is retrieved: EN_saveinpfile loses part of a   *)
(* project, and the exporter's repairs of its text must put it back        *)
(* without touching what was right (epanet_inp_exporter.cpp:481-586).      *)
ExportKeepsProject == text # NoRef => NetworkKept /\ ReportKept

(* Doubted: README.md:63 says that the exported [DEMANDS] rows are         *)
(* restored "at full double precision"; the exporter writes six decimals   *)
(* (epanet_inp_exporter.cpp:193).                                          *)
DemandsKeepPrecision ==
    text # NoRef =>
        \A j \in DOMAIN Network.demands : \A k \in DOMAIN Network.demands[j] :
            text.demands[j][k].base = Network.demands[j][k].base
=============================================================================
