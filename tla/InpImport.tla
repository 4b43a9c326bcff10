------------------------------ MODULE InpImport ------------------------------
(***************************************************************************)
(* importEpanetInp: an INP file becomes a request again.  The file is read *)
(* twice.  The toolkit opens it, and what it holds is asked for, one       *)
(* section after the other; but the toolkit forgets what was said and what *)
(* it made up itself, so parts of the text are read once more and matched  *)
(* with its answers, by place or by ID: which demands, reactions and       *)
(* control actions were written, the speeds of pumps, the report.          *)
(*                                                                         *)
(* The file is one that retrieveInp returned, or one from elsewhere.  It   *)
(* is a record of its sections, as in InpExport.  The first failure ends   *)
(* the import; what cannot be said in a request is left out, with a        *)
(* warning, and the result is not complete.  Conversions of units are not  *)
(* modelled, only where one cannot be made.                                *)
(***************************************************************************)
EXTENDS RunConfiguration

CONSTANT Files      (* files that retrieveInp did not write                *)

IsDemandRow(row) ==
    /\ row = [base |-> row.base, pattern |-> row.pattern, category |-> row.category]
    /\ row.pattern # Constant

(* What the toolkit opens: rows that its parser takes, in the sections     *)
(* where the import depends on it; only nodes have points.  That the price *)
(* of all is not negative is assumed: no code here looks at its sign.      *)
IsFile(f) ==
    /\ \A j \in DOMAIN f.demands :
          /\ IsList(f.demands[j]) /\ \A row \in Items(f.demands[j]) : IsDemandRow(row)
          /\ f.fields[j] # NoRef => IsDemandRow(f.fields[j])
    /\ Constant \notin f.patterns /\ f.price \in Nat
    /\ IsList(f.links) /\ \A link \in Items(f.links) : link.kind = "PUMP" => link.cost \in Int
    /\ IsList(f.status) /\ IsList(f.map.labels)
    /\ f.crs \in {NoRef, "supported", "unsupported"} /\ f.placed \subseteq f.nodes
    /\ IsList(f.report) /\ \A row \in Items(f.report) : IsCommand(row)

ASSUME FilesAssumption == \A f \in Files : f.opens => IsFile(f)

VARIABLES
    file,           (* the file imported; NoRef if none is                 *)
    section,        (* the section it has come to, "idle" or "done"        *)
    result          (* EpanetResultImport: ok, complete and the network    *)

importVars == <<file, section, result>>

Sections ==
    <<"open", "settings", "patterns", "curves", "options", "nodes", "links", "geometry",
      "quality", "controls", "rules", "metadata", "report">>

-----------------------------------------------------------------------------
(* What the toolkit holds of a file it has opened.                         *)

NoDemand == [base |-> 0, pattern |-> NoRef, category |-> ""]

(* [DEMANDS] replaces what [JUNCTIONS] says; with neither the toolkit      *)
(* makes up a demand of zero.                                              *)
NativeDemands(f, j) ==
    CASE f.demands[j] # <<>> -> f.demands[j]
      [] f.demands[j] = <<>> /\ f.fields[j] # NoRef -> <<f.fields[j]>>
      [] OTHER -> <<NoDemand>>

(* [STATUS] closes a pump or gives it a speed, row after row.              *)
SetPump(pump, link, row) ==
    CASE row.id = link.id /\ row.word = "CLOSED" -> [pump EXCEPT !.open = FALSE]
      [] row.id = link.id /\ row.word = "SPEED" -> [speed |-> row.speed, open |-> row.speed > 0]
      [] OTHER -> pump

SpeedInPumps(link) == IF link.speed = NoRef THEN 10 ELSE link.speed

NativePump(f, link) ==
    LET after[n \in 0 .. Len(f.status)] ==
          IF n = 0 THEN [speed |-> SpeedInPumps(link), open |-> TRUE]
          ELSE SetPump(after[n - 1], link, f.status[n])
    IN  after[Len(f.status)]

(* The last of the rows at the places S decides.                           *)
LastAt(S) == CHOOSE k \in S : \A i \in S : i <= k
Said(f, word) == {k \in DOMAIN f.reactions : f.reactions[k].word = word}
LastSaid(f, S, otherwise) == IF S = {} THEN otherwise ELSE f.reactions[LastAt(S)].value

(* The coefficient of a pipe or tank: its own, or that of all; the wall's  *)
(* perhaps from its roughness.                                             *)
NativeCoefficient(f, word, id) ==
    LET own == {k \in Said(f, word) : id \in f.reactions[k].ids}
        global == LastSaid(f, Said(f, IF word = "WALL" THEN "GLOBAL WALL" ELSE "GLOBAL BULK"), 0)
        factor == LastSaid(f, Said(f, "ROUGHNESS"), 0)
    IN  IF own # {} THEN <<"value", f.reactions[LastAt(own)].value>>
        ELSE IF word = "WALL" /\ factor # 0 THEN <<"correlated", factor>> ELSE <<"value", global>>

(* What a pump pays: its own price or that of all, with a pattern.         *)
EffectivePrice(cost, pattern, global) ==
    LET base == IF cost > 0 THEN cost ELSE global
    IN  IF base = 0 THEN <<0, NoRef>> ELSE <<base, pattern>>

(* What is in force where a report says nothing                            *)
FlagOf(report, word) ==
    IF report.flags[word] # <<>> THEN report.flags[word]
    ELSE CASE word = "PAGESIZE" -> <<"IS", 0>>
           [] word \in {"STATUS", "ENERGY"} -> <<"NO", NoRef>>
           [] word \in {"SUMMARY", "MESSAGES"} -> <<"YES", NoRef>>
           [] word = "FILE" -> <<>>

-----------------------------------------------------------------------------
(* What each section makes of the network n it finds, and how: "fine",     *)
(* "lossy" with a warning, or "failed".                                    *)

Fine(n) == [verdict |-> "fine", network |-> n]
FineIf(fine, n) == [verdict |-> IF fine THEN "fine" ELSE "failed", network |-> n]
LossyIf(lossy, n) == [verdict |-> IF lossy THEN "lossy" ELSE "fine", network |-> n]

(* A curve without a point is refused.                                     *)
ImportCurves(f, n) == FineIf(\A curve \in f.curves : curve.points > 0, [n EXCEPT !.curves = f.curves])

(* importHydraulicOptions, importEnergyOptions                             *)
ImportOptions(f, n) == Fine([n EXCEPT !.default = ReopenedDefault(f), !.price = f.price])

(* readExplicitJunctionDemandIds                                           *)
ExplicitDemands(f) == {j \in DOMAIN f.demands : f.fields[j] # NoRef \/ f.demands[j] # <<>>}

(* readPumpInitialSpeedRatios: [PUMPS], then the numbers of [STATUS]       *)
PumpSpeed(f, link) ==
    LET numbers == {k \in DOMAIN f.status : f.status[k].id = link.id /\ f.status[k].word = "SPEED"}
    IN  IF numbers = {} THEN SpeedInPumps(link) ELSE f.status[LastAt(numbers)].speed

(* Mutant of ImportDemand: the default pattern is not said.                *)
ImportDemandAsIs(n, demand) ==
    [demand EXCEPT !.pattern = IF @ # NoRef THEN @ ELSE Constant]

(* importJunction: the pattern a demand has only by default is said.       *)
ImportDemand(n, demand) ==
    [demand EXCEPT !.pattern = IF @ # NoRef THEN @ ELSE IF n.default # NoRef THEN n.default ELSE Constant]

ImportJunction(f, n, j) ==
    IF Len(NativeDemands(f, j)) = 1 /\ j \notin ExplicitDemands(f) THEN <<>>
    ELSE [k \in DOMAIN NativeDemands(f, j) |-> ImportDemand(n, NativeDemands(f, j)[k])]

ImportNodes(f, n) ==
    Fine([n EXCEPT !.nodes = f.nodes, !.demands = [j \in DOMAIN f.demands |-> ImportJunction(f, n, j)]])

HasCurve(n, link, type) == \E curve \in n.curves : curve.id = link.curve /\ curve.type = type

(* The number of its points says what kind of pump it is.                  *)
HeadCurve(points) ==
    CASE points = 1 -> "OnePointCurve" [] points = 3 -> "ThreePointCurve" [] points \notin {1, 3} -> "MultiPointCurve"
Definition(n, link) ==
    IF link.power THEN "ConstantPower" ELSE HeadCurve((CHOOSE curve \in n.curves : curve.id = link.curve).points)

(* importPump, importValve, importPipe: a curve must be there and have the *)
(* type its use asks for.                                                  *)
Resolves(n, link) ==
    CASE link.kind = "PUMP" -> link.power \/ HasCurve(n, link, "PUMP")
      [] link.kind = "GPV" -> HasCurve(n, link, "HEADLOSS")
      [] link.kind = "PCV" -> link.curve = NoRef \/ HasCurve(n, link, "VALVE")
      [] OTHER -> TRUE

(* A pattern of prices needs a price, its own or that of all.              *)
ImportPrice(n, link) ==
    LET base == IF link.cost > 0 THEN link.cost ELSE n.price
    IN  CASE link.pricePattern # NoRef /\ base > 0 -> [type |-> "Pattern", cost |-> base, pattern |-> link.pricePattern]
          [] link.pricePattern = NoRef /\ link.cost > 0 -> [type |-> "Constant", cost |-> link.cost, pattern |-> NoRef]
          [] OTHER -> [type |-> "Global", cost |-> 0, pattern |-> NoRef]
PatternOmitted(n, link) == link.pricePattern # NoRef /\ ImportPrice(n, link).type = "Global"

ImportPump(f, n, link) ==
    [id |-> link.id, definition |-> Definition(n, link), price |-> ImportPrice(n, link),
     speed |-> PumpSpeed(f, link), open |-> NativePump(f, link).open]

PumpLinks(f) == Those(f.links, {k \in DOMAIN f.links : f.links[k].kind = "PUMP"})

ImportLinks(f, n) ==
    LET pumps == PumpLinks(f)
    IN  IF \E link \in Items(f.links) : ~Resolves(n, link) THEN FineIf(FALSE, n)
        ELSE LossyIf(\E pump \in Items(pumps) : PatternOmitted(n, pump),
                     [n EXCEPT !.links = {link.id : link \in Items(f.links)},
                               !.pumps = [k \in DOMAIN pumps |-> ImportPump(f, n, pumps[k])]])

KindOf(f, id) == (CHOOSE link \in Items(f.links) : link.id = id).kind

-----------------------------------------------------------------------------
(* importEpanetInpGeometry *)

(* makeGeometryTransform: a declared coordinate reference comes first, and *)
(* is followed only if it is known and fits every point.                   *)
TransformMode(f) ==
    CASE f.crs = "supported" /\ f.inRange -> "Epsg"
      [] f.crs = NoRef /\ f.map.units = "DEGREES" /\ f.inRange -> "DirectDegrees"
      [] OTHER -> "NullIsland"

TransformWarns(f) ==
    \/ f.crs = "unsupported" \/ (f.crs = "supported" /\ f.map.units \notin {NoRef, "METERS"})
    \/ ~f.inRange /\ (f.crs = "supported" \/ f.map.units = "DEGREES")

(* A node without a point gets one, an anchor that is not there is none.   *)
ImportGeometry(f, n) ==
    LossyIf(TransformWarns(f) \/ ~(Items(f.map.labels) \subseteq {NoRef} \union n.nodes),
            [n EXCEPT
                !.places = [v \in n.nodes |-> IF v \in f.placed THEN TransformMode(f) ELSE "generated"],
                !.labels = [k \in DOMAIN f.map.labels |->
                              IF f.map.labels[k] \in n.nodes THEN f.map.labels[k] ELSE NoRef],
                !.backdrop = f.map.backdrop])

-----------------------------------------------------------------------------
(* importWaterQualityConfiguration *)

(* readReactionSourceMetadata: which pipes and tanks have a row, for       *)
(* themselves or in a range                                                *)
Mentioned(f, word) == UNION {f.reactions[k].ids : k \in Said(f, word)}

(* What a pipe or tank holds, and whether that is its own                  *)
ImportReaction(f, word, ids) ==
    [id \in ids |-> [coefficient |-> NativeCoefficient(f, word, id), override |-> id \in Mentioned(f, word)]]

ImportQualityReactions(f) ==
    [bulk |-> LastSaid(f, Said(f, "GLOBAL BULK"), 0), wall |-> LastSaid(f, Said(f, "GLOBAL WALL"), 0),
     roughness |-> LastSaid(f, Said(f, "ROUGHNESS"), 0),
     pipeBulk |-> ImportReaction(f, "BULK", {link.id : link \in {l \in Items(f.links) : l.kind = "PIPE"}}),
     pipeWall |-> ImportReaction(f, "WALL", {link.id : link \in {l \in Items(f.links) : l.kind = "PIPE"}}),
     tanks |-> ImportReaction(f, "TANK", f.tanks)]

(* Initial quality, sources and reactions only where the analysis has any; *)
(* without an analysis nothing of quality is imported, and no warning.     *)
ImportQuality(f, n) ==
    IF f.quality.analysis = "None" THEN Fine(n)
    ELSE FineIf((f.quality.analysis = "Chemical" => f.quality.units) /\ TraceNode(f.quality) \in {NoRef} \union n.nodes,
                [n EXCEPT
                    !.children = <<[analysis |-> f.quality.analysis, trace |-> TraceNode(f.quality)]>>,
                    !.mixing = f.tanks,
                    !.initial = IF HasInitialNodeQuality(f.quality.analysis) THEN f.quality.initial ELSE {},
                    !.sources = IF f.quality.analysis = "Chemical" THEN f.quality.sources ELSE {},
                    !.reactions = IF f.quality.analysis = "Chemical" THEN ImportQualityReactions(f) ELSE NoRef])

-----------------------------------------------------------------------------
(* importSimpleControls: the action is that of the row in the same place.  *)

(* assignControlLinkSetting                                                *)
TakesSetting(kind) == kind \in {"PUMP", "PRV", "PSV", "PBV", "FCV", "TCV", "PCV"}

ImportControl(native, action) ==
    [link |-> native.link, action |-> action, setting |-> IF action = "SETTING" THEN native.setting ELSE NoRef]

ImportControls(f, n) ==
    LET fits(k) == f.actions[k] = "SETTING" => TakesSetting(KindOf(f, f.controls[k].link))
    IN  IF Len(f.actions) # Len(f.controls) THEN FineIf(FALSE, n)
        ELSE FineIf(\A k \in DOMAIN f.controls : fits(k),
                    [n EXCEPT !.controls = [k \in DOMAIN f.controls |-> ImportControl(f.controls[k], f.actions[k])]])

(* importRules: a rule with one part that cannot be said is left out.      *)
Representable(f, part) ==
    CASE part.variable = "POWER" -> FALSE
      [] part.variable = "SETTING" -> TakesSetting(KindOf(f, part.link))
      [] OTHER -> TRUE
RuleRepresentable(f, rule) == \A part \in Items(rule.premises \o rule.then \o rule.else) : Representable(f, part)

ImportRules(f, n) ==
    LET whole == Those(f.rules, {k \in DOMAIN f.rules : RuleRepresentable(f, f.rules[k])})
    IN  LossyIf(whole # f.rules, [n EXCEPT !.rules = whole])

-----------------------------------------------------------------------------
(* importEpanetInpReport, row by row, and importReportStatus, which asks   *)
(* the toolkit once more.                                                  *)

DefaultReport ==
    [page |-> 0, status |-> "NO", summary |-> "YES", messages |-> "YES", energy |-> "NO",
     nodes |-> [mode |-> "NONE", ids |-> {}], links |-> [mode |-> "NONE", ids |-> {}],
     fields |-> DefaultFields, backend |-> <<>>]

(* setReportSelection: the list is kept when the mode changes.             *)
ImportSelection(selection, row, ids) ==
    [mode |-> row.verb, ids |-> IF row.verb = "LIST" THEN selection.ids \union (row.value \intersect ids) ELSE selection.ids]

(* isPhysicalThresholdField; the limits of the others become commands.     *)
PhysicalThresholdFields == Items(ReportFields) \ {"QUALITY", "STATE", "SETTING", "REACTION"}

ImportField(field, row) ==
    CASE row.verb \in {"YES", "NO"} -> [field EXCEPT !.enabled = (row.verb = "YES")]
      [] row.verb = "PRECISION" -> [field EXCEPT !.enabled = TRUE, !.precision = row.value]
      [] row.verb = "BELOW" -> [field EXCEPT !.below = row.value]
      [] row.verb = "ABOVE" -> [field EXCEPT !.above = row.value]

(* The settings of different links have different units.                   *)
LimitLost(f, row) == row.word = "SETTING" /\ row.verb \in {"BELOW", "ABOVE"} /\ ~f.canonical
AsCommand(row) ==
    row.word = "FILE" \/ (row.verb \in {"BELOW", "ABOVE"} /\ row.word \notin PhysicalThresholdFields)

ImportReportRow(f, n, options, row) ==
    CASE LimitLost(f, row) -> options
      [] AsCommand(row) /\ ~LimitLost(f, row) -> [options EXCEPT !.backend = Append(@, row)]
      [] row.word \in DOMAIN options.fields /\ ~AsCommand(row) -> [options EXCEPT !.fields[row.word] = ImportField(@, row)]
      [] row.word = "NODES" -> [options EXCEPT !.nodes = ImportSelection(@, row, n.nodes)]
      [] row.word = "LINKS" -> [options EXCEPT !.links = ImportSelection(@, row, n.links)]
      [] row.word = "PAGESIZE" -> [options EXCEPT !.page = row.value]
      [] row.word = "STATUS" -> [options EXCEPT !.status = row.verb]
      [] row.word = "SUMMARY" -> [options EXCEPT !.summary = row.verb]
      [] row.word = "MESSAGES" -> [options EXCEPT !.messages = row.verb]
      [] row.word = "ENERGY" -> [options EXCEPT !.energy = row.verb]

Unresolved(n, row) ==
    row.verb = "LIST" /\ ~(row.value \subseteq IF row.word = "NODES" THEN n.nodes ELSE n.links)

ImportReportRows(f, n) ==
    LET after[k \in 0 .. Len(f.report)] ==
          IF k = 0 THEN DefaultReport ELSE ImportReportRow(f, n, after[k - 1], f.report[k])
    IN  after[Len(f.report)]

ImportReport(f, n) ==
    LET said == ImportReportRows(f, n)
        options == [said EXCEPT !.status = FlagOf(ReopenedReport(f), "STATUS")[1]]
    IN  LossyIf(\E row \in Items(f.report) : LimitLost(f, row) \/ Unresolved(n, row),
                [n EXCEPT !.report = IF f.quality.analysis = "None"
                                       THEN [options EXCEPT !.fields["QUALITY"].enabled = FALSE] ELSE options])

-----------------------------------------------------------------------------
(* importEpanetInp *)

NewNetwork ==
    [settings |-> NoRef, patterns |-> {}, curves |-> {}, default |-> NoRef, price |-> 0, nodes |-> {}, links |-> {},
     demands |-> <<>>, pumps |-> <<>>, places |-> <<>>, labels |-> <<>>, backdrop |-> NoRef,
     children |-> <<>>, mixing |-> {}, initial |-> {}, sources |-> {}, reactions |-> NoRef, controls |-> <<>>,
     rules |-> <<>>, metadata |-> NoRef, report |-> DefaultReport]
NothingImported == [ok |-> TRUE, complete |-> TRUE, network |-> NewNetwork]

Imported(s, f, n) ==
    CASE s = "open" -> FineIf(f.opens, n)
      [] s = "settings" -> Fine([n EXCEPT !.settings = f.settings])
      [] s = "patterns" -> Fine([n EXCEPT !.patterns = f.patterns])
      [] s = "curves" -> ImportCurves(f, n)
      [] s = "options" -> ImportOptions(f, n)
      [] s = "nodes" -> ImportNodes(f, n)
      [] s = "links" -> ImportLinks(f, n)
      [] s = "geometry" -> ImportGeometry(f, n)
      [] s = "quality" -> ImportQuality(f, n)
      [] s = "controls" -> ImportControls(f, n)
      [] s = "rules" -> ImportRules(f, n)
      [] s = "metadata" -> Fine([n EXCEPT !.metadata = f.settings])
      [] s = "report" -> ImportReport(f, n)

(* A retrieved text as a file.  Its rules are those with a fill time.      *)
AsFile(t, n, options) ==
    [opens |-> TRUE, unreadable |-> {}, canonical |-> TRUE, settings |-> "settings",
     pattern |-> t.pattern, patterns |-> t.patterns, curves |-> {}, price |-> 0,
     nodes |-> n.nodes, demands |-> t.demands, fields |-> [j \in DOMAIN t.demands |-> NoRef], tanks |-> {},
     links |-> [k \in DOMAIN n.pipes |-> [id |-> n.pipes[k].id, kind |-> "PIPE"]], status |-> <<>>,
     map |-> t.map, crs |-> NoRef, inRange |-> TRUE, placed |-> n.nodes,
     quality |-> [analysis |-> options.analysis, trace |-> options.trace, units |-> TRUE, initial |-> n.nodes, sources |-> {}],
     reactions |-> <<>>, controls |-> <<>>, actions |-> <<>>,
     rules |-> [r \in DOMAIN t.rules |-> [premises |-> <<[variable |-> "FILLTIME", value |-> t.rules[r].value]>>,
                                          then |-> <<>>, else |-> <<>>]],
     report |-> t.report]

(* importInp is called for a file of its own, or for what retrieveInp      *)
(* returned.                                                               *)
NoRun ==
    /\ request = NoRef /\ stage = "returned" /\ todo = <<>> /\ project = NewProject
    /\ failed = <<>> /\ child = 0 /\ solved = {} /\ text = NoRef /\ faults = 0

ImportInit ==
    /\ \/ Init /\ file = NoRef /\ section = "idle"
       \/ NoRun /\ file \in Files /\ section = "open"
    /\ result = NothingImported

ImportRetrieved ==
    /\ section = "idle" /\ stage = "returned" /\ text # NoRef /\ request.inp
    /\ file' = AsFile(text, Network, InpOptions)
    /\ section' = "open"
    /\ UNCHANGED <<vars, result>>

NextSection(s) ==
    LET k == CHOOSE i \in DOMAIN Sections : Sections[i] = s
    IN  IF k = Len(Sections) THEN "done" ELSE Sections[k + 1]

(* finishImport, with what was read until then                             *)
Finish ==
    /\ result' = [result EXCEPT !.ok = FALSE, !.complete = FALSE]
    /\ section' = "done"

(* Some sections are read from the text too, which may not parse.          *)
ImportSection ==
    /\ section \in Items(Sections) /\ section \notin file.unreadable
    /\ LET outcome == Imported(section, file, result.network)
       IN  IF outcome.verdict = "failed" THEN Finish
           ELSE /\ result' = [result EXCEPT !.network = outcome.network,
                                            !.complete = @ /\ outcome.verdict = "fine"]
                /\ section' = NextSection(section)
    /\ UNCHANGED <<vars, file>>

(* A call of the toolkit fails, or the text cannot be read.                *)
ImportFails ==
    /\ section \in Items(Sections)
    /\ \/ section \in file.unreadable /\ UNCHANGED faults
       \/ section \notin file.unreadable /\ faults < MaxFaults /\ faults' = faults + 1
    /\ Finish
    /\ UNCHANGED <<request, stage, todo, project, failed, child, solved, text, file>>

ImportNext == (Next /\ UNCHANGED importVars) \/ ImportRetrieved \/ ImportSection \/ ImportFails

ImportSpec == ImportInit /\ [][ImportNext]_<<vars, importVars>>

-----------------------------------------------------------------------------
(* Properties. *)

(* What the builder makes of the network                                   *)
RebuiltPattern(n, demand) ==
    IF demand.pattern = Constant THEN InternalConstantDemandPatternId(n) ELSE demand.pattern
RebuiltReaction(reaction, global, roughness) ==
    CASE reaction.override -> reaction.coefficient
      [] ~reaction.override /\ roughness # 0 -> <<"correlated", roughness>>
      [] ~reaction.override /\ roughness = 0 -> <<"value", global>>

DemandsMean(n) ==
    \A j \in DOMAIN file.demands :
        IF j \notin ExplicitDemands(file) THEN n.demands[j] = <<>>
        ELSE LET native == NativeDemands(file, j)
             IN  /\ Len(n.demands[j]) = Len(native)
                 /\ \A k \in DOMAIN native :
                       /\ n.demands[j][k].base = native[k].base /\ n.demands[j][k].category = native[k].category
                       /\ RebuiltPattern(n, n.demands[j][k]) = ReopenedPattern(file, native[k])

PumpsMean(n) ==
    LET links == PumpLinks(file)
    IN  /\ Len(n.pumps) = Len(links)
        /\ \A k \in DOMAIN links :
              /\ [speed |-> n.pumps[k].speed, open |-> n.pumps[k].open] = NativePump(file, links[k])
              /\ EffectivePrice(n.pumps[k].price.cost, n.pumps[k].price.pattern, n.price)
                    = EffectivePrice(links[k].cost, links[k].pricePattern, file.price)

ReactionsMean(n) ==
    file.quality.analysis = "Chemical" =>
        /\ \A p \in DOMAIN n.reactions.pipeBulk :
              /\ RebuiltReaction(n.reactions.pipeBulk[p], n.reactions.bulk, 0) = NativeCoefficient(file, "BULK", p)
              /\ RebuiltReaction(n.reactions.pipeWall[p], n.reactions.wall, n.reactions.roughness)
                    = NativeCoefficient(file, "WALL", p)
        /\ \A t \in DOMAIN n.reactions.tanks :
              RebuiltReaction(n.reactions.tanks[t], n.reactions.bulk, 0) = NativeCoefficient(file, "TANK", t)

(* Without an analysis no quality is shown.                                *)
ReportMeans(n) ==
    LET native == ReopenedReport(file)
        rebuilt == Reported(NewReport, ReportCommands(n.report))
        unseen == IF file.quality.analysis = "None" THEN {"QUALITY"} ELSE {}
    IN  /\ SelectionsResolve(n.report, n.nodes, n.links)
        /\ \A word \in DOMAIN native.flags : FlagOf(rebuilt, word) = FlagOf(native, word)
        /\ \A word \in {"NODES", "LINKS"} : Selected(rebuilt.chosen[word]) = Selected(native.chosen[word])
        /\ \A word \in Items(ReportFields) \ unseen : Shown(rebuilt.fields[word]) = Shown(native.fields[word])

(* A request that was imported means what the file means to the toolkit:   *)
(* every demand has the pattern in force, every pump its speed and price,  *)
(* every pipe and tank its coefficient, in spite of what the toolkit       *)
(* forgets; and if the result is complete, so do the rules, the report and *)
(* the map.  Every node has a place, and one that failed is never complete *)
(* (epanet_inp_importer.cpp:774, EPANET_ADAPTER_CONTRACT.md:119).          *)
ImportMeansTheFile ==
    section = "done" =>
        /\ ~result.ok => ~result.complete
        /\ result.ok =>
              LET n == result.network
              IN  /\ DemandsMean(n) /\ PumpsMean(n) /\ ReactionsMean(n)
                  /\ DOMAIN n.places = file.nodes
                  /\ result.complete =>
                        /\ n.rules = file.rules /\ ReportMeans(n) /\ n.labels = file.map.labels
                        /\ (file.crs # NoRef \/ file.map.units = "DEGREES") =>
                              \A v \in file.placed : n.places[v] # "NullIsland"
=============================================================================
