----------------------------- MODULE InpExport -----------------------------
(***************************************************************************)
(* epanet_report_configurator.cpp and epanet_inp_exporter.cpp: the report  *)
(* commands a request becomes, and the INP text the toolkit writes of a    *)
(* project with what the exporter puts back into it.  EN_saveinpfile loses *)
(* some of a project; the exporter repairs the text, section by section.   *)
(*                                                                         *)
(* A text is a record of its sections, a section the sequence or the set   *)
(* of its rows, a row what it says.  A project is a record of what the     *)
(* toolkit holds: the settings made one by one (cells), its patterns and   *)
(* demands, its report and the fill times of its rules.                    *)
(***************************************************************************)
EXTENDS Integers, Sequences

CONSTANTS
    NoRef,          (* the null UUID, the empty ID, an option not given    *)
    Constant,       (* the pattern of a demand with mode Constant          *)
    ConstantIds,    (* __AOWIS_CONSTANT, __AOWIS_CONSTANT_1, ...           *)
    NoDefaultIds    (* __AOWIS_NO_DEFAULT, __AOWIS_NO_DEFAULT_1, ...       *)

Items(s) == {s[k] : k \in DOMAIN s}

(* What a loop with a condition makes of a list: the items at the places S. *)
Those(s, S) ==
    LET kept[n \in 0 .. Len(s)] ==
          IF n = 0 THEN <<>> ELSE IF n \in S THEN Append(kept[n - 1], s[n]) ELSE kept[n - 1]
    IN  kept[Len(s)]

(* What a loop makes that appends a list for each turn.                    *)
Joined(lists) ==
    LET joined[n \in 0 .. Len(lists)] == IF n = 0 THEN <<>> ELSE joined[n - 1] \o lists[n]
    IN  joined[Len(lists)]

FirstNotIn(ids, taken) ==
    ids[CHOOSE k \in DOMAIN ids : ids[k] \notin taken /\ \A i \in 1 .. k - 1 : ids[i] \in taken]

(* The IDs AOWIS tries are none that a demand uses as a mark, and what is  *)
(* not given is no number.                                                 *)
ASSUME IdsAssumption ==
    /\ ConstantIds \in Seq(Items(ConstantIds)) /\ NoDefaultIds \in Seq(Items(NoDefaultIds))
    /\ NoRef \notin Items(ConstantIds) \union Items(NoDefaultIds) /\ NoRef # Constant
    /\ Constant \notin Items(ConstantIds) /\ NoRef \notin Nat

-----------------------------------------------------------------------------
(* Report commands: a word, what is said of it, and perhaps a value.       *)

Command(word, verb, value) == [word |-> word, verb |-> verb, value |-> value]

ReportFields ==
    <<"ELEVATION", "DEMAND", "HEAD", "PRESSURE", "QUALITY",
      "LENGTH", "DIAMETER", "FLOW", "VELOCITY", "HEADLOSS", "STATE", "SETTING", "REACTION", "F-FACTOR">>

FlagWords == {"PAGESIZE", "STATUS", "SUMMARY", "MESSAGES", "ENERGY", "FILE"}
FlagVerbs == {"YES", "NO", "FULL"}
FieldVerbs == {"YES", "NO", "PRECISION", "BELOW", "ABOVE"}

(* What EN_setreport understands                                           *)
IsCommand(c) ==
    /\ c = Command(c.word, c.verb, c.value)
    /\ \/ c.word \in {"PAGESIZE", "FILE"} /\ c.verb = "IS"
       \/ c.word \in FlagWords \ {"PAGESIZE", "FILE"} /\ c.verb \in FlagVerbs /\ c.value = NoRef
       \/ c.word \in {"NODES", "LINKS"} /\ c.verb \in {"NONE", "ALL", "LIST"}
       \/ /\ c.word \in Items(ReportFields) /\ c.verb \in FieldVerbs
          /\ c.verb \notin {"YES", "NO"} => c.value # NoRef

Given(word, verb, value) == IF value = NoRef THEN <<>> ELSE <<Command(word, verb, value)>>

(* appendReportFieldCommands, and appendFrictionReportFieldCommands.  The  *)
(* qualifiers of a field that is off are not said.                         *)
FieldCommands(word, field) ==
    IF ~field.enabled THEN <<Command(word, "NO", NoRef)>>
    ELSE <<Command(word, "YES", NoRef)>> \o Given(word, "PRECISION", field.precision)
         \o Given(word, "BELOW", field.below) \o Given(word, "ABOVE", field.above)

(* appendTypedReportFieldCommands; field is a function of the words        *)
TypedFieldCommands(fields) ==
    Joined([k \in DOMAIN ReportFields |-> FieldCommands(ReportFields[k], fields[ReportFields[k]])])

IsField(field) ==
    /\ field = [enabled |-> field.enabled, precision |-> field.precision, below |-> field.below, above |-> field.above]
    /\ field.enabled \in BOOLEAN

IsReport(options) ==
    /\ {options.status, options.summary, options.messages, options.energy} \subseteq FlagVerbs
    /\ options.nodes.mode \in {"NONE", "ALL", "LIST"} /\ options.links.mode \in {"NONE", "ALL", "LIST"}
    /\ DOMAIN options.fields = Items(ReportFields) /\ \A word \in Items(ReportFields) : IsField(options.fields[word])
    /\ options.backend \in Seq(Items(options.backend)) /\ \A c \in Items(options.backend) : IsCommand(c)

SelectionCommand(word, selection) == Command(word, selection.mode, selection.ids)

(* configureEpanetReport: the commands in their order                      *)
ReportCommands(options) ==
    <<Command("PAGESIZE", "IS", options.page), Command("STATUS", options.status, NoRef),
      Command("SUMMARY", options.summary, NoRef), Command("MESSAGES", options.messages, NoRef),
      Command("ENERGY", options.energy, NoRef),
      SelectionCommand("NODES", options.nodes), SelectionCommand("LINKS", options.links)>>
    \o TypedFieldCommands(options.fields) \o options.backend

(* A selection must be resolved before the first command is given.         *)
SelectionsResolve(options, nodes, links) ==
    /\ options.nodes.mode = "LIST" => options.nodes.ids \subseteq nodes
    /\ options.links.mode = "LIST" => options.links.ids \subseteq links

-----------------------------------------------------------------------------
(* The toolkit's report, which EN_setreport changes command by command and *)
(* an INP text gives row by row.                                           *)

PlainField == [enabled |-> FALSE, precision |-> 2, below |-> NoRef, above |-> NoRef]

(* What is shown before anything is said, as initializeReportDefaults has  *)
(* it too                                                                  *)
ShownByDefault == {"DEMAND", "HEAD", "PRESSURE", "QUALITY", "FLOW", "VELOCITY", "HEADLOSS"}
DefaultFields ==
    [word \in Items(ReportFields) |->
        [enabled |-> word \in ShownByDefault, precision |-> IF word = "F-FACTOR" THEN 3 ELSE 2,
         below |-> NoRef, above |-> NoRef]]

NewReport ==
    [flags |-> [word \in FlagWords |-> <<>>],
     chosen |-> [word \in {"NODES", "LINKS"} |-> [mode |-> "NONE", ids |-> {}]],
     fields |-> DefaultFields]

SetField(field, c) ==
    CASE c.verb = "YES" -> [field EXCEPT !.enabled = TRUE]
      [] c.verb = "NO" -> [field EXCEPT !.enabled = FALSE]
      [] c.verb = "PRECISION" -> [field EXCEPT !.enabled = TRUE, !.precision = c.value]
      [] c.verb = "BELOW" -> [field EXCEPT !.below = c.value]
      [] c.verb = "ABOVE" -> [field EXCEPT !.above = c.value]

SetReport(report, c) ==
    IF c.word \in DOMAIN report.fields
      THEN [report EXCEPT !.fields[c.word] = SetField(@, c)]
    ELSE IF c.word \in DOMAIN report.chosen
      THEN [report EXCEPT !.chosen[c.word] =
               [mode |-> c.verb, ids |-> IF c.verb = "LIST" THEN @.ids \union c.value ELSE @.ids]]
    ELSE [report EXCEPT !.flags[c.word] = <<c.verb, c.value>>]

Reported(report, commands) ==
    LET after[n \in 0 .. Len(commands)] ==
          IF n = 0 THEN report ELSE SetReport(after[n - 1], commands[n])
    IN  after[Len(commands)]

(* What EN_saveinpfile writes of it: no FILE, and no F-FACTOR.             *)
SavedField(word, field) ==
    IF ~field.enabled THEN <<Command(word, "NO", NoRef)>>
    ELSE <<Command(word, "PRECISION", field.precision)>>
         \o Given(word, "BELOW", field.below) \o Given(word, "ABOVE", field.above)

SavedReport(report) ==
    LET flag(word) == IF report.flags[word] = <<>> THEN <<>>
                      ELSE <<Command(word, report.flags[word][1], report.flags[word][2])>>
        written == Those(ReportFields, {k \in DOMAIN ReportFields : ReportFields[k] # "F-FACTOR"})
    IN  flag("PAGESIZE") \o flag("STATUS") \o flag("SUMMARY") \o flag("MESSAGES") \o flag("ENERGY")
        \o <<SelectionCommand("NODES", report.chosen["NODES"]), SelectionCommand("LINKS", report.chosen["LINKS"])>>
        \o Joined([k \in DOMAIN written |-> SavedField(written[k], report.fields[written[k]])])

-----------------------------------------------------------------------------
(* What the exporter does to the section.                                  *)

ReportCommandKey(c) ==
    IF c.verb \in {"YES", "NO", "PRECISION", "BELOW", "ABOVE"} THEN <<c.word, c.verb>>
    ELSE IF c.word = "FILE" THEN <<c.word>>
    ELSE <<c.word, c.verb, c.value>>

(* A row with the key of the command goes; the command comes last.         *)
Preserve(rows, c) ==
    Append(Those(rows, {k \in DOMAIN rows : ReportCommandKey(rows[k]) # ReportCommandKey(c)}), c)

PreserveBackendReportCommands(rows, commands) ==
    LET after[n \in 0 .. Len(commands)] == IF n = 0 THEN rows ELSE Preserve(after[n - 1], commands[n])
    IN  after[Len(commands)]

OverrideFriction(field, c) ==
    IF c.word # "F-FACTOR" THEN field
    ELSE CASE c.verb \in {"YES", "NO"} -> [field EXCEPT !.enabled = (c.verb = "YES")]
           [] c.verb = "PRECISION" -> [field EXCEPT !.enabled = TRUE, !.precision = c.value]
           [] c.verb = "BELOW" -> [field EXCEPT !.below = c.value]
           [] c.verb = "ABOVE" -> [field EXCEPT !.above = c.value]

EffectiveFrictionReportField(options) ==
    LET after[n \in 0 .. Len(options.backend)] ==
          IF n = 0 THEN options.fields["F-FACTOR"] ELSE OverrideFriction(after[n - 1], options.backend[n])
    IN  after[Len(options.backend)]

PreserveFrictionReportField(rows, options) ==
    Those(rows, {k \in DOMAIN rows : rows[k].word # "F-FACTOR"})
    \o FieldCommands("F-FACTOR", EffectiveFrictionReportField(options))

-----------------------------------------------------------------------------
(* Demands.  A network has patterns, perhaps a default one, and for each   *)
(* junction a sequence of demands with a pattern and a category.           *)

HasConstantDemand(n) ==
    \E j \in DOMAIN n.demands : \E d \in Items(n.demands[j]) : d.pattern = Constant

(* As in EpanetNetworkBuilder::configureConstantDemandPattern              *)
InternalConstantDemandPatternId(n) ==
    IF n.default # NoRef /\ HasConstantDemand(n) THEN FirstNotIn(ConstantIds, n.patterns) ELSE NoRef

(* QString::number(x, 'f', 6), of a demand in tenths of the sixth decimal  *)
SixDecimals(base) == ((base + 5) \div 10) * 10

(* The rows of [DEMANDS], in the place of the toolkit's                    *)
PreserveDemandCategories(n) ==
    [j \in DOMAIN n.demands |-> [k \in DOMAIN n.demands[j] |->
        [base |-> SixDecimals(n.demands[j][k].base),
         pattern |-> IF n.demands[j][k].pattern = Constant THEN InternalConstantDemandPatternId(n)
                     ELSE n.demands[j][k].pattern,
         category |-> n.demands[j][k].category]]]

(* The toolkit writes a fill time as a time of day, and reads it as hours. *)
NormalizeSavedRuleFillDrainTimes(times) ==
    [r \in DOMAIN times |-> [form |-> "hours", value |-> times[r].value]]

(* A label whose node is not there keeps its place and loses its anchor.   *)
PreserveMapLayoutSections(n) ==
    [labels |-> [k \in DOMAIN n.labels |-> IF n.labels[k] \in n.nodes THEN n.labels[k] ELSE NoRef],
     units |-> "DEGREES", backdrop |-> n.backdrop]

(* What EN_saveinpfile writes of a project.  A demand without a category   *)
(* gets one; labels and backdrop are not those of the network.             *)
SavedText(p) ==
    [pattern |-> p.default, patterns |-> p.patterns,
     demands |-> [j \in DOMAIN p.demands |-> [k \in DOMAIN p.demands[j] |->
                    [base |-> SixDecimals(p.demands[j][k].base),
                     pattern |-> p.demands[j][k].pattern, category |-> "generated"]]],
     report |-> SavedReport(p.report),
     rules |-> [r \in DOMAIN p.rules |-> [form |-> "clock", value |-> p.rules[r]]],
     map |-> [labels |-> <<>>, units |-> NoRef, backdrop |-> NoRef]]

(* retrieveEpanetInpText, up to the look for an ID that no pattern of the  *)
(* project has, and from there on.                                         *)
TextWithDemands(p, n) ==
    LET saved == SavedText(p)
    IN  [saved EXCEPT !.rules = NormalizeSavedRuleFillDrainTimes(@), !.demands = PreserveDemandCategories(n)]

(* Mutant of PreserveNoDefaultDemandPattern: the ID is not looked up.      *)
PreserveWithAnyPattern(text, p) ==
    IF p.default # NoRef THEN text ELSE [text EXCEPT !.pattern = NoDefaultIds[1]]

PreserveNoDefaultDemandPattern(text, p) ==
    IF p.default # NoRef THEN text ELSE [text EXCEPT !.pattern = FirstNotIn(NoDefaultIds, p.patterns)]

RetrievedText(p, n) ==
    [PreserveNoDefaultDemandPattern(TextWithDemands(p, n), p) EXCEPT
        !.report = PreserveFrictionReportField(PreserveBackendReportCommands(@, n.report.backend), n.report),
        !.map = PreserveMapLayoutSections(n)]

-----------------------------------------------------------------------------
(* EN_open of such a text: without PATTERN in [OPTIONS], the pattern named *)
(* 1 is the default one, if there is one of that name.                     *)

ReopenedDefault(text) ==
    LET named == IF text.pattern = NoRef THEN "1" ELSE text.pattern
    IN  IF named \in text.patterns THEN named ELSE NoRef

(* The pattern a demand gets, NoRef for none.                              *)
ReopenedPattern(text, row) == IF row.pattern = NoRef THEN ReopenedDefault(text) ELSE row.pattern

ReopenedReport(text) == Reported(NewReport, text.report)
=============================================================================
