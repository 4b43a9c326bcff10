------------------------- MODULE MCRunConfiguration -------------------------
(* One network with every kind of place and source, varied where the       *)
(* configuration or the export makes a difference.                         *)
EXTENDS RunConfiguration

MCConstantIds == <<"__AOWIS_CONSTANT", "__AOWIS_CONSTANT_1", "__AOWIS_CONSTANT_2">>
MCNoDefaultIds == <<"__AOWIS_NO_DEFAULT", "__AOWIS_NO_DEFAULT_1", "__AOWIS_NO_DEFAULT_2">>

Field(enabled, precision, below) ==
    [enabled |-> enabled, precision |-> precision, below |-> below, above |-> NoRef]

Report(friction, backend) ==
    [page |-> 0, status |-> "FULL", summary |-> "YES", messages |-> "NO", energy |-> "NO",
     nodes |-> [mode |-> "LIST", ids |-> {"j"}], links |-> [mode |-> "ALL", ids |-> {}],
     fields |-> [word \in Items(ReportFields) |->
                   CASE word = "F-FACTOR" -> friction
                     [] word = "PRESSURE" -> Field(TRUE, 3, 20)
                     [] OTHER -> Field(word = "HEAD", NoRef, NoRef)],
     backend |-> backend]

Place(id, kind, source, pattern) == [id |-> id, kind |-> kind, source |-> source, pattern |-> pattern]
(* 1.2345678 m3/h is 12345678; the second is one of six decimals.          *)
Demand(pattern, category) ==
    [base |-> IF category = "" THEN 12345678 ELSE 12345670, pattern |-> pattern, category |-> category]

Plain ==
    [formula |-> <<"DW">>, tooLong |-> NoRef, unbalanced |-> "Stop", emitters |-> <<NoRef, "0.6">>, correlated |-> FALSE,
     places |-> <<Place("j", "Junction", "None", NoRef), Place("r", "Reservoir", "Concentration", "1"),
                  Place("t", "Tank", "MassBooster", NoRef)>>,
     pipes |-> <<[id |-> "p", override |-> FALSE], [id |-> "q", override |-> TRUE]>>,
     nodes |-> {"j", "r", "t"}, links |-> {"p", "q"}, patterns |-> {"1", "2"}, default |-> NoRef,
     demands |-> <<<<Demand(NoRef, "")>>>>, rules |-> <<150>>, labels |-> <<"j", "disabled", NoRef>>, backdrop |-> "map",
     report |-> Report(Field(TRUE, NoRef, NoRef), <<>>)]

Options(analysis, trace, diffusivity, usable) ==
    [analysis |-> analysis, trace |-> trace, diffusivity |-> diffusivity, usable |-> usable]

Chemical == Options("Chemical", NoRef, "1", TRUE)
WaterAge == Options("WaterAge", NoRef, "2", TRUE)
Trace == Options("SourceTrace", "r", "1", TRUE)
MCAnalyses == {Chemical, WaterAge, Trace}

Ask(network, children, inp) == [network |-> network, children |-> children, inp |-> inp, multiSpecies |-> FALSE]

(* Children in every order, and with others between them                   *)
Runs == {Ask(Plain, <<a, b>>, FALSE) : a, b \in MCAnalyses}
        \union {Ask([Plain EXCEPT !.correlated = TRUE, !.formula = <<"HW">>], <<Chemical, x, Trace, WaterAge>>, FALSE) :
                   x \in {Options("None", NoRef, "1", TRUE), Options("WaterAge", NoRef, "-1", FALSE),
                          Options("SourceTrace", "nowhere", "1", TRUE)}}

BackendCommands ==
    {Command("FILE", "IS", "a"), Command("FILE", "IS", "b"), Command("NODES", "LIST", {"t"}), Command("NODES", "NONE", NoRef),
     Command("PRESSURE", "NO", NoRef), Command("PRESSURE", "PRECISION", 1), Command("F-FACTOR", "YES", NoRef),
     Command("F-FACTOR", "NO", NoRef), Command("F-FACTOR", "PRECISION", 4), Command("F-FACTOR", "BELOW", 5)}

Backends == {<<>>} \union {<<a>> : a \in BackendCommands} \union {<<a, b>> : a, b \in BackendCommands}

Frictions == {Field(TRUE, NoRef, NoRef), Field(TRUE, 3, 7), Field(FALSE, NoRef, NoRef), Field(FALSE, 3, 7)}

Reports == {Ask([Plain EXCEPT !.report = Report(friction, backend)], <<>>, TRUE) :
               friction \in Frictions, backend \in Backends}

(* Default patterns, and patterns that have the names AOWIS gives its own  *)
Demands ==
    {Ask([Plain EXCEPT !.default = default, !.patterns = {"1", "2"} \union taken,
                       !.demands = <<<<Demand(first, "house"), Demand(Constant, "")>>, <<Demand(NoRef, "")>>>>], <<Chemical>>, TRUE) :
        default \in {NoRef, "1", "2"}, first \in {NoRef, Constant, "2"},
        taken \in {{}, {MCConstantIds[1], MCNoDefaultIds[1]}, {MCConstantIds[2], MCNoDefaultIds[1], MCNoDefaultIds[2]}}}

Defects ==
    {Ask([Plain EXCEPT !.tooLong = "RULESTEP"], <<>>, FALSE), Ask([Plain EXCEPT !.unbalanced = "negative"], <<>>, FALSE),
     Ask([Plain EXCEPT !.unbalanced = "10", !.emitters = <<>>], <<Chemical>>, TRUE),
     Ask([Plain EXCEPT !.report.links = [mode |-> "LIST", ids |-> {"gone"}]], <<Chemical>>, FALSE),
     Ask(Plain, <<Chemical, WaterAge>>, TRUE), [Ask(Plain, <<>>, TRUE) EXCEPT !.multiSpecies = TRUE],
     Ask(Plain, <<Options("SourceTrace", "nowhere", "1", TRUE)>>, TRUE)}

MCRequests == Runs \union Reports \union Demands \union Defects
=============================================================================
