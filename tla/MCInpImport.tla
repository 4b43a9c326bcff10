----------------------------- MODULE MCInpImport -----------------------------
(* The runs of MCRunConfiguration, and files from elsewhere: one with      *)
(* every kind of entry, varied part by part.                               *)
EXTENDS MCRunConfiguration, InpImport

UpTo(rows, n) == UNION {[1 .. k -> rows] : k \in 0 .. n}

Pump(speed, cost, pattern) ==
    [id |-> "u", kind |-> "PUMP", power |-> FALSE, curve |-> "c", speed |-> speed, cost |-> cost, pricePattern |-> pattern]
Link(id, kind, curve) == [id |-> id, kind |-> kind, curve |-> curve]
Curve(id, type, points) == [id |-> id, type |-> type, points |-> points]
Curves == {Curve("c", "PUMP", 1), Curve("g", "HEADLOSS", 2), Curve("v", "VALVE", 3)}
Row(base, pattern) == [base |-> base, pattern |-> pattern, category |-> "house"]
Reaction(word, ids, value) == [word |-> word, ids |-> ids, value |-> value]
Quality(analysis) ==
    [analysis |-> analysis, trace |-> IF analysis = "SourceTrace" THEN "t" ELSE NoRef, units |-> TRUE,
     initial |-> {"j", "t"}, sources |-> {"j"}]

Part(variable, link) == [variable |-> variable, link |-> link]
Rule(premise, then, else) == [premises |-> <<premise>>, then |-> <<then>>, else |-> else]
WholeRule == Rule(Part("LEVEL", NoRef), Part("STATUS", "p"), <<Part("SETTING", "u")>>)

Elsewhere ==
    [opens |-> TRUE, unreadable |-> {}, canonical |-> FALSE, settings |-> "settings",
     pattern |-> NoRef, patterns |-> {"1", "2"}, curves |-> Curves, price |-> 0,
     nodes |-> {"j", "k", "t"}, demands |-> <<<<>>, <<>>>>, fields |-> <<NoRef, NoRef>>, tanks |-> {"t"},
     links |-> <<Link("p", "PIPE", NoRef), Link("q", "PIPE", NoRef), Pump(NoRef, 0, NoRef),
                 Link("w", "GPV", "g"), Link("x", "PCV", "v"), Link("y", "PRV", NoRef)>>,
     status |-> <<>>, map |-> [labels |-> <<"j", NoRef>>, units |-> "METERS", backdrop |-> "map"],
     crs |-> NoRef, inRange |-> TRUE, placed |-> {"j", "k"}, quality |-> Quality("Chemical"), reactions |-> <<>>,
     controls |-> <<[link |-> "u", setting |-> 10], [link |-> "p", setting |-> 0]>>, actions |-> <<"OPEN", "CLOSED">>,
     rules |-> <<WholeRule>>, report |-> <<>>]

DemandFiles ==
    {[Elsewhere EXCEPT !.pattern = pattern, !.patterns = patterns, !.fields[1] = field, !.demands[1] = rows] :
        pattern \in {NoRef, "2"}, patterns \in {{"2"}, {"1", "2"}},
        field \in {NoRef, Row(0, NoRef), Row(5, "2")}, rows \in UpTo({Row(0, NoRef), Row(7, "2")}, 2)}

Setting(word, speed) == [id |-> "u", word |-> word, speed |-> speed]
PumpFiles ==
    {[Elsewhere EXCEPT !.links[3] = Pump(speed, cost, pattern), !.status = status, !.price = price] :
        speed \in {NoRef, 12}, cost \in {0, 3}, pattern \in {NoRef, "2"}, price \in {0, 5},
        status \in UpTo({Setting("CLOSED", 0), Setting("SPEED", 8), Setting("SPEED", 0)}, 2)}

ReactionFiles ==
    {[Elsewhere EXCEPT !.quality = Quality(analysis), !.reactions = rows] :
        analysis \in {"Chemical", "WaterAge", "SourceTrace"},
        rows \in UpTo({Reaction("GLOBAL BULK", {}, 1), Reaction("GLOBAL WALL", {}, 2), Reaction("ROUGHNESS", {}, 3),
                       Reaction("BULK", {"p"}, 4), Reaction("BULK", {"p", "q"}, 5), Reaction("WALL", {"q"}, 6),
                       Reaction("TANK", {"t"}, 7)}, 3)}

ReportRows ==
    {Command("NODES", "LIST", {"j"}), Command("NODES", "LIST", {"t"}), Command("NODES", "NONE", NoRef),
     Command("NODES", "ALL", NoRef), Command("LINKS", "LIST", {"p", "gone"}), Command("PRESSURE", "NO", NoRef),
     Command("PRESSURE", "BELOW", 20), Command("QUALITY", "ABOVE", 5), Command("QUALITY", "NO", NoRef),
     Command("SETTING", "YES", NoRef), Command("SETTING", "BELOW", 9), Command("STATE", "BELOW", 2), Command("F-FACTOR", "PRECISION", 1),
     Command("FILE", "IS", "a"), Command("PAGESIZE", "IS", 40), Command("STATUS", "FULL", NoRef),
     Command("SUMMARY", "NO", NoRef), Command("MESSAGES", "NO", NoRef), Command("ENERGY", "YES", NoRef)}
ReportFiles ==
    {[Elsewhere EXCEPT !.canonical = canonical, !.report = rows] : canonical \in BOOLEAN, rows \in UpTo(ReportRows, 2)}
    \union {[Elsewhere EXCEPT !.quality = Quality("None"), !.report = <<row>>] : row \in ReportRows}

MapFiles ==
    {[Elsewhere EXCEPT !.crs = crs, !.inRange = inRange, !.map.units = units, !.placed = placed, !.map.labels = labels] :
        crs \in {NoRef, "supported", "unsupported"}, inRange \in BOOLEAN, units \in {NoRef, "METERS", "DEGREES", "FEET"},
        placed \in {{}, {"j"}, {"j", "k", "t"}}, labels \in {<<>>, <<"k", "gone">>}}

OddFiles ==
    {[Elsewhere EXCEPT !.opens = FALSE], [Elsewhere EXCEPT !.curves = Curves \union {Curve("e", "GENERIC", 0)}],
     [Elsewhere EXCEPT !.curves = {Curve("c", "EFFICIENCY", 1)}], [Elsewhere EXCEPT !.actions = <<"OPEN">>],
     [Elsewhere EXCEPT !.actions = <<"SETTING", "CLOSED">>], [Elsewhere EXCEPT !.actions = <<"OPEN", "SETTING">>],
     [Elsewhere EXCEPT !.quality.units = FALSE], [Elsewhere EXCEPT !.links[3].power = TRUE]}
    \union {[Elsewhere EXCEPT !.unreadable = {s}] : s \in {"open", "geometry", "quality", "controls", "report"}}
    \union {[Elsewhere EXCEPT !.rules = <<WholeRule, Rule(premise, then, else), WholeRule>>] :
               premise \in {Part("POWER", "u"), Part("SETTING", "w"), Part("SETTING", "u")},
               then \in {Part("SETTING", "p"), Part("SETTING", "y")}, else \in {<<>>, <<Part("SETTING", "w")>>}}

MCFiles == DemandFiles \union PumpFiles \union ReactionFiles \union ReportFiles \union MapFiles \union OddFiles
=============================================================================
