--------------------------- MODULE MCResultReaders ---------------------------
(* Networks that use every kind of entity and of reference, with and       *)
(* without a default pattern and with defects in their values; those with  *)
(* a name twice or with unknown references do not pass validation.         *)
EXTENDS ResultReaders

MCPrivateIds == <<"__AOWIS_CONSTANT", "__AOWIS_CONSTANT_1", "__AOWIS_CONSTANT_2">>
MCPrivate(pump) == <<"__aowis_eff_", pump>>

Named(id, bad) == [id |-> id, bad |-> bad]
Pipe(id, from, to) == [id |-> id, from |-> from, to |-> to]
Pump(head, efficiency, bad) ==
    [id |-> "pump", from |-> "r", to |-> "j1", head |-> head, speed |-> "p1", price |-> "p2",
     efficiency |-> efficiency, bad |-> bad]
Valve(bad) == [id |-> "valve", from |-> "j2", to |-> "t", curve |-> "c3", bad |-> bad]
Rule(id, nodes, registered, bad) ==
    [id |-> id, nodes |-> nodes, links |-> {"pipe"}, registered |-> registered, bad |-> bad]

Plain(default, patterns, demands, pipes) ==
    [default |-> default, energy |-> "p2", patterns |-> patterns,
     curves |-> <<Named("c1", "no"), Named("c2", "no"), Named("c3", "no")>>,
     junctions |-> <<[id |-> "j1", demands |-> demands], [id |-> "j2", demands |-> <<>>]>>,
     reservoirs |-> <<[id |-> "r", pattern |-> "p2"]>>, tanks |-> <<[id |-> "t", curve |-> "c1"]>>,
     pipes |-> pipes, pumps |-> <<>>, valves |-> <<>>, controls |-> <<>>, rules |-> <<>>]

MCPatterns == <<Named("p1", "no"), Named("p2", "no")>>
MCPipes == <<Pipe("pipe", "j1", "j2")>>

(* Everything there can be, with a defect somewhere or nowhere.            *)
Full(default, demands, efficiency, bad) ==
    LET If(what, when) == IF bad = what THEN when ELSE "no"
    IN  [Plain(default, MCPatterns, demands, MCPipes) EXCEPT
            !.curves = <<Named("c1", If("volume", "late")), Named("c2", If("head", "early")), Named("c3", "no")>>,
            !.pumps = <<Pump(IF efficiency = Constant THEN NoRef ELSE "c2", efficiency, If("pump", "late"))>>,
            !.valves = <<Valve(If("valve", "late"))>>,
            !.controls = <<[id |-> "control", link |-> "pipe", node |-> "t", bad |-> If("control", "early")]>>,
            !.rules = <<Rule("rule1", {"t"}, {"t"}, If("rule", "early")), Rule("rule2", {}, {}, "no")>>]

MCNetworks ==
    {Full(default, demands, efficiency, bad) :
        default \in {NoRef, "p1"}, demands \in {<<"p2", Constant>>, <<NoRef, Constant, "p1">>},
        efficiency \in {"c3", Constant}, bad \in {"no", "volume", "head"}}
    \union
    {Full("p1", <<Constant>>, "c3", bad) : bad \in {"pump", "valve", "control", "rule"}}
    \union (* a pattern that has the private ID, one without factors       *)
    {Plain("p1", <<Named("p1", bad), Named("p2", "no"), Named(PrivateIds[1], "no")>>, <<Constant>>, MCPipes) :
        bad \in {"no", "early"}}
    \union (* not valid: a node that is not there, a name twice            *)
    {Plain(NoRef, MCPatterns, <<>>, pipes) :
        pipes \in {<<Pipe("pipe", "j1", "nowhere")>>, <<Pipe("pipe", "j1", "j2"), Pipe("pipe", "j2", "j1")>>}}
=============================================================================
