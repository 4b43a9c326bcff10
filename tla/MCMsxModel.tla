------------------------------ MODULE MCMsxModel ------------------------------
(* A model that uses every kind of entry, the same with one defect         *)
(* somewhere, and all the ways three terms can refer to each other.        *)
EXTENDS MsxModel

MCUuids == {"u1", "u2", "u3", "u4", "u5", "u6", "u7", "u8", "u9", "u10", "u11"}
MCNames == {"D", "nothing", "Cl", "Wl", "k1", "k2", "A", "B", "C", "P", "Q", "a b"}

Good(symbols) == [valid |-> TRUE, long |-> FALSE, symbols |-> symbols]
SpeciesOf(uuid, id, type, dispersion) ==
    [uuid |-> uuid, id |-> id, type |-> type, dispersion |-> dispersion, good |-> TRUE]
ValueOf(uuid, id) == [uuid |-> uuid, id |-> id, good |-> TRUE]
TermOf(uuid, id, symbols) == [uuid |-> uuid, id |-> id, expression |-> Good(symbols)]
ReactionOf(uuid, species, location, symbols) ==
    [uuid |-> uuid, species |-> species, location |-> location, expression |-> Good(symbols)]
OverrideOf(object, parameter) == [object |-> object, parameter |-> parameter, good |-> TRUE]
QualityOf(object, species) == [object |-> object, species |-> species, good |-> TRUE]
SourceOf(object, species, pattern) ==
    [object |-> object, species |-> species, pattern |-> pattern, good |-> TRUE]
PatternOf(uuid, id, multipliers) == [uuid |-> uuid, id |-> id, multipliers |-> multipliers, good |-> TRUE]

Empty ==
    [species |-> <<>>, constants |-> <<>>, parameters |-> <<>>, terms |-> <<>>, patterns |-> <<>>,
     reactions |-> <<>>, pipe_overrides |-> <<>>, tank_overrides |-> <<>>, global_quality |-> <<>>,
     node_quality |-> <<>>, pipe_quality |-> <<>>, sources |-> <<>>, options_good |-> TRUE,
     selected |-> <<>>]

Full ==
    [Empty EXCEPT
        !.species = <<SpeciesOf("u1", "Cl", "Bulk", {"diffusivity"}), SpeciesOf("u2", "Wl", "Wall", {})>>,
        !.constants = <<ValueOf("u3", "k1")>>, !.parameters = <<ValueOf("u4", "k2")>>,
        !.terms = <<TermOf("u5", "A", {"B", "k1"}), TermOf("u6", "B", {"k2", "Cl"})>>,
        !.patterns = <<PatternOf("u7", "P", 7), PatternOf("u8", "A", 1)>>,
        !.reactions = <<ReactionOf("u9", "u1", "PIPES", {"A", "Cl"}), ReactionOf("u10", "u1", "TANKS", {"Wl"})>>,
        !.pipe_overrides = <<OverrideOf("pipe", "u4")>>, !.tank_overrides = <<OverrideOf("tank", "u4")>>,
        !.global_quality = <<QualityOf(NoRef, "u1"), QualityOf(NoRef, "u2")>>,
        !.node_quality = <<QualityOf("tank", "u1")>>, !.pipe_quality = <<QualityOf("pipe", "u2")>>,
        !.sources = <<SourceOf("node", "u1", "u7"), SourceOf("tank", "u1", NoRef)>>,
        !.selected = <<"u2", "u1">>]

(* One entry more, or one that is changed.                                 *)
More(list, entry) == [Full EXCEPT ![list] = Append(@, entry)]

Defects ==
    {More("species", SpeciesOf("u1", "Q", "Bulk", {})), More("species", SpeciesOf(NoRef, "Q", "Bulk", {})),
     More("species", SpeciesOf("u11", "D", "Bulk", {})),
     [Full EXCEPT !.species[2].dispersion = {"fixed"}],
     [Full EXCEPT !.species[1].dispersion = {"diffusivity", "fixed"}],
     [Full EXCEPT !.species[1].good = FALSE], [Full EXCEPT !.options_good = FALSE],
     More("constants", ValueOf("u11", "Cl")), More("parameters", ValueOf("u11", "A")),
     [Full EXCEPT !.constants[1].id = "a b"], [Full EXCEPT !.terms[2].id = "A"],
     [Full EXCEPT !.terms[1].expression.symbols = {"A"}],
     [Full EXCEPT !.terms[1].expression.symbols = {"nothing"}],
     [Full EXCEPT !.terms[1].expression.valid = FALSE], [Full EXCEPT !.terms[2].expression.long = TRUE],
     [Full EXCEPT !.reactions[1].expression.symbols = {"Q"}],
     [Full EXCEPT !.patterns[2].id = "P"], [Full EXCEPT !.patterns[2].multipliers = 0],
     [Full EXCEPT !.reactions[2].species = "u2"], [Full EXCEPT !.reactions[2].location = "PIPES"],
     More("reactions", ReactionOf("u9", "u2", "PIPES", {})), More("reactions", ReactionOf("u11", "u1", "TANKS", {})),
     More("pipe_overrides", OverrideOf("pipe", "u4")), More("pipe_overrides", OverrideOf("closed pipe", "u4")),
     More("tank_overrides", OverrideOf("node", "u4")), More("tank_overrides", OverrideOf("tank", "u3")),
     More("global_quality", QualityOf(NoRef, "u1")), More("node_quality", QualityOf("tank", "u2")),
     More("node_quality", QualityOf("closed node", "u1")), More("pipe_quality", QualityOf("pipe", "u3")),
     More("sources", SourceOf("node", "u2", NoRef)), More("sources", SourceOf("node", "u1", "u7")),
     More("sources", SourceOf("closed node", "u1", NoRef)),
     [Full EXCEPT !.sources[1].pattern = "u4"],
     More("selected", "u1"), More("selected", "u3"), More("selected", NoRef)}

(* Every relation between three terms, and the terms that are left if some *)
(* expressions are not valid.                                              *)
Triple(ab, valid) ==
    [Empty EXCEPT
        !.species = <<SpeciesOf("u1", "Cl", "Bulk", {})>>,
        !.terms = <<[TermOf("u2", "A", ab["A"]) EXCEPT !.expression.valid = valid],
                    TermOf("u3", "B", ab["B"]), TermOf("u4", "C", ab["C"])>>]

Graphs == [{"A", "B", "C"} -> SUBSET {"A", "B", "C"}]

MCModels ==
    {Empty, Full, [Empty EXCEPT !.constants = Full.constants], [Empty EXCEPT !.selected = <<"u1">>]}
    \union Defects
    \union {Triple(g, TRUE) : g \in Graphs}
    \union {Triple(g, FALSE) : g \in {h \in Graphs : h["A"] = {"B"}}}
=============================================================================
