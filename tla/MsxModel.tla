------------------------------- MODULE MsxModel -------------------------------
(***************************************************************************)
(* retrieveEpanetMsxText: a multi-species model is validated               *)
(* (epanet_msx_validator.cpp), with the search for terms that define each  *)
(* other in a circle (findTermCycle) as its heart, and only a model        *)
(* without a failure is written down for EPANET-MSX                        *)
(* (epanet_msx_exporter.cpp), section by section, every UUID replaced by   *)
(* the ID it stands for.                                                   *)
(*                                                                         *)
(* Numbers are abstracted to whether validateNumerics takes all those of   *)
(* an entry ("good"), expressions to whether analyzeExpression takes them, *)
(* whether their line is too long and which symbols are in them, IDs to    *)
(* names, some of them malformed or reserved.  Nodes, tanks and pipes go   *)
(* by one name: the network is validated before.                           *)
(***************************************************************************)
EXTENDS Integers, Sequences, FiniteSets

CONSTANTS
    Models,         (* the requests considered: a model and selected species *)
    NoRef,          (* the null UUID                                       *)
    Uuids,
    Names,          (* IDs and symbols                                     *)
    Malformed,      (* names that are no single MSX token                  *)
    Reserved,       (* names of hydraulic variables, in any case           *)
    Nodes, Tanks, Pipes,
    Enabled         (* the nodes, tanks and pipes that are enabled         *)

Reference == Uuids \union Nodes \union Tanks \union Pipes \union {NoRef}
Expression == [valid : BOOLEAN, long : BOOLEAN, symbols : SUBSET Names]
Term == [uuid : Reference, id : Names, expression : Expression]

Value == [uuid : Reference, id : Names, good : BOOLEAN]
Override == [object : Reference, parameter : Reference, good : BOOLEAN]
Quality == [object : Reference, species : Reference, good : BOOLEAN]
Model ==
    [species : Seq([uuid : Reference, id : Names, type : {"Bulk", "Wall"},
                    dispersion : SUBSET {"diffusivity", "fixed"}, good : BOOLEAN]),
     constants : Seq(Value), parameters : Seq(Value), terms : Seq(Term),
     patterns : Seq([uuid : Reference, id : Names, multipliers : Nat, good : BOOLEAN]),
     reactions : Seq([uuid : Reference, species : Reference, location : {"PIPES", "TANKS"},
                      expression : Expression]),
     pipe_overrides : Seq(Override), tank_overrides : Seq(Override),
     global_quality : Seq(Quality), node_quality : Seq(Quality), pipe_quality : Seq(Quality),
     sources : Seq([object : Reference, species : Reference, pattern : Reference, good : BOOLEAN]),
     options_good : BOOLEAN, selected : Seq(Reference)]

ASSUME ModelsAssumption == Models \subseteq Model

(* IDs are told apart from what stands for a node, a pipe or nothing.      *)
ASSUME NamesAssumption == Names \intersect (Nodes \union Pipes \union {NoRef}) = {}

VARIABLES
    model,          (* network.multi_species and the run's output species  *)
    phase,          (* the function that is next, or how the export ended  *)
    failures,       (* what the failures are about                         *)
    dependencies,   (* term_dependencies                                   *)
    states,         (* of the search: 0 new, 1 on the stack, 2 done        *)
    stack,          (* the calls of findTermCycle, with what each has left *)
    cycle,
    next,           (* the loop over the terms                             *)
    lines           (* of the text                                         *)

search == <<dependencies, states, stack, cycle, next>>
exportVars == <<model, phase, failures, search, lines>>

Elems(s) == {s[k] : k \in DOMAIN s}
UuidsOf(s) == {s[k].uuid : k \in DOMAIN s}
IdsOf(s) == {s[k].id : k \in DOMAIN s}
Repeats(s, Key(_)) == {k \in DOMAIN s : \E j \in 1 .. k - 1 : Key(s[j]) = Key(s[k])}

TermIds == IdsOf(model.terms)

ExportInit ==
    /\ model \in Models
    /\ phase = "content"
    /\ failures = {}
    /\ dependencies = <<>>
    /\ states = [t \in TermIds |-> 0]
    /\ stack = <<>>
    /\ cycle = <<>>
    /\ next = 1
    /\ lines = <<>>

(* One function of the validation: what it finds, and which one is next.   *)
Check(name, found, following) ==
    /\ phase = name
    /\ failures' = failures \union found
    /\ phase' = following
    /\ UNCHANGED <<model, lines>>

-----------------------------------------------------------------------------
(* validateEpanetMultiSpeciesModel *)

HasContent ==
    \E s \in {model.species, model.constants, model.parameters, model.pipe_overrides,
              model.tank_overrides, model.terms, model.reactions, model.patterns,
              model.global_quality, model.node_quality, model.pipe_quality, model.sources} :
        s # <<>>

ModelHasContent ==
    /\ IF HasContent
       THEN Check("content", IF model.species = <<>> THEN {<<"no species">>} ELSE {}, "identities")
       ELSE Check("content", {}, "run")
    /\ UNCHANGED search

Symbols == model.species \o model.constants \o model.parameters \o model.terms

EveryUuid ==
    [k \in 1 .. Len(Symbols \o model.patterns) |-> (Symbols \o model.patterns)[k].uuid]
    \o [k \in DOMAIN model.reactions |-> model.reactions[k].uuid]

BadUuids == {k \in DOMAIN EveryUuid : EveryUuid[k] = NoRef} \union Repeats(EveryUuid, LAMBDA u : u)

(* Mutant of BadSymbols: each kind of symbol has a namespace of its own.   *)
BadSymbolsByKind ==
    {k \in DOMAIN Symbols : Symbols[k].id \in Malformed \union Reserved}
    \union UNION {Repeats(s, LAMBDA e : e.id) :
                    s \in {model.species, model.constants, model.parameters, model.terms}}

BadSymbols ==
    {k \in DOMAIN Symbols : Symbols[k].id \in Malformed \union Reserved}
    \union Repeats(Symbols, LAMBDA e : e.id)

BadPatternIds ==
    {k \in DOMAIN model.patterns : model.patterns[k].id \in Malformed}
    \union Repeats(model.patterns, LAMBDA e : e.id)

ValidateIdentities ==
    /\ Check("identities",
             {<<"uuid", k>> : k \in BadUuids} \union {<<"symbol", k>> : k \in BadSymbols}
             \union {<<"pattern", k>> : k \in BadPatternIds},
             "references")
    /\ UNCHANGED search

(* validateReference.  Species, parameters and patterns are always enabled. *)
Lacks(uuid, all, enabled) == uuid = NoRef \/ uuid \notin all \intersect enabled

IsWall(uuid) ==
    \E k \in DOMAIN model.species :
        /\ model.species[k].uuid = uuid /\ model.species[k].type = "Wall"
        /\ \A j \in k + 1 .. Len(model.species) : model.species[j].uuid # uuid

LacksSpecies(uuid) == Lacks(uuid, UuidsOf(model.species), UuidsOf(model.species))
LacksParameter(uuid) == Lacks(uuid, UuidsOf(model.parameters), UuidsOf(model.parameters))
LacksPattern(uuid) == uuid # NoRef /\ uuid \notin UuidsOf(model.patterns)

Where(s, Bad(_), Key(_)) == {k \in DOMAIN s : Bad(s[k])} \union Repeats(s, Key)

BadReactions == Where(model.reactions,
    LAMBDA r : LacksSpecies(r.species) \/ (r.location = "TANKS" /\ IsWall(r.species)),
    LAMBDA r : <<r.species, r.location>>)

BadPipeOverrides == Where(model.pipe_overrides,
    LAMBDA o : Lacks(o.object, Pipes, Enabled) \/ LacksParameter(o.parameter),
    LAMBDA o : <<o.object, o.parameter>>)

BadTankOverrides == Where(model.tank_overrides,
    LAMBDA o : Lacks(o.object, Tanks, Enabled) \/ LacksParameter(o.parameter),
    LAMBDA o : <<o.object, o.parameter>>)

BadGlobalQuality == Where(model.global_quality,
    LAMBDA q : LacksSpecies(q.species), LAMBDA q : q.species)

BadNodeQuality == Where(model.node_quality,
    LAMBDA q : Lacks(q.object, Nodes, Enabled) \/ LacksSpecies(q.species) \/ IsWall(q.species),
    LAMBDA q : <<q.object, q.species>>)

BadPipeQuality == Where(model.pipe_quality,
    LAMBDA q : Lacks(q.object, Pipes, Enabled) \/ LacksSpecies(q.species),
    LAMBDA q : <<q.object, q.species>>)

BadSources == Where(model.sources,
    LAMBDA s : \/ Lacks(s.object, Nodes, Enabled) \/ LacksSpecies(s.species)
               \/ LacksPattern(s.pattern) \/ IsWall(s.species),
    LAMBDA s : <<s.object, s.species>>)

ValidateReferencesAndAssignments ==
    /\ Check("references",
             {<<"reaction", k>> : k \in BadReactions}
             \union {<<"pipe override", k>> : k \in BadPipeOverrides}
             \union {<<"tank override", k>> : k \in BadTankOverrides}
             \union {<<"global quality", k>> : k \in BadGlobalQuality}
             \union {<<"node quality", k>> : k \in BadNodeQuality}
             \union {<<"pipe quality", k>> : k \in BadPipeQuality}
             \union {<<"source", k>> : k \in BadSources},
             "numerics")
    /\ UNCHANGED search

(* Diffusivity and fixed dispersion exclude each other, and walls both.    *)
BadDispersion(species) ==
    \/ species.type = "Wall" /\ species.dispersion # {}
    \/ species.dispersion = {"diffusivity", "fixed"}

Numbered == {"species", "constants", "parameters", "pipe_overrides", "tank_overrides",
             "patterns", "global_quality", "node_quality", "pipe_quality", "sources"}

BadNumbers ==
    UNION {{<<"number", list, k>> : k \in {l \in DOMAIN model[list] : ~model[list][l].good}} :
             list \in Numbered}

ValidateNumerics ==
    /\ Check("numerics",
             BadNumbers
             \union (IF model.options_good THEN {} ELSE {<<"options">>})
             \union {<<"dispersion", k>> : k \in {l \in DOMAIN model.species : BadDispersion(model.species[l])}}
             \union {<<"empty pattern", k>> : k \in {l \in DOMAIN model.patterns : model.patterns[l].multipliers = 0}},
             "expressions")
    /\ UNCHANGED search

-----------------------------------------------------------------------------
(* validateExpressions: what is wrong with each expression by itself, and  *)
(* what the terms depend on.                                               *)

KnownSymbols == IdsOf(Symbols)
BadExpression(e) == ~e.valid \/ e.long \/ ~(e.symbols \subseteq KnownSymbols)
ValidTerms == {k \in DOMAIN model.terms : model.terms[k].expression.valid}

(* A term with an expression that is not valid has no entry.  Of two terms *)
(* with one ID the later one has it.                                       *)
TermDependencies ==
    [t \in {model.terms[k].id : k \in ValidTerms} |->
        LET last == CHOOSE k \in ValidTerms :
                        /\ model.terms[k].id = t
                        /\ \A j \in ValidTerms : model.terms[j].id = t => j <= k
        IN  model.terms[last].expression.symbols \intersect KnownSymbols]

ValidateExpressions ==
    /\ Check("expressions",
             {<<"term", k>> : k \in {l \in DOMAIN model.terms : BadExpression(model.terms[l].expression)}}
             \union {<<"formula", k>> :
                       k \in {l \in DOMAIN model.reactions : BadExpression(model.reactions[l].expression)}},
             "search")
    /\ dependencies' = TermDependencies
    /\ UNCHANGED <<states, stack, cycle, next>>

-----------------------------------------------------------------------------
(* findTermCycle, with the recursion on a stack of its own.  QSet gives    *)
(* the dependencies in any order.                                          *)

Dependencies(t) == IF t \in DOMAIN dependencies THEN dependencies[t] ELSE {}
Top == stack[Len(stack)]
Frame(t) == [term |-> t, left |-> Dependencies(t)]

Searching == phase = "search"

(* The loop over the terms: the next one the search has not met.           *)
NextTerm ==
    /\ Searching /\ stack = <<>>
    /\ next <= Len(model.terms)
    /\ next' = next + 1
    /\ IF states[model.terms[next].id] = 0
       THEN /\ stack' = <<Frame(model.terms[next].id)>>
            /\ states' = [states EXCEPT ![model.terms[next].id] = 1]
       ELSE UNCHANGED <<states, stack>>
    /\ UNCHANGED <<model, phase, failures, dependencies, cycle, lines>>

(* Mutant of Undecided: a term that was met is never looked at again.      *)
UndecidedIfNew(d) == d \in DOMAIN dependencies /\ states[d] = 0

(* A dependency that is a term the search is not done with.                *)
Undecided(d) == d \in DOMAIN dependencies /\ states[d] # 2

Examined(d) ==
    [stack EXCEPT ![Len(stack)] = [term |-> Top.term, left |-> Top.left \ {d}]]

Skip ==
    /\ Searching /\ stack # <<>>
    /\ \E d \in Top.left :
          /\ ~Undecided(d)
          /\ stack' = Examined(d)
    /\ UNCHANGED <<model, phase, failures, dependencies, states, cycle, next, lines>>

Enter ==
    /\ Searching /\ stack # <<>>
    /\ \E d \in Top.left :
          /\ Undecided(d) /\ states[d] = 0
          /\ stack' = Append(Examined(d), Frame(d))
          /\ states' = [states EXCEPT ![d] = 1]
    /\ UNCHANGED <<model, phase, failures, dependencies, cycle, next, lines>>

(* stack.mid(stack.indexOf(d)), and d once more                            *)
CycleTo(d) ==
    LET start == CHOOSE i \in DOMAIN stack : stack[i].term = d
        length == Len(stack) - start + 2
    IN  [i \in 1 .. length |-> IF i = length THEN d ELSE stack[start + i - 1].term]

FindCycle ==
    /\ \E d \in IF Searching /\ stack # <<>> THEN Top.left ELSE {} :
          /\ Undecided(d) /\ states[d] = 1
          /\ cycle' = CycleTo(d)
    /\ Check("search", {<<"cycle">>}, "run")
    /\ UNCHANGED <<dependencies, states, stack, next>>

(* Mutant of Popped: the call does not return.                             *)
NotPopped == stack

Popped == [i \in 1 .. Len(stack) - 1 |-> stack[i]]

Leave ==
    /\ Searching /\ stack # <<>>
    /\ Top.left = {}
    /\ states' = [states EXCEPT ![Top.term] = 2]
    /\ stack' = Popped
    /\ UNCHANGED <<model, phase, failures, dependencies, cycle, next, lines>>

EndSearch ==
    /\ stack = <<>> /\ next > Len(model.terms)
    /\ Check("search", {}, "run")
    /\ UNCHANGED search

-----------------------------------------------------------------------------
(* validateEpanetMultiSpeciesRun, of a model without a failure *)

BadSelections ==
    {k \in DOMAIN model.selected : LacksSpecies(model.selected[k])}
    \union Repeats(model.selected, LAMBDA u : u)

ValidateRun ==
    /\ \/ /\ failures # {}
          /\ Check("run", {}, "invalid")
       \/ /\ failures = {}
          /\ LET found == {<<"selection", k>> : k \in BadSelections}
                          \union (IF model.species = <<>> THEN {<<"nothing to run">>} ELSE {})
             IN  Check("run", found, IF found = {} THEN "SPECIES" ELSE "invalid")
    /\ UNCHANGED search

-----------------------------------------------------------------------------
(* The sections.  A line is of a kind, its section and the word it begins  *)
(* with.  It defines a name, or says something about the IDs "about", with *)
(* the symbols of its expression and the pattern it needs.  The IDs of     *)
(* UUIDs are looked up; what has none stops the export.                    *)

IdOf(s, uuid) ==
    IF \E k \in DOMAIN s : s[k].uuid = uuid
    THEN s[CHOOSE k \in DOMAIN s : s[k].uuid = uuid].id ELSE NoRef

SpeciesId(uuid) == IdOf(model.species, uuid)
ParameterId(uuid) == IdOf(model.parameters, uuid)
Known(object, objects) == IF object \in objects THEN object ELSE NoRef

Line(kind, defines, about, pattern, symbols) ==
    [kind |-> kind, defines |-> defines, about |-> about, pattern |-> pattern, symbols |-> symbols]
Defining(kind, s) == [k \in DOMAIN s |-> Line(kind, s[k].id, <<>>, {}, {})]
Saying(kind, s, About(_)) == [k \in DOMAIN s |-> Line(kind, NoRef, About(s[k]), {}, {})]

(* What a loop with a condition makes of a list: the elements at S.        *)
Those(s, S) ==
    LET kept[n \in 0 .. Len(s)] ==
          IF n = 0 THEN <<>> ELSE IF n \in S THEN Append(kept[n - 1], s[n]) ELSE kept[n - 1]
    IN  kept[Len(s)]

AppendSpecies == Defining("SPECIES", model.species)
AppendCoefficients ==
    Defining("COEFFICIENTS", model.constants) \o Defining("COEFFICIENTS", model.parameters)
AppendTerms ==
    [k \in DOMAIN model.terms |->
        Line("TERMS", model.terms[k].id, <<>>, {}, model.terms[k].expression.symbols)]

AppendReactions(location) ==
    LET here == Those(model.reactions,
                      {k \in DOMAIN model.reactions : model.reactions[k].location = location})
    IN  [k \in DOMAIN here |->
            Line(location, NoRef, <<SpeciesId(here[k].species)>>, {}, here[k].expression.symbols)]

AppendSources ==
    [k \in DOMAIN model.sources |->
        LET s == model.sources[k]
        IN  Line("SOURCES", NoRef, <<Known(s.object, Nodes), SpeciesId(s.species)>>,
                 IF s.pattern = NoRef THEN {} ELSE {IdOf(model.patterns, s.pattern)}, {})]

AppendQuality ==
    Saying("GLOBAL_QUALITY", model.global_quality, LAMBDA q : <<SpeciesId(q.species)>>)
    \o Saying("NODE_QUALITY", model.node_quality,
              LAMBDA q : <<Known(q.object, Nodes), SpeciesId(q.species)>>)
    \o Saying("LINK_QUALITY", model.pipe_quality,
              LAMBDA q : <<Known(q.object, Pipes), SpeciesId(q.species)>>)

AppendParameters ==
    Saying("PIPE_PARAMETERS", model.pipe_overrides,
           LAMBDA o : <<Known(o.object, Pipes), ParameterId(o.parameter)>>)
    \o Saying("TANK_PARAMETERS", model.tank_overrides,
              LAMBDA o : <<Known(o.object, Tanks), ParameterId(o.parameter)>>)

(* A pattern without multipliers has no line, one with many has several.   *)
AppendPatterns ==
    Defining("PATTERNS",
             Those(model.patterns, {k \in DOMAIN model.patterns : model.patterns[k].multipliers > 0}))

AppendDiffusivity ==
    Saying("DIFFUSIVITY",
           Those(model.species, {k \in DOMAIN model.species : model.species[k].dispersion # {}}),
           LAMBDA s : <<s.id>>)

Sections == <<"SPECIES", "COEFFICIENTS", "TERMS", "PIPES", "TANKS", "SOURCES", "QUALITY",
              "PARAMETERS", "PATTERNS", "DIFFUSIVITY">>

Section(name) ==
    CASE name = "SPECIES" -> AppendSpecies
      [] name = "COEFFICIENTS" -> AppendCoefficients
      [] name = "TERMS" -> AppendTerms
      [] name \in {"PIPES", "TANKS"} -> AppendReactions(name)
      [] name = "SOURCES" -> AppendSources
      [] name = "QUALITY" -> AppendQuality
      [] name = "PARAMETERS" -> AppendParameters
      [] name = "PATTERNS" -> AppendPatterns
      [] name = "DIFFUSIVITY" -> AppendDiffusivity

(* resolveOrFail                                                           *)
Unresolved(line) == NoRef \in Elems(line.about) \union line.pattern

WriteSection ==
    \E k \in DOMAIN Sections :
        /\ phase = Sections[k]
        /\ IF \E line \in Elems(Section(phase)) : Unresolved(line)
           THEN phase' = "stuck" /\ lines' = <<>>
           ELSE /\ phase' = IF k < Len(Sections) THEN Sections[k + 1] ELSE "written"
                /\ lines' = lines \o Section(phase)
        /\ UNCHANGED <<model, failures, search>>

ExportNext ==
    \/ ModelHasContent \/ ValidateIdentities \/ ValidateReferencesAndAssignments
    \/ ValidateNumerics \/ ValidateExpressions
    \/ NextTerm \/ Skip \/ Enter \/ FindCycle \/ Leave \/ EndSearch
    \/ ValidateRun \/ WriteSection

ExportSpec == ExportInit /\ [][ExportNext]_exportVars

(* A function that was called runs until it returns.                       *)
FairExportSpec == ExportSpec /\ WF_exportVars(ExportNext)

-----------------------------------------------------------------------------
(* Properties. *)

(* Terms that no order of evaluation can start with.                       *)
Knot(S) == S # {} /\ \A t \in S : Dependencies(t) \intersect S # {}

Adjacent(c) == \A i \in 1 .. Len(c) - 1 : c[i + 1] \in Dependencies(c[i])

AfterSearch == phase \notin {"content", "identities", "references", "numerics", "expressions", "search"}

(* validateExpressions reports a cyclic dependency exactly if there are    *)
(* terms that cannot be evaluated in any order, wherever the search began  *)
(* and whatever came after it was cut short; and the cycle it reports is   *)
(* one: each term is a dependency of the one before, the last is the first *)
(* (epanet_msx_validator.cpp:725, 834).                                    *)
CyclesAreFound ==
    AfterSearch =>
        /\ cycle # <<>> <=> \E S \in SUBSET DOMAIN dependencies : Knot(S)
        /\ cycle # <<>> => /\ Len(cycle) > 1 /\ cycle[1] = cycle[Len(cycle)]
                           /\ Adjacent(cycle)

(* The text that EPANET-MSX is given says the whole model and can be read: *)
(* no validated model gets the exporter stuck, every name is defined once, *)
(* every name that is used is defined, nothing is said of a part that is   *)
(* disabled or said twice, no wall species has a source, and every entry   *)
(* of the model is there (epanet_msx_exporter.cpp:519).                    *)
ExportMeansTheModel ==
    LET written == Elems(lines)
        patterns == {l.defines : l \in {w \in written : w.kind = "PATTERNS"}}
        symbols == {l.defines : l \in {w \in written : w.kind # "PATTERNS"}} \ {NoRef}
        defined(name, kinds) ==
            {k \in DOMAIN lines : lines[k].kind \in kinds /\ lines[k].defines = name}
    IN  /\ phase # "stuck"
        /\ phase = "written" =>
            /\ \A n \in symbols : Cardinality(defined(n, {"SPECIES", "COEFFICIENTS", "TERMS"})) = 1
            /\ \A p \in patterns : Cardinality(defined(p, {"PATTERNS"})) = 1
            /\ \A l \in written : /\ l.symbols \subseteq symbols /\ l.pattern \subseteq patterns
                                  /\ Elems(l.about) \intersect (Nodes \union Pipes) \subseteq Enabled
            /\ \A i, k \in DOMAIN lines :
                  lines[i].about = lines[k].about /\ lines[i].kind = lines[k].kind
                  => i = k \/ lines[i].about = <<>>
            /\ \A s \in Elems(model.species) : s.type = "Wall" =>
                  ~\E l \in written : l.kind \in {"SOURCES", "TANKS", "DIFFUSIVITY"} /\ s.id \in Elems(l.about)
            /\ Len(lines) = Len(Symbols) + Len(model.reactions) + Len(model.sources)
                  + Len(model.global_quality) + Len(model.node_quality) + Len(model.pipe_quality)
                  + Len(model.pipe_overrides) + Len(model.tank_overrides) + Len(model.patterns)
                  + Cardinality({s \in Elems(model.species) : s.dispersion # {}})

(* Validation and export come to an end, also if the terms are circular.   *)
ExportEnds == <>(phase \in {"invalid", "stuck", "written"})
=============================================================================
