---------------------------- MODULE NetworkBuilder ----------------------------
(***************************************************************************)
(* EpanetNetworkBuilder::build: the prepared network is put into a project *)
(* of the toolkit, object by object, and the index registry remembers      *)
(* under which index the toolkit keeps what.  A failure does not stop the  *)
(* build: it is collected, and what comes later meets a toolkit that lacks *)
(* an object, or has one that was added but never finished.                *)
(*                                                                         *)
(* An entity stands for its UUID and its ID, which validation has shown to *)
(* be unique; registering them (registerBackendId) cannot fail then.  What *)
(* is wrong with an entity's own values is abstracted to when the builder  *)
(* notices: before the toolkit has added the object ("early") or after     *)
(* ("late").  Every call of the toolkit may fail, MaxFaults times at most. *)
(* No call of the build returns a warning code: only EN_runH does.         *)
(***************************************************************************)
EXTENDS Integers, Sequences, FiniteSets

CONSTANTS
    Networks,       (* the prepared networks considered                    *)
    NoRef,          (* the null UUID, the empty ID, index 0                *)
    Constant,       (* the pattern of a demand with mode Constant          *)
    PrivateIds,     (* __AOWIS_CONSTANT, __AOWIS_CONSTANT_1, ... in order  *)
    Private(_),     (* the ID of the constant efficiency curve of a pump   *)
    Stranger,       (* the ID of a rule that EPANET did not read as meant  *)
    MaxFaults       (* bounds the calls that fail                          *)

ASSUME MaxFaultsAssumption == MaxFaults \in Nat

VARIABLES
    net,        (* the request of build()                                  *)
    todo,       (* the operations that are left, in order                  *)
    tk,         (* the project: its objects of each kind, by index         *)
    uses,       (* what the objects of the project refer to                *)
    reg,        (* EpanetIndexRegistry                                     *)
    constantId, (* constant_demand_pattern_id                              *)
    first,      (* what first_failure is about; NoRef while it is success  *)
    diags,      (* what the diagnostics with severity Error are about      *)
    built,      (* history: the entities no operation has failed for       *)
    faults

vars == <<net, todo, tk, uses, reg, constantId, first, diags, built, faults>>

-----------------------------------------------------------------------------
(* Sequences of entities, and the networks that pass validation.           *)

Elems(s) == {s[k] : k \in DOMAIN s}
Ids(s) == [k \in DOMAIN s |-> s[k].id]
IdSet(s) == Elems(Ids(s))
IndexOf(s, e) == CHOOSE k \in DOMAIN s : s[k] = e
Distinct(s) == \A i, j \in DOMAIN s : s[i] = s[j] => i = j

Nodes(n) == Ids(n.junctions) \o Ids(n.reservoirs) \o Ids(n.tanks)
Links(n) == Ids(n.pipes) \o Ids(n.pumps) \o Ids(n.valves)
Entities(n) == Elems(Nodes(n) \o Links(n) \o Ids(n.patterns) \o Ids(n.curves)
                     \o Ids(n.controls) \o Ids(n.rules))

(* validateIdentities.  An ID may come again in another kind of object;    *)
(* here an entity is its UUID too, which may not.                          *)
IdentitiesAreUnique(n) ==
    /\ Distinct(Nodes(n) \o Links(n) \o Ids(n.patterns) \o Ids(n.curves)
                \o Ids(n.controls) \o Ids(n.rules))
    /\ NoRef \notin Entities(n)

(* validateReferences, of a network that has only enabled entities.  The   *)
(* kinds of the curves are left out.                                       *)
ReferencesAreKnown(n) ==
    LET patterns == IdSet(n.patterns) \union {NoRef}
        curves == IdSet(n.curves) \union {NoRef}
        nodes == Elems(Nodes(n))
        links == Elems(Links(n))
    IN  /\ \A j \in Elems(n.junctions) : Elems(j.demands) \subseteq patterns \union {Constant}
        /\ \A r \in Elems(n.reservoirs) : r.pattern \in patterns
        /\ \A t \in Elems(n.tanks) : t.curve \in curves
        /\ \A l \in Elems(n.pipes) \union Elems(n.pumps) \union Elems(n.valves) :
              {l.from, l.to} \subseteq nodes
        /\ \A p \in Elems(n.pumps) : /\ {p.speed, p.price} \subseteq patterns
                                     /\ p.head \in curves
                                     /\ p.efficiency \in curves \union {Constant}
        /\ \A v \in Elems(n.valves) : v.curve \in curves
        /\ {n.default, n.energy} \subseteq patterns
        /\ \A c \in Elems(n.controls) : c.link \in links /\ c.node \in nodes \union {NoRef}
        /\ \A r \in Elems(n.rules) : r.nodes \subseteq nodes /\ r.links \subseteq links

(* What build() is given, also before it is validated: lists; and as many  *)
(* private IDs to try as it takes to find a free one.                      *)
IsList(s) == s \in Seq(Elems(s))

ASSUME NetworksAssumption ==
    \A n \in Networks :
        /\ IsList(n.patterns) /\ IsList(n.curves)
        /\ IsList(n.junctions) /\ IsList(n.reservoirs) /\ IsList(n.tanks)
        /\ IsList(n.pipes) /\ IsList(n.pumps) /\ IsList(n.valves)
        /\ IsList(n.controls) /\ IsList(n.rules)

ASSUME IdsAssumption ==
    /\ Constant # NoRef
    /\ IsList(PrivateIds) /\ NoRef \notin Elems(PrivateIds)
    /\ \A n \in Networks : /\ ~(Elems(PrivateIds) \subseteq IdSet(n.patterns))
                           /\ \A p \in IdSet(n.pumps) : Private(p) # NoRef

-----------------------------------------------------------------------------
(* The order of build(). *)

Each(op, s) == [k \in DOMAIN s |-> [op |-> op, item |-> s[k]]]
Once(op) == <<[op |-> op, item |-> NoRef]>>

Plan(n) ==
    Each("AddPattern", n.patterns)
    \o Once("ConstantPattern") \o Once("DefaultPattern") \o Once("EnergyPattern")
    \o Each("AddCurve", n.curves)
    \o Each("AddJunction", n.junctions) \o Each("AddReservoir", n.reservoirs)
    \o Each("AddTank", n.tanks) \o Once("RefreshNodes")
    \o Each("AddPipe", n.pipes) \o Each("AddPump", n.pumps) \o Each("AddValve", n.valves)
    \o Once("RefreshLinks") \o Each("SetMetadata", Nodes(n) \o Links(n))
    \o Each("AddControl", n.controls) \o Each("AddRule", n.rules)

Init ==
    /\ net \in {n \in Networks : IdentitiesAreUnique(n) /\ ReferencesAreKnown(n)}
    /\ todo = Plan(net)
    /\ tk = [nodes |-> <<>>, links |-> <<>>, patterns |-> <<>>, curves |-> <<>>,
             controls |-> <<>>, rules |-> <<>>, default |-> NoRef, energy |-> NoRef]
    /\ uses = {}
    /\ reg = <<>>
    /\ constantId = NoRef
    /\ first = NoRef
    /\ diags = <<>>
    /\ built = {}
    /\ faults = 0

Done == todo = <<>>
Turn(op) == ~Done /\ Head(todo).op = op
Item == Head(todo).item

(* How an operation ends: with its object refused, half made or done.  The *)
(* builder's own checks say which it is, unless the toolkit fails.         *)
Due(early, late) == IF early THEN "refused" ELSE IF late THEN "half" ELSE "done"

Ends(ending, early, late) ==
    \/ /\ ending = Due(early, late)
       /\ UNCHANGED faults
    \/ /\ ending \in {"refused", "half"} \ {Due(early, late)}
       /\ ~early /\ faults < MaxFaults
       /\ faults' = faults + 1

(* Mutant of Collect: what fails after the first failure is not reported.  *)
CollectFirst(failed) ==
    /\ diags' = IF first = NoRef THEN diags \o failed ELSE diags
    /\ first' = IF first = NoRef /\ failed # <<>> THEN Head(failed) ELSE first

(* collectBuildFailure, for each that failed                               *)
Collect(failed) ==
    /\ diags' = diags \o failed
    /\ first' = IF first = NoRef /\ failed # <<>> THEN Head(failed) ELSE first

Registered(e) == e \in DOMAIN reg
Register(r, e, index) == [x \in DOMAIN r \union {e} |-> IF x = e THEN index ELSE r[x]]

(* Mutant of Failed: an object that was added counts as a success.         *)
FailedToAdd(e, ending) == IF ending = "refused" THEN <<e>> ELSE <<>>

Failed(e, ending) == IF ending = "done" THEN <<>> ELSE <<e>>

(* What all operations do in the end.                                      *)
Finish(e, ending, index, refs) ==
    /\ reg' = IF ending = "done" THEN Register(reg, e, index) ELSE reg
    /\ uses' = IF ending = "done" THEN uses \union refs ELSE uses
    /\ built' = IF ending = "done" THEN built \union {e} ELSE built
    /\ Collect(Failed(e, ending))
    /\ todo' = Tail(todo)
    /\ UNCHANGED net

(* An object is appended unless its addition is refused.                   *)
Added(s, e, ending) == IF ending = "refused" THEN s ELSE Append(s, e)

-----------------------------------------------------------------------------
(* Patterns and curves.  A pattern without factors is not added.           *)

AddPattern ==
    /\ Turn("AddPattern")
    /\ \E ending \in {"refused", "half", "done"} :
          /\ Ends(ending, Item.bad = "early", FALSE)
          /\ tk' = [tk EXCEPT !.patterns = Added(@, Item.id, ending)]
          /\ Finish(Item.id, ending, Len(tk'.patterns), {})
    /\ UNCHANGED constantId

(* The first ID that no pattern of the network has.                        *)
FreeId == PrivateIds[CHOOSE k \in DOMAIN PrivateIds :
             /\ PrivateIds[k] \notin IdSet(net.patterns)
             /\ \A i \in 1 .. k - 1 : PrivateIds[i] \in IdSet(net.patterns)]

(* Mutant of NeedsConstant: only the first demand of a junction counts.    *)
FirstNeedsConstant ==
    /\ net.default # NoRef
    /\ \E j \in Elems(net.junctions) : j.demands # <<>> /\ j.demands[1] = Constant

NeedsConstant ==
    /\ net.default # NoRef
    /\ \E j \in Elems(net.junctions) : Constant \in Elems(j.demands)

ConstantPattern ==
    /\ Turn("ConstantPattern")
    /\ \/ /\ ~NeedsConstant
          /\ todo' = Tail(todo)
          /\ UNCHANGED <<net, tk, uses, reg, constantId, first, diags, built, faults>>
       \/ /\ NeedsConstant
          /\ \E ending \in {"refused", "half", "done"} :
                /\ Ends(ending, FALSE, FALSE)
                /\ tk' = [tk EXCEPT !.patterns = Added(@, FreeId, ending)]
                /\ constantId' = IF ending = "done" THEN FreeId ELSE constantId
                /\ Collect(Failed(FreeId, ending))
          /\ todo' = Tail(todo)
          /\ UNCHANGED <<net, uses, reg, built>>

(* configureDefaultDemandPattern and configureGlobalEnergyPattern          *)
Option(field, pattern) ==
    /\ \E ending \in {"refused", "done"} :
          /\ \/ pattern = NoRef /\ ending = "done" /\ UNCHANGED faults
             \/ pattern # NoRef /\ Ends(ending, ~Registered(pattern), FALSE)
          /\ tk' = IF ending = "done" /\ pattern # NoRef
                     THEN [tk EXCEPT ![field] = tk.patterns[reg[pattern]]] ELSE tk
          /\ Collect(Failed(pattern, ending))
    /\ todo' = Tail(todo)
    /\ UNCHANGED <<net, uses, reg, constantId, built>>

DefaultPattern == Turn("DefaultPattern") /\ Option("default", net.default)
EnergyPattern == Turn("EnergyPattern") /\ Option("energy", net.energy)

(* The six kinds of curves, and addCurveData.  A tank volume curve is      *)
(* added before its points are looked at, the others after.                *)
AddCurve ==
    /\ Turn("AddCurve")
    /\ \E ending \in {"refused", "half", "done"} :
          /\ Ends(ending, Item.bad = "early", Item.bad = "late")
          /\ tk' = [tk EXCEPT !.curves = Added(@, Item.id, ending)]
          /\ Finish(Item.id, ending, Len(tk'.curves), {})
    /\ UNCHANGED constantId

-----------------------------------------------------------------------------
(* Nodes.  EN_addnode keeps the junctions before the reservoirs and tanks. *)

JunctionCount == Cardinality({k \in DOMAIN tk.nodes : tk.nodes[k] \in IdSet(net.junctions)})

Inserted(s, k, e) == SubSeq(s, 1, k - 1) \o <<e>> \o SubSeq(s, k, Len(s))

(* The pattern the toolkit is given for a demand: none, and the toolkit    *)
(* takes the default pattern.  Patterns go by their ID here.               *)
PatternOf(demand) == IF demand = Constant THEN constantId ELSE demand

AddJunction ==
    /\ Turn("AddJunction")
    /\ \E ending \in {"refused", "half", "done"} :
          /\ Ends(ending, FALSE, \E d \in Elems(Item.demands) :
                PatternOf(d) \notin {NoRef} \union Elems(tk.patterns))
          /\ tk' = [tk EXCEPT !.nodes =
                IF ending = "refused" THEN @ ELSE Inserted(@, JunctionCount + 1, Item.id)]
          /\ Finish(Item.id, ending, JunctionCount + 1,
                {<<Item.id, "demand", k, PatternOf(Item.demands[k])>> : k \in DOMAIN Item.demands})
    /\ UNCHANGED constantId

(* What an index of the registry stands for in the toolkit; 0 for nothing. *)
Ref(e, role, s, target) ==
    IF target = NoRef THEN {} ELSE {<<e, role, 1, IF Registered(target) THEN s[reg[target]] ELSE NoRef>>}

Lacks(target) == target # NoRef /\ ~Registered(target)

AddReservoir ==
    /\ Turn("AddReservoir")
    /\ \E ending \in {"refused", "half", "done"} :
          /\ Ends(ending, FALSE, Lacks(Item.pattern))
          /\ tk' = [tk EXCEPT !.nodes = Added(@, Item.id, ending)]
          /\ Finish(Item.id, ending, Len(tk'.nodes), Ref(Item.id, "pattern", tk.patterns, Item.pattern))
    /\ UNCHANGED constantId

(* The volume curve of a tank goes by its ID.                              *)
AddTank ==
    /\ Turn("AddTank")
    /\ \E ending \in {"refused", "half", "done"} :
          /\ Ends(ending, FALSE, Item.curve \notin {NoRef} \union Elems(tk.curves))
          /\ tk' = [tk EXCEPT !.nodes = Added(@, Item.id, ending)]
          /\ Finish(Item.id, ending, Len(tk'.nodes),
                IF Item.curve = NoRef THEN {} ELSE {<<Item.id, "curve", 1, Item.curve>>})
    /\ UNCHANGED constantId

(* Those that the toolkit does not have, in the order of the network.      *)
Missing(ids, s) ==
    LET among[k \in 0 .. Len(ids)] ==
            IF k = 0 THEN <<>>
            ELSE IF ids[k] \in Elems(s) THEN among[k - 1] ELSE Append(among[k - 1], ids[k])
    IN  among[Len(ids)]

(* rebuildNodeIndices and rebuildLinkIndices: EN_getnodeindex finds what   *)
(* the toolkit has, also what was never finished, and nothing else.        *)
Refresh(s, ids) ==
    /\ reg' = [x \in (DOMAIN reg \ Elems(ids)) \union (Elems(ids) \intersect Elems(s)) |->
                  IF x \in Elems(ids) THEN IndexOf(s, x) ELSE reg[x]]
    /\ Collect(Missing(ids, s))
    /\ todo' = Tail(todo)
    /\ UNCHANGED <<net, tk, uses, constantId, built, faults>>

RefreshNodes == Turn("RefreshNodes") /\ Refresh(tk.nodes, Nodes(net))
RefreshLinks == Turn("RefreshLinks") /\ Refresh(tk.links, Links(net))

-----------------------------------------------------------------------------
(* Links.  EN_addlink wants its two nodes by ID; they are always known to  *)
(* the builder, but perhaps not to the toolkit.                            *)

EndsOf(link) == {<<link.id, "from", 1, link.from>>, <<link.id, "to", 1, link.to>>}
Unlinkable(link) == ~({link.from, link.to} \subseteq Elems(tk.nodes))

AddPipe ==
    /\ Turn("AddPipe")
    /\ \E ending \in {"refused", "half", "done"} :
          /\ Ends(ending, Unlinkable(Item), FALSE)
          /\ tk' = [tk EXCEPT !.links = Added(@, Item.id, ending)]
          /\ Finish(Item.id, ending, Len(tk'.links), EndsOf(Item))
    /\ UNCHANGED constantId

(* The head curve is not among them: addLinkPump looks at the number of    *)
(* points it registered, not at whether the curve was added.               *)
PumpLacks(pump) ==
    \/ Lacks(pump.speed) \/ Lacks(pump.price)
    \/ pump.efficiency # Constant /\ Lacks(pump.efficiency)

(* The toolkit is given index 0 for a head curve that is not there, and    *)
(* takes it or not.  A constant efficiency becomes a curve of its own.     *)
AddPump ==
    /\ Turn("AddPump")
    /\ \E ending \in {"refused", "half", "done"}, takesZero, hasCurve \in BOOLEAN :
          LET efficiency == IF Item.efficiency # Constant
                            THEN Ref(Item.id, "efficiency", tk.curves, Item.efficiency)
                            ELSE {<<Item.id, "efficiency", 1, Private(Item.id)>>}
          IN  /\ Ends(ending, Unlinkable(Item),
                      Item.bad = "late" \/ PumpLacks(Item) \/ (Lacks(Item.head) /\ ~takesZero))
              /\ hasCurve => Item.efficiency = Constant /\ ending # "refused"
              /\ ending = "done" /\ Item.efficiency = Constant => hasCurve
              /\ tk' = [tk EXCEPT !.links = Added(@, Item.id, ending),
                                  !.curves = IF hasCurve THEN Append(@, Private(Item.id)) ELSE @]
              /\ Finish(Item.id, ending, Len(tk'.links),
                    EndsOf(Item) \union Ref(Item.id, "head", tk.curves, Item.head)
                    \union Ref(Item.id, "speed", tk.patterns, Item.speed) \union efficiency
                    \union Ref(Item.id, "price", tk.patterns, Item.price))
    /\ UNCHANGED constantId

AddValve ==
    /\ Turn("AddValve")
    /\ \E ending \in {"refused", "half", "done"} :
          /\ Ends(ending, Unlinkable(Item), Item.bad = "late" \/ Lacks(Item.curve))
          /\ tk' = [tk EXCEPT !.links = Added(@, Item.id, ending)]
          /\ Finish(Item.id, ending, Len(tk'.links),
                EndsOf(Item) \union Ref(Item.id, "curve", tk.curves, Item.curve))
    /\ UNCHANGED constantId

(* Comments and tags, of every node and link the registry has.             *)
SetMetadata ==
    /\ Turn("SetMetadata")
    /\ \E failed \in BOOLEAN :
          /\ failed => Registered(Item) /\ faults < MaxFaults
          /\ faults' = IF failed THEN faults + 1 ELSE faults
          /\ built' = IF failed THEN built \ {Item} ELSE built
          /\ Collect(IF failed THEN <<Item>> ELSE <<>>)
    /\ todo' = Tail(todo)
    /\ UNCHANGED <<net, tk, uses, reg, constantId>>

-----------------------------------------------------------------------------
(* Controls refer to links and nodes by index, rules by ID.  What makes a  *)
(* control or the text of a rule unusable is found before it is added.     *)

AddControl ==
    /\ Turn("AddControl")
    /\ \E ending \in {"refused", "half", "done"} :
          /\ Ends(ending, Item.bad = "early" \/ Lacks(Item.link) \/ Lacks(Item.node), FALSE)
          /\ tk' = [tk EXCEPT !.controls = Added(@, Item.id, ending)]
          /\ Finish(Item.id, ending, Len(tk'.controls),
                Ref(Item.id, "link", tk.links, Item.link) \union Ref(Item.id, "node", tk.nodes, Item.node))
    /\ UNCHANGED constantId

(* A fill-time premise wants a registered tank, an ACTIVE action a         *)
(* registered valve; otherwise it is enough that the toolkit has the       *)
(* objects a rule names.                                                   *)
Unruly(rule) ==
    \/ rule.bad = "early"
    \/ \E x \in rule.registered : ~Registered(x)
    \/ ~(rule.nodes \subseteq Elems(tk.nodes)) \/ ~(rule.links \subseteq Elems(tk.links))

(* A rule that comes out under another name is deleted, if EN_deleterule   *)
(* does not fail: its answer is ignored.                                   *)
AddRule ==
    /\ Turn("AddRule")
    /\ \E ending \in {"refused", "half", "done"}, name \in {Item.id, Stranger} :
          /\ name = Stranger => ending = "half"
          /\ Ends(ending, Unruly(Item), FALSE)
          /\ tk' = [tk EXCEPT !.rules = Added(@, name, ending)]
          /\ Finish(Item.id, ending, Len(tk.rules) + 1,
                {<<Item.id, "names", 1, x>> : x \in Item.nodes \union Item.links})
    /\ UNCHANGED constantId

Next ==
    \/ AddPattern \/ ConstantPattern \/ DefaultPattern \/ EnergyPattern \/ AddCurve
    \/ AddJunction \/ AddReservoir \/ AddTank \/ RefreshNodes
    \/ AddPipe \/ AddPump \/ AddValve \/ RefreshLinks \/ SetMetadata
    \/ AddControl \/ AddRule

Spec == Init /\ [][Next]_vars

-----------------------------------------------------------------------------
(* Properties. *)

(* What the network asks the toolkit to hold for its entities.             *)
Wanted(n) ==
    LET one(e, role, target) == IF target = NoRef THEN {} ELSE {<<e, role, 1, target>>}
        ends(l) == {<<l.id, "from", 1, l.from>>, <<l.id, "to", 1, l.to>>}
    IN  UNION ({one(r.id, "pattern", r.pattern) : r \in Elems(n.reservoirs)}
         \union {one(t.id, "curve", t.curve) : t \in Elems(n.tanks)}
         \union {ends(l) : l \in Elems(n.pipes) \union Elems(n.pumps) \union Elems(n.valves)}
         \union {one(p.id, "head", p.head) : p \in Elems(n.pumps)}
         \union {one(p.id, "speed", p.speed) : p \in Elems(n.pumps)}
         \union {one(p.id, "price", p.price) : p \in Elems(n.pumps)}
         \union {one(p.id, "efficiency", IF p.efficiency = Constant THEN Private(p.id)
                                         ELSE p.efficiency) : p \in Elems(n.pumps)}
         \union {one(v.id, "curve", v.curve) : v \in Elems(n.valves)}
         \union {one(c.id, "link", c.link) : c \in Elems(n.controls)}
         \union {one(c.id, "node", c.node) : c \in Elems(n.controls)}
         \union {{<<r.id, "names", 1, x>> : x \in r.nodes \union r.links} : r \in Elems(n.rules)})

(* A build that reports success has put every entity into the project,     *)
(* has an index for it, and everything that refers to a pattern, curve,    *)
(* node or link refers to the one of the network: never to index 0, never  *)
(* to a half-made object.  Results are only simulated after a success.     *)
SuccessIsComplete ==
    Done /\ first = NoRef =>
        /\ built = Entities(net) /\ DOMAIN reg = Entities(net)
        /\ {u \in uses : u[2] # "demand"} = Wanted(net)
        /\ tk.default = net.default /\ tk.energy = net.energy

(* Every entity that is not as it should be has an error of its own, also  *)
(* when first_failure is about another one, and first_failure is about the *)
(* first of them (collectBuildFailure).                                    *)
FailuresAreReported ==
    Done => /\ Entities(net) \ built \subseteq Elems(diags)
            /\ first = IF diags = <<>> THEN NoRef ELSE diags[1]

(* In a project with a default demand pattern, a demand that is constant   *)
(* is not given the default, and one without a pattern is: the private     *)
(* pattern shields exactly the constant ones, and is nobody else's.        *)
DemandsStayConstant ==
    Done /\ first = NoRef =>
        \A j \in Elems(net.junctions) : \A k \in DOMAIN j.demands :
            \E p \in Elems(tk.patterns) \union {NoRef} :
                /\ <<j.id, "demand", k, p>> \in uses
                /\ LET effective == IF p = NoRef THEN tk.default ELSE p
                   IN  CASE j.demands[k] = Constant -> effective \notin IdSet(net.patterns)
                         [] j.demands[k] = NoRef -> effective = net.default
                         [] OTHER -> effective = j.demands[k]
=============================================================================
