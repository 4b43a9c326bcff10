------------------------ MODULE NetworkBuilderProofs ------------------------
(***************************************************************************)
(* The build of a project and the readers of its results, for every        *)
(* network that passes validation and any number of failing calls.         *)
(*                                                                         *)
(* The inductive invariant looks at the operations by their order: what is *)
(* left to do is a suffix of the plan, every operation that is over has    *)
(* settled its entity or collected a failure for it, and while nothing has *)
(* failed the registry's indices still lead to the objects they were given *)
(* for, the options are set, and each object refers to what the network    *)
(* wants.  "While nothing has failed" is the diagnostics being empty, and  *)
(* not first_failure: that they agree is a part of the invariant.  What    *)
(* protects the indices is the order: patterns, curves and controls are    *)
(* only appended, nodes are moved by a later junction and read back before *)
(* the first link or control looks at them.                                *)
(***************************************************************************)
EXTENDS ResultReaders, FiniteSetTheorems, SequenceTheorems, TLAPS

-----------------------------------------------------------------------------
(* The order of the operations in build().                                 *)
Rank == [AddPattern |-> 1, ConstantPattern |-> 2, DefaultPattern |-> 3, EnergyPattern |-> 4,
         AddCurve |-> 5, AddJunction |-> 6, AddReservoir |-> 7, AddTank |-> 8,
         RefreshNodes |-> 9, AddPipe |-> 10, AddPump |-> 11, AddValve |-> 12,
         RefreshLinks |-> 13, SetMetadata |-> 14, AddControl |-> 15, AddRule |-> 16]

(* What there is to do: an operation and what it is about.                 *)
Tasks(op, S) == {[op |-> op, item |-> x] : x \in S}

AllTasks(n) ==
    Tasks("AddPattern", Elems(n.patterns))
    \union Tasks("ConstantPattern", {NoRef}) \union Tasks("DefaultPattern", {NoRef})
    \union Tasks("EnergyPattern", {NoRef}) \union Tasks("AddCurve", Elems(n.curves))
    \union Tasks("AddJunction", Elems(n.junctions))
    \union Tasks("AddReservoir", Elems(n.reservoirs)) \union Tasks("AddTank", Elems(n.tanks))
    \union Tasks("RefreshNodes", {NoRef}) \union Tasks("AddPipe", Elems(n.pipes))
    \union Tasks("AddPump", Elems(n.pumps)) \union Tasks("AddValve", Elems(n.valves))
    \union Tasks("RefreshLinks", {NoRef})
    \union Tasks("SetMetadata", Elems(Nodes(n) \o Links(n)))
    \union Tasks("AddControl", Elems(n.controls)) \union Tasks("AddRule", Elems(n.rules))

AddNode == {"AddJunction", "AddReservoir", "AddTank"}
AddOps == AddNode \union {"AddPattern", "AddCurve", "AddPipe", "AddPump", "AddValve",
                          "AddControl", "AddRule"}

Left == Elems(todo)
Task(op) == [op |-> op, item |-> NoRef]

Network == net \in Networks /\ IdentitiesAreUnique(net) /\ ReferencesAreKnown(net)

(* What is left follows what is over, in the order of the plan, and no     *)
(* entity is added twice.                                                  *)
Scheduled ==
    /\ todo \in Seq(AllTasks(net))
    /\ \A i, k \in DOMAIN todo : i <= k => Rank[todo[i].op] <= Rank[todo[k].op]
    /\ \A o \in AllTasks(net) \ Left, p \in Left : Rank[o.op] <= Rank[p.op]
    /\ \A i, k \in DOMAIN todo :
          todo[i].op = todo[k].op /\ todo[i].op \in AddOps /\ todo[i].item.id = todo[k].item.id
            => i = k

ToolkitIsTyped ==
    tk \in [nodes : Seq(Elems(Nodes(net))), links : Seq(Elems(Links(net))),
            patterns : Seq(IdSet(net.patterns) \union {FreeId}),
            curves : Seq(IdSet(net.curves) \union {Private(p) : p \in IdSet(net.pumps)}),
            controls : Seq(IdSet(net.controls)), rules : Seq(IdSet(net.rules) \union {Stranger}),
            default : {NoRef, net.default}, energy : {NoRef, net.energy}]

(* first_failure is about the first diagnostic.                            *)
FailuresCollected ==
    /\ diags \in Seq(Entities(net) \union {FreeId})
    /\ first = IF diags = <<>> THEN NoRef ELSE diags[1]

(* Without a failure an entity that is built has an index.                 *)
EntitiesOnly ==
    /\ DOMAIN reg \subseteq Entities(net) /\ built \subseteq Entities(net)
    /\ diags = <<>> => built \subseteq DOMAIN reg

(* An operation that is over has built its entity or left a diagnostic.    *)
AllSettled ==
    \A o \in AllTasks(net) \ Left : o.op \in AddOps => o.item.id \in built \union Elems(diags)

(* The indices of these entities are those of their objects.               *)
Kept(r, s, ids) == \A e \in ids \intersect DOMAIN r : r[e] \in DOMAIN s /\ s[r[e]] = e

(* Nodes and links only from the moment they are read back: a junction     *)
(* that comes later moves the nodes before it.                             *)
IndicesKept ==
    /\ Kept(reg, tk.patterns, IdSet(net.patterns))
    /\ Kept(reg, tk.curves, IdSet(net.curves))
    /\ Task("RefreshNodes") \notin Left => Kept(reg, tk.nodes, Elems(Nodes(net)))
    /\ Task("RefreshLinks") \notin Left => Kept(reg, tk.links, Elems(Links(net)))
    /\ Kept(reg, tk.controls, IdSet(net.controls))

NoneTwice ==
    /\ Distinct(tk.nodes) /\ Distinct(tk.controls)
    /\ \A o \in Left : /\ o.op \in AddNode => o.item.id \notin Elems(tk.nodes)
                       /\ o.op = "AddControl" => o.item.id \notin Elems(tk.controls)

OptionsSet ==
    diags = <<>> => /\ Task("DefaultPattern") \notin Left => tk.default = net.default
                    /\ Task("EnergyPattern") \notin Left => tk.energy = net.energy

ConstantNamed ==
    /\ constantId \in {NoRef, FreeId}
    /\ ~NeedsConstant => constantId = NoRef
    /\ diags = <<>> /\ NeedsConstant /\ Task("ConstantPattern") \notin Left =>
          constantId = FreeId /\ FreeId \in Elems(tk.patterns)

(* A demand is given to the toolkit with a pattern it has, or none.        *)
DemandOf(j, k) == <<j.id, "demand", k, PatternOf(j.demands[k])>>

DemandsUsed ==
    diags = <<>> =>
      \A o \in AllTasks(net) \ Left : o.op = "AddJunction" =>
        \A k \in DOMAIN o.item.demands :
            /\ DemandOf(o.item, k) \in uses
            /\ PatternOf(o.item.demands[k]) \in {NoRef} \union Elems(tk.patterns)

One(e, role, target) == IF target = NoRef THEN {} ELSE {<<e, role, 1, target>>}

(* What one operation asks the toolkit to hold.                            *)
WantedBy(o) ==
    CASE o.op = "AddReservoir" -> One(o.item.id, "pattern", o.item.pattern)
      [] o.op = "AddTank" -> One(o.item.id, "curve", o.item.curve)
      [] o.op = "AddPipe" -> EndsOf(o.item)
      [] o.op = "AddPump" -> EndsOf(o.item) \union One(o.item.id, "head", o.item.head)
             \union One(o.item.id, "speed", o.item.speed)
             \union One(o.item.id, "price", o.item.price)
             \union One(o.item.id, "efficiency", IF o.item.efficiency = Constant
                          THEN Private(o.item.id) ELSE o.item.efficiency)
      [] o.op = "AddValve" -> EndsOf(o.item) \union One(o.item.id, "curve", o.item.curve)
      [] o.op = "AddControl" -> One(o.item.id, "link", o.item.link)
                                \union One(o.item.id, "node", o.item.node)
      [] o.op = "AddRule" -> {<<o.item.id, "names", 1, x>> : x \in o.item.nodes \union o.item.links}
      [] OTHER -> {}

UsesWanted ==
    diags = <<>> =>
      /\ \A u \in uses : u[2] # "demand" => \E o \in AllTasks(net) : u \in WantedBy(o)
      /\ \A o \in AllTasks(net) \ Left : WantedBy(o) \subseteq uses

IInv == /\ Network
        /\ Scheduled
        /\ ToolkitIsTyped
        /\ FailuresCollected
        /\ EntitiesOnly
        /\ AllSettled
        /\ IndicesKept
        /\ NoneTwice
        /\ OptionsSet
        /\ ConstantNamed
        /\ DemandsUsed
        /\ UsesWanted

PlainRow(e) == [id |-> e, of |-> e]
PumpRow(e, open, state) == [id |-> e, of |-> e, open |-> open, state |-> state]
(* The rows a reader can append: each read from its own object.            *)
Row == {PlainRow(e) : e \in Elems(Nodes(net) \o Links(net))}
       \union {PumpRow(e, IsOpen(status), PumpState(status)) : e \in IdSet(net.pumps), status \in PumpStatuses}

(* A result is only read from a project built without a failure; its rows  *)
(* and what is unread are the network, in its order.                       *)
ReadersInv ==
    /\ reading \in {"nothing", "hydraulics", "quality"}
    /\ answer \in {"open", "read", "failed"}
    /\ reading = "nothing" => rows = <<>> /\ answer = "open" /\ event = NoEvent
    /\ reading # "nothing" =>
          /\ Done /\ first = NoRef
          /\ rows \in Seq(Row)
          /\ unread \in Seq(Elems(Nodes(net) \o Links(net)))
          /\ Ids(rows) \o unread = Nodes(net) \o Links(net)
    /\ answer = "read" => unread = <<>>
    /\ answer # "read" => event = NoEvent
    /\ event.entity = event.meant

-----------------------------------------------------------------------------
(* Lists.                                                                  *)

LEMMA ListIsSeq ==
  ASSUME NEW s, IsList(s)
  PROVE  /\ Len(s) \in Nat /\ DOMAIN s = 1 .. Len(s)
         /\ \A k \in DOMAIN s : s[k] \in Elems(s)
         /\ \A e \in Elems(s) : \E k \in DOMAIN s : s[k] = e
         /\ s = <<>> <=> Elems(s) = {}
<1>1. s \in Seq(Elems(s))
  BY DEF IsList
<1>2. Len(s) \in Nat /\ DOMAIN s = 1 .. Len(s)
  BY <1>1
<1>3. s = <<>> => Elems(s) = {}
  BY <1>1 DEF Elems
<1>4. s # <<>> => s[1] \in Elems(s)
  BY <1>1 DEF Elems
<1>5. (\A k \in DOMAIN s : s[k] \in Elems(s)) /\ \A e \in Elems(s) : \E k \in DOMAIN s : s[k] = e
  BY DEF Elems
<1>6. QED
  BY <1>2, <1>3, <1>4, <1>5

LEMMA SeqIsList ==
  ASSUME NEW S, NEW s \in Seq(S)
  PROVE  IsList(s) /\ Elems(s) \subseteq S
<1>1. Len(s) \in Nat /\ s \in [1 .. Len(s) -> S] /\ DOMAIN s = 1 .. Len(s)
  OBVIOUS
<1>2. Elems(s) \subseteq S
  BY <1>1 DEF Elems
<1>3. \A k \in 1 .. Len(s) : s[k] \in Elems(s)
  BY <1>1 DEF Elems
<1> DEFINE E == Elems(s)
<1> HIDE DEF E
<1>4. s \in [1 .. Len(s) -> E]
  BY <1>1, <1>3 DEF E
<1>5. s \in Seq(E)
  BY <1>1, <1>4
<1>6. QED
  BY <1>2, <1>5 DEF IsList, E

LEMMA EmptyList == IsList(<<>>) /\ Elems(<<>>) = {}
BY DEF IsList, Elems

LEMMA ConcatIsList ==
  ASSUME NEW s, NEW t, IsList(s), IsList(t)
  PROVE  /\ IsList(s \o t) /\ Elems(s \o t) = Elems(s) \union Elems(t)
         /\ Len(s \o t) = Len(s) + Len(t)
         /\ \A k \in DOMAIN s : k \in DOMAIN (s \o t) /\ (s \o t)[k] = s[k]
         /\ \A k \in DOMAIN t : Len(s) + k \in DOMAIN (s \o t) /\ (s \o t)[Len(s) + k] = t[k]
<1> DEFINE E == Elems(s) \union Elems(t)
<1>1. Elems(s) \subseteq E /\ Elems(t) \subseteq E
  OBVIOUS
<1>2. s \in Seq(Elems(s)) /\ t \in Seq(Elems(t))
  BY DEF IsList
<1> HIDE DEF E
<1>3. s \in Seq(E) /\ t \in Seq(E)
  BY <1>1, <1>2
<1> DEFINE q == s \o t
<1>4. /\ q \in Seq(E) /\ Len(q) = Len(s) + Len(t) /\ Len(s) \in Nat /\ Len(t) \in Nat
      /\ DOMAIN q = 1 .. Len(s) + Len(t) /\ DOMAIN s = 1 .. Len(s) /\ DOMAIN t = 1 .. Len(t)
      /\ \A k \in 1 .. Len(s) + Len(t) : q[k] = IF k <= Len(s) THEN s[k] ELSE t[k - Len(s)]
  BY <1>3
<1> HIDE DEF q
<1>5. IsList(q) /\ Elems(q) \subseteq E
  BY <1>4, SeqIsList
<1>6. \A k \in DOMAIN s : k \in DOMAIN q /\ q[k] = s[k]
  BY <1>4
<1>7. \A k \in DOMAIN t : Len(s) + k \in DOMAIN q /\ q[Len(s) + k] = t[k]
  BY <1>4
<1>8. Elems(s) \subseteq Elems(q)
  BY <1>6 DEF Elems
<1>9. Elems(t) \subseteq Elems(q)
  BY <1>7 DEF Elems
<1>10. QED
  BY <1>4, <1>5, <1>6, <1>7, <1>8, <1>9 DEF q, E

LEMMA DistinctParts ==
  ASSUME NEW s, NEW t, IsList(s), IsList(t), Distinct(s \o t)
  PROVE  Distinct(s) /\ Distinct(t) /\ Elems(s) \intersect Elems(t) = {}
<1> DEFINE q == s \o t
<1>1. /\ Len(s) \in Nat /\ DOMAIN s = 1 .. Len(s) /\ DOMAIN t = 1 .. Len(t) /\ Len(t) \in Nat
      /\ \A k \in DOMAIN s : k \in DOMAIN q /\ q[k] = s[k]
      /\ \A k \in DOMAIN t : Len(s) + k \in DOMAIN q /\ q[Len(s) + k] = t[k]
  BY ListIsSeq, ConcatIsList
<1>2. \A i, j \in DOMAIN q : q[i] = q[j] => i = j
  BY DEF Distinct
<1> HIDE DEF q
<1>3. Distinct(s)
  BY <1>1, <1>2 DEF Distinct
<1>4. Distinct(t)
  <2> SUFFICES ASSUME NEW i \in DOMAIN t, NEW j \in DOMAIN t, t[i] = t[j] PROVE i = j
    BY DEF Distinct
  <2>1. Len(s) + i = Len(s) + j
    BY <1>1, <1>2
  <2>2. QED
    BY <1>1, <2>1
<1>5. ASSUME NEW i \in DOMAIN s, NEW j \in DOMAIN t, s[i] = t[j] PROVE FALSE
  <2>1. i = Len(s) + j
    BY <1>1, <1>2, <1>5
  <2>2. QED
    BY <1>1, <2>1
<1>6. QED
  BY <1>3, <1>4, <1>5 DEF Elems

LEMMA IdsOfList ==
  ASSUME NEW s, IsList(s)
  PROVE  /\ IsList(Ids(s)) /\ DOMAIN Ids(s) = DOMAIN s /\ Len(Ids(s)) = Len(s)
         /\ \A k \in DOMAIN s : Ids(s)[k] = s[k].id
         /\ IdSet(s) = Elems(Ids(s)) /\ IdSet(s) = {e.id : e \in Elems(s)}
<1>1. Len(s) \in Nat /\ DOMAIN s = 1 .. Len(s)
  BY ListIsSeq
<1> DEFINE E == {s[k].id : k \in DOMAIN s}
           q == Ids(s)
<1>2. q \in [1 .. Len(s) -> E]
  BY <1>1 DEF Ids
<1>3. DOMAIN q = DOMAIN s /\ \A k \in DOMAIN s : q[k] = s[k].id
  BY DEF Ids
<1>4. Elems(q) = {e.id : e \in Elems(s)}
  BY <1>3 DEF Elems
<1> HIDE DEF E, q
<1>5. q \in Seq(E) /\ Len(q) = Len(s)
  BY <1>1, <1>2, <1>3
<1>6. IsList(q)
  BY <1>5, SeqIsList
<1>7. QED
  BY <1>3, <1>4, <1>5, <1>6 DEF q, IdSet

LEMMA AppendToList ==
  ASSUME NEW S, NEW s \in Seq(S), NEW x \in S
  PROVE  /\ Append(s, x) \in Seq(S) /\ Elems(Append(s, x)) = Elems(s) \union {x}
         /\ Len(Append(s, x)) = Len(s) + 1 /\ Len(Append(s, x)) \in DOMAIN Append(s, x)
         /\ Append(s, x)[Len(Append(s, x))] = x
         /\ \A k \in DOMAIN s : k \in DOMAIN Append(s, x) /\ Append(s, x)[k] = s[k]
         /\ x \notin Elems(s) /\ Distinct(s) => Distinct(Append(s, x))
<1> DEFINE q == Append(s, x)
<1>1. /\ q \in Seq(S) /\ Len(q) = Len(s) + 1 /\ Len(s) \in Nat /\ DOMAIN s = 1 .. Len(s)
      /\ DOMAIN q = 1 .. Len(s) + 1 /\ q[Len(s) + 1] = x
      /\ \A k \in 1 .. Len(s) : q[k] = s[k]
  OBVIOUS
<1> HIDE DEF q
<1>2. Elems(q) \subseteq Elems(s) \union {x}
  <2> SUFFICES ASSUME NEW k \in DOMAIN q PROVE q[k] \in Elems(s) \union {x}
    BY DEF Elems
  <2>1. CASE k = Len(s) + 1
    BY <1>1, <2>1
  <2>2. CASE k # Len(s) + 1
    <3>1. k \in DOMAIN s /\ q[k] = s[k]
      BY <1>1, <2>2
    <3>2. QED
      BY <3>1 DEF Elems
  <2>3. QED
    BY <2>1, <2>2
<1>3. Elems(s) \union {x} \subseteq Elems(q)
  <2>1. \A k \in DOMAIN s : k \in DOMAIN q /\ q[k] = s[k]
    BY <1>1
  <2>2. Len(s) + 1 \in DOMAIN q
    BY <1>1
  <2>3. QED
    BY <1>1, <2>1, <2>2 DEF Elems
<1>4. ASSUME x \notin Elems(s), Distinct(s) PROVE Distinct(q)
  <2> SUFFICES ASSUME NEW i \in DOMAIN q, NEW j \in DOMAIN q, q[i] = q[j] PROVE i = j
    BY DEF Distinct
  <2>1. \A k \in DOMAIN s : s[k] # x
    BY <1>4 DEF Elems
  <2>2. CASE i \in DOMAIN s /\ j \in DOMAIN s
    BY <1>1, <1>4, <2>2 DEF Distinct
  <2>3. CASE i \notin DOMAIN s \/ j \notin DOMAIN s
    BY <1>1, <2>1, <2>3
  <2>4. QED
    BY <2>2, <2>3
<1>5. Len(q) \in DOMAIN q /\ q[Len(q)] = x
  BY <1>1
<1>6. \A k \in DOMAIN s : k \in DOMAIN q /\ q[k] = s[k]
  BY <1>1
<1>7. QED
  BY <1>1, <1>2, <1>3, <1>4, <1>5, <1>6 DEF q

LEMMA TailOfList ==
  ASSUME NEW S, NEW s \in Seq(S), s # <<>>
  PROVE  /\ Tail(s) \in Seq(S) /\ Head(s) = s[1] /\ 1 \in DOMAIN s
         /\ Elems(s) = {Head(s)} \union Elems(Tail(s))
         /\ \A k \in DOMAIN Tail(s) : k + 1 \in DOMAIN s /\ Tail(s)[k] = s[k + 1] /\ k \in Nat
<1> DEFINE q == Tail(s)
<1>1. /\ q \in Seq(S) /\ Head(s) = s[1] /\ Len(s) \in Nat /\ Len(s) > 0 /\ Len(q) = Len(s) - 1
      /\ DOMAIN s = 1 .. Len(s) /\ DOMAIN q = 1 .. Len(s) - 1
      /\ \A k \in 1 .. Len(s) - 1 : q[k] = s[k + 1]
  OBVIOUS
<1> HIDE DEF q
<1>2. \A k \in DOMAIN q : k + 1 \in DOMAIN s /\ q[k] = s[k + 1] /\ k \in Nat
  BY <1>1
<1>3. 1 \in DOMAIN s
  BY <1>1
<1>4. {Head(s)} \union Elems(q) \subseteq Elems(s)
  BY <1>1, <1>2, <1>3 DEF Elems
<1>5. Elems(s) \subseteq {Head(s)} \union Elems(q)
  <2> SUFFICES ASSUME NEW k \in DOMAIN s, k # 1 PROVE s[k] \in Elems(q)
    BY <1>1 DEF Elems
  <2>1. k - 1 \in DOMAIN q /\ q[k - 1] = s[k]
    BY <1>1
  <2>2. QED
    BY <2>1 DEF Elems
<1>6. QED
  BY <1>1, <1>2, <1>3, <1>4, <1>5 DEF q

-----------------------------------------------------------------------------
(* The plan is in order: block after block, each of one operation.         *)

Ops == {"AddPattern", "ConstantPattern", "DefaultPattern", "EnergyPattern", "AddCurve", "AddJunction", "AddReservoir", "AddTank", "RefreshNodes", "AddPipe", "AddPump", "AddValve", "RefreshLinks", "SetMetadata", "AddControl", "AddRule"}

LEMMA Ranks ==
  /\ DOMAIN Rank = Ops
  /\ \A op \in Ops : Rank[op] \in 1 .. 16
  /\ Rank["AddPattern"] = 1
  /\ Rank["ConstantPattern"] = 2
  /\ Rank["DefaultPattern"] = 3
  /\ Rank["EnergyPattern"] = 4
  /\ Rank["AddCurve"] = 5
  /\ Rank["AddJunction"] = 6
  /\ Rank["AddReservoir"] = 7
  /\ Rank["AddTank"] = 8
  /\ Rank["RefreshNodes"] = 9
  /\ Rank["AddPipe"] = 10
  /\ Rank["AddPump"] = 11
  /\ Rank["AddValve"] = 12
  /\ Rank["RefreshLinks"] = 13
  /\ Rank["SetMetadata"] = 14
  /\ Rank["AddControl"] = 15
  /\ Rank["AddRule"] = 16
BY DEF Rank, Ops

IsBlock(s, S, op) ==
    /\ IsList(s) /\ Elems(s) = S
    /\ \A k \in DOMAIN s : s[k].op = op
    /\ op \in AddOps => \A i, k \in DOMAIN s : s[i].item.id = s[k].item.id => i = k

IsSchedule(s, S, rank) ==
    /\ IsList(s) /\ Elems(s) = S
    /\ \A k \in DOMAIN s : s[k].op \in Ops /\ Rank[s[k].op] <= rank
    /\ \A i, k \in DOMAIN s : i <= k => Rank[s[i].op] <= Rank[s[k].op]
    /\ \A i, k \in DOMAIN s :
          s[i].op = s[k].op /\ s[i].op \in AddOps /\ s[i].item.id = s[k].item.id => i = k

LEMMA EachIsBlock ==
  ASSUME NEW op, NEW s, IsList(s), op \in AddOps => Distinct(Ids(s))
  PROVE  IsBlock(Each(op, s), Tasks(op, Elems(s)), op)
<1> DEFINE q == Each(op, s)
           T == Tasks(op, Elems(s))
<1>1. Len(s) \in Nat /\ DOMAIN s = 1 .. Len(s)
  BY ListIsSeq
<1>2. DOMAIN q = DOMAIN s /\ \A k \in DOMAIN s : q[k] = [op |-> op, item |-> s[k]]
  BY DEF Each
<1>3. Elems(q) = T
  BY <1>2 DEF Elems, Tasks
<1>4. q \in [1 .. Len(s) -> T]
  BY <1>1, <1>2 DEF Each, Tasks, Elems
<1> HIDE DEF q, T
<1>5. q \in Seq(T)
  BY <1>1, <1>4
<1>6. IsList(q)
  BY <1>5, SeqIsList
<1>7. \A k \in DOMAIN q : q[k].op = op /\ q[k].item = s[k]
  BY <1>2
<1>8. ASSUME op \in AddOps, NEW i \in DOMAIN q, NEW k \in DOMAIN q,
             q[i].item.id = q[k].item.id
      PROVE  i = k
  <2>1. Ids(s)[i] = Ids(s)[k] /\ i \in DOMAIN Ids(s) /\ k \in DOMAIN Ids(s)
    BY <1>2, <1>7, <1>8, IdsOfList
  <2>2. QED
    BY <1>8, <2>1 DEF Distinct
<1>9. QED
  BY <1>3, <1>6, <1>7, <1>8 DEF q, T, IsBlock

LEMMA OnceIsBlock ==
  ASSUME NEW op, op \notin AddOps
  PROVE  IsBlock(Once(op), Tasks(op, {NoRef}), op)
<1> DEFINE t == [op |-> op, item |-> NoRef]
           q == Once(op)
<1>1. Tasks(op, {NoRef}) = {t} /\ t.op = op
  BY DEF Tasks
<1>2. q = <<t>>
  BY DEF Once
<1> HIDE DEF t, q
<1>3. q \in Seq({t}) /\ DOMAIN q = {1} /\ q[1] = t
  BY <1>2
<1>4. IsList(q)
  BY <1>3, SeqIsList
<1>5. Elems(q) = {t}
  BY <1>3 DEF Elems
<1>6. QED
  BY <1>1, <1>3, <1>4, <1>5 DEF q, IsBlock

LEMMA BlockIsSchedule ==
  ASSUME NEW op \in Ops, NEW s, NEW S, IsBlock(s, S, op)
  PROVE  IsSchedule(s, S, Rank[op])
BY Ranks DEF IsBlock, IsSchedule

LEMMA BlockFollows ==
  ASSUME NEW r \in Nat, NEW s, NEW S, IsSchedule(s, S, r),
         NEW op \in Ops, r < Rank[op], NEW t, NEW T, IsBlock(t, T, op)
  PROVE  IsSchedule(s \o t, S \union T, Rank[op])
<1> DEFINE q == s \o t
           n == Len(s)
<1>1. IsList(s) /\ IsList(t) /\ Elems(s) = S /\ Elems(t) = T
  BY DEF IsSchedule, IsBlock
<1>2. /\ Len(q) = n + Len(t) /\ n \in Nat /\ Len(t) \in Nat
      /\ IsList(q) /\ Elems(q) = S \union T
      /\ DOMAIN q = 1 .. Len(q) /\ DOMAIN s = 1 .. n /\ DOMAIN t = 1 .. Len(t)
      /\ \A k \in DOMAIN s : q[k] = s[k]
      /\ \A k \in DOMAIN t : q[n + k] = t[k]
  BY <1>1, ConcatIsList, ListIsSeq
<1> HIDE DEF q, n
<1>3. \A k \in DOMAIN q : k \in DOMAIN s \/ (k - n \in DOMAIN t /\ q[k] = t[k - n] /\ k > n)
  <2> SUFFICES ASSUME NEW k \in DOMAIN q, k \notin DOMAIN s
               PROVE  k - n \in DOMAIN t /\ q[k] = t[k - n] /\ k > n
    OBVIOUS
  <2>1. k - n \in DOMAIN t /\ n + (k - n) = k /\ k > n
    BY <1>2
  <2>2. QED
    BY <1>2, <2>1
<1>4. /\ \A k \in DOMAIN s : q[k].op \in Ops /\ Rank[q[k].op] <= r
      /\ \A k \in DOMAIN q \ DOMAIN s : q[k].op = op
  BY <1>2, <1>3 DEF IsSchedule, IsBlock
<1>5. \A o \in Ops : Rank[o] \in Nat
  BY Ranks
<1>6. \A k \in DOMAIN q : q[k].op \in Ops /\ Rank[q[k].op] <= Rank[op]
  BY <1>4, <1>5
<1>7. ASSUME NEW i \in DOMAIN q, NEW k \in DOMAIN q, i <= k
      PROVE  Rank[q[i].op] <= Rank[q[k].op]
  <2>1. CASE k \in DOMAIN s
    <3>1. i \in DOMAIN s
      BY <1>2, <1>7, <2>1
    <3>2. QED
      BY <1>2, <1>7, <2>1, <3>1 DEF IsSchedule
  <2>2. CASE k \notin DOMAIN s
    BY <1>4, <1>6, <2>2
  <2>3. QED
    BY <2>1, <2>2
<1>8. ASSUME NEW i \in DOMAIN q, NEW k \in DOMAIN q, q[i].op = q[k].op,
             q[i].op \in AddOps, q[i].item.id = q[k].item.id
      PROVE  i = k
  <2>1. CASE i \in DOMAIN s /\ k \in DOMAIN s
    BY <1>2, <1>8, <2>1 DEF IsSchedule
  <2>2. CASE i \notin DOMAIN s /\ k \notin DOMAIN s
    <3>1. op \in AddOps /\ i - n \in DOMAIN t /\ k - n \in DOMAIN t
          /\ t[i - n].item.id = t[k - n].item.id
      BY <1>3, <1>4, <1>8, <2>2
    <3>2. i - n = k - n
      BY <3>1 DEF IsBlock
    <3>3. QED
      BY <1>2, <3>2
  <2>3. CASE (i \in DOMAIN s) # (k \in DOMAIN s)
    BY <1>4, <1>5, <1>8, <2>3
  <2>4. QED
    BY <2>1, <2>2, <2>3
<1>9. QED
  BY <1>2, <1>6, <1>7, <1>8 DEF q, IsSchedule

-----------------------------------------------------------------------------
(* The entities of a network, kind by kind.                                *)

LEMMA Lists ==
  ASSUME NEW n \in Networks
  PROVE  /\ IsList(n.patterns) /\ IsList(n.curves) /\ IsList(n.junctions)
         /\ IsList(n.reservoirs) /\ IsList(n.tanks) /\ IsList(n.pipes) /\ IsList(n.pumps)
         /\ IsList(n.valves) /\ IsList(n.controls) /\ IsList(n.rules)
BY NetworksAssumption

LEMMA NodesAndLinks ==
  ASSUME NEW n \in Networks
  PROVE  /\ IsList(Nodes(n)) /\ IsList(Links(n))
         /\ Elems(Nodes(n)) = (IdSet(n.junctions) \union IdSet(n.reservoirs)) \union IdSet(n.tanks)
         /\ Elems(Links(n)) = (IdSet(n.pipes) \union IdSet(n.pumps)) \union IdSet(n.valves)
<1>1. /\ IsList(Ids(n.junctions)) /\ IsList(Ids(n.reservoirs)) /\ IsList(Ids(n.tanks))
      /\ IsList(Ids(n.pipes)) /\ IsList(Ids(n.pumps)) /\ IsList(Ids(n.valves))
  BY Lists, IdsOfList
<1>2. ASSUME NEW a, NEW b, NEW c, IsList(a), IsList(b), IsList(c)
      PROVE  /\ IsList(a \o b \o c)
             /\ Elems(a \o b \o c) = (Elems(a) \union Elems(b)) \union Elems(c)
  <2>1. IsList(a \o b) /\ Elems(a \o b) = Elems(a) \union Elems(b)
    BY <1>2, ConcatIsList
  <2>2. QED
    BY <1>2, <2>1, ConcatIsList
<1>3. /\ IsList(Nodes(n))
      /\ Elems(Nodes(n)) = (Elems(Ids(n.junctions)) \union Elems(Ids(n.reservoirs)))
                             \union Elems(Ids(n.tanks))
  BY <1>1, <1>2 DEF Nodes
<1>4. /\ IsList(Links(n))
      /\ Elems(Links(n)) = (Elems(Ids(n.pipes)) \union Elems(Ids(n.pumps)))
                             \union Elems(Ids(n.valves))
  BY <1>1, <1>2 DEF Links
<1>5. QED
  BY <1>3, <1>4 DEF IdSet

Kinds(n) ==
    [nodes |-> Elems(Nodes(n)), links |-> Elems(Links(n)), patterns |-> IdSet(n.patterns),
     curves |-> IdSet(n.curves), controls |-> IdSet(n.controls), rules |-> IdSet(n.rules)]

LEMMA EntitiesByKind ==
  ASSUME NEW n \in Networks
  PROVE  Entities(n) = UNION {Kinds(n)[k] : k \in DOMAIN Kinds(n)}
<1> DEFINE a == Nodes(n)
           b == Links(n)
           c == Ids(n.patterns)
           d == Ids(n.curves)
           e == Ids(n.controls)
           f == Ids(n.rules)
<1>1. IsList(a) /\ IsList(b) /\ IsList(c) /\ IsList(d) /\ IsList(e) /\ IsList(f)
  BY Lists, IdsOfList, NodesAndLinks
<1>2. /\ Entities(n) = Elems(a \o b \o c \o d \o e \o f)
      /\ UNION {Kinds(n)[k] : k \in DOMAIN Kinds(n)}
           = Elems(a) \union Elems(b) \union Elems(c) \union Elems(d) \union Elems(e)
               \union Elems(f)
  <2>1. DOMAIN Kinds(n) = {"nodes", "links", "patterns", "curves", "controls", "rules"}
    BY DEF Kinds
  <2>2. /\ Kinds(n).nodes = Elems(a) /\ Kinds(n).links = Elems(b)
        /\ Kinds(n).patterns = Elems(c) /\ Kinds(n).curves = Elems(d)
        /\ Kinds(n).controls = Elems(e) /\ Kinds(n).rules = Elems(f)
    BY DEF Kinds, IdSet
  <2>3. UNION {Kinds(n)[k] : k \in DOMAIN Kinds(n)}
           = Elems(a) \union Elems(b) \union Elems(c) \union Elems(d) \union Elems(e)
               \union Elems(f)
    <3> HIDE DEF a, b, c, d, e, f
    <3>1. QED
      BY <2>1, <2>2
  <2>4. QED
    BY <2>3 DEF Entities
<1> HIDE DEF a, b, c, d, e, f
<1>3. IsList(a \o b) /\ Elems(a \o b) = Elems(a) \union Elems(b)
  BY <1>1, ConcatIsList
<1>4. IsList(a \o b \o c) /\ Elems(a \o b \o c) = Elems(a \o b) \union Elems(c)
  BY <1>1, <1>3, ConcatIsList
<1>5. IsList(a \o b \o c \o d) /\ Elems(a \o b \o c \o d) = Elems(a \o b \o c) \union Elems(d)
  BY <1>1, <1>4, ConcatIsList
<1>6. IsList(a \o b \o c \o d \o e)
      /\ Elems(a \o b \o c \o d \o e) = Elems(a \o b \o c \o d) \union Elems(e)
  BY <1>1, <1>5, ConcatIsList
<1>7. Elems(a \o b \o c \o d \o e \o f) = Elems(a \o b \o c \o d \o e) \union Elems(f)
  BY <1>1, <1>6, ConcatIsList
<1>8. QED
  BY <1>2, <1>3, <1>4, <1>5, <1>6, <1>7

LEMMA IdentitiesByKind ==
  ASSUME NEW n \in Networks, IdentitiesAreUnique(n)
  PROVE  /\ Distinct(Nodes(n)) /\ Distinct(Links(n))
         /\ Distinct(Ids(n.patterns)) /\ Distinct(Ids(n.curves))
         /\ Distinct(Ids(n.controls)) /\ Distinct(Ids(n.rules))
         /\ Elems(Links(n)) \intersect Elems(Nodes(n)) = {}
         /\ IdSet(n.patterns) \intersect (Elems(Nodes(n)) \union Elems(Links(n))) = {}
         /\ IdSet(n.curves) \intersect
              (Elems(Nodes(n)) \union Elems(Links(n)) \union IdSet(n.patterns)) = {}
         /\ IdSet(n.controls) \intersect (Elems(Nodes(n)) \union Elems(Links(n))
              \union IdSet(n.patterns) \union IdSet(n.curves)) = {}
         /\ IdSet(n.rules) \intersect (Elems(Nodes(n)) \union Elems(Links(n))
              \union IdSet(n.patterns) \union IdSet(n.curves) \union IdSet(n.controls)) = {}
         /\ NoRef \notin Entities(n)
<1> DEFINE a == Nodes(n)
           b == Links(n)
           c == Ids(n.patterns)
           d == Ids(n.curves)
           e == Ids(n.controls)
           f == Ids(n.rules)
<1>1. IsList(a) /\ IsList(b) /\ IsList(c) /\ IsList(d) /\ IsList(e) /\ IsList(f)
  BY Lists, IdsOfList, NodesAndLinks
<1>2. Distinct(a \o b \o c \o d \o e \o f) /\ NoRef \notin Entities(n)
  BY DEF IdentitiesAreUnique
<1>3. /\ IdSet(n.patterns) = Elems(c) /\ IdSet(n.curves) = Elems(d)
      /\ IdSet(n.controls) = Elems(e) /\ IdSet(n.rules) = Elems(f)
  BY DEF IdSet
<1> HIDE DEF a, b, c, d, e, f
<1>4. IsList(a \o b) /\ Elems(a \o b) = Elems(a) \union Elems(b)
  BY <1>1, ConcatIsList
<1>5. IsList(a \o b \o c) /\ Elems(a \o b \o c) = Elems(a \o b) \union Elems(c)
  BY <1>1, <1>4, ConcatIsList
<1>6. IsList(a \o b \o c \o d) /\ Elems(a \o b \o c \o d) = Elems(a \o b \o c) \union Elems(d)
  BY <1>1, <1>5, ConcatIsList
<1>7. IsList(a \o b \o c \o d \o e)
      /\ Elems(a \o b \o c \o d \o e) = Elems(a \o b \o c \o d) \union Elems(e)
  BY <1>1, <1>6, ConcatIsList
<1>8. Distinct(a \o b \o c \o d \o e) /\ Distinct(f)
      /\ Elems(a \o b \o c \o d \o e) \intersect Elems(f) = {}
  BY <1>1, <1>2, <1>7, DistinctParts
<1>9. Distinct(a \o b \o c \o d) /\ Distinct(e) /\ Elems(a \o b \o c \o d) \intersect Elems(e) = {}
  BY <1>1, <1>6, <1>8, DistinctParts
<1>10. Distinct(a \o b \o c) /\ Distinct(d) /\ Elems(a \o b \o c) \intersect Elems(d) = {}
  BY <1>1, <1>5, <1>9, DistinctParts
<1>11. Distinct(a \o b) /\ Distinct(c) /\ Elems(a \o b) \intersect Elems(c) = {}
  BY <1>1, <1>4, <1>10, DistinctParts
<1>12. Distinct(a) /\ Distinct(b) /\ Elems(a) \intersect Elems(b) = {}
  BY <1>1, <1>11, DistinctParts
<1>13. /\ Distinct(a) /\ Distinct(b) /\ Distinct(c) /\ Distinct(d) /\ Distinct(e) /\ Distinct(f)
       /\ Elems(b) \intersect Elems(a) = {}
       /\ Elems(c) \intersect (Elems(a) \union Elems(b)) = {}
       /\ Elems(d) \intersect (Elems(a) \union Elems(b) \union Elems(c)) = {}
       /\ Elems(e) \intersect (Elems(a) \union Elems(b) \union Elems(c) \union Elems(d)) = {}
       /\ Elems(f) \intersect (Elems(a) \union Elems(b) \union Elems(c) \union Elems(d)
                                 \union Elems(e)) = {}
  BY <1>4, <1>5, <1>6, <1>7, <1>8, <1>9, <1>10, <1>11, <1>12
<1>14. QED
  BY <1>2, <1>3, <1>13 DEF a, b, c, d, e, f

LEMMA ThreeDistinct ==
  ASSUME NEW a, NEW b, NEW c, IsList(a), IsList(b), IsList(c), Distinct(a \o b \o c)
  PROVE  /\ Distinct(a) /\ Distinct(b) /\ Distinct(c)
         /\ Elems(a) \intersect Elems(b) = {} /\ Elems(a) \intersect Elems(c) = {}
         /\ Elems(b) \intersect Elems(c) = {}
<1>1. IsList(a \o b) /\ Elems(a \o b) = Elems(a) \union Elems(b)
  BY ConcatIsList
<1>2. Distinct(a \o b) /\ Distinct(c) /\ Elems(a \o b) \intersect Elems(c) = {}
  BY <1>1, DistinctParts
<1>3. Distinct(a) /\ Distinct(b) /\ Elems(a) \intersect Elems(b) = {}
  BY <1>2, DistinctParts
<1>4. QED
  BY <1>1, <1>2, <1>3

LEMMA NodesByKind ==
  ASSUME NEW n \in Networks, IdentitiesAreUnique(n)
  PROVE  /\ Distinct(Ids(n.junctions)) /\ Distinct(Ids(n.reservoirs)) /\ Distinct(Ids(n.tanks))
         /\ Distinct(Ids(n.pipes)) /\ Distinct(Ids(n.pumps)) /\ Distinct(Ids(n.valves))
         /\ IdSet(n.junctions) \intersect IdSet(n.reservoirs) = {}
         /\ IdSet(n.junctions) \intersect IdSet(n.tanks) = {}
         /\ IdSet(n.reservoirs) \intersect IdSet(n.tanks) = {}
<1>1. /\ IsList(Ids(n.junctions)) /\ IsList(Ids(n.reservoirs)) /\ IsList(Ids(n.tanks))
      /\ IsList(Ids(n.pipes)) /\ IsList(Ids(n.pumps)) /\ IsList(Ids(n.valves))
  BY Lists, IdsOfList
<1>2. Distinct(Ids(n.junctions) \o Ids(n.reservoirs) \o Ids(n.tanks))
  BY IdentitiesByKind DEF Nodes
<1>3. Distinct(Ids(n.pipes) \o Ids(n.pumps) \o Ids(n.valves))
  BY IdentitiesByKind DEF Links
<1>4. /\ Distinct(Ids(n.junctions)) /\ Distinct(Ids(n.reservoirs)) /\ Distinct(Ids(n.tanks))
      /\ Elems(Ids(n.junctions)) \intersect Elems(Ids(n.reservoirs)) = {}
      /\ Elems(Ids(n.junctions)) \intersect Elems(Ids(n.tanks)) = {}
      /\ Elems(Ids(n.reservoirs)) \intersect Elems(Ids(n.tanks)) = {}
  BY <1>1, <1>2, ThreeDistinct
<1>5. Distinct(Ids(n.pipes)) /\ Distinct(Ids(n.pumps)) /\ Distinct(Ids(n.valves))
  BY <1>1, <1>3, ThreeDistinct
<1>6. QED
  BY <1>4, <1>5 DEF IdSet

LEMMA PlanIsSchedule ==
  ASSUME NEW n \in Networks, IdentitiesAreUnique(n)
  PROVE  IsSchedule(Plan(n), AllTasks(n), 16)
<1> DEFINE s1 == Each("AddPattern", n.patterns)
           s2 == Once("ConstantPattern")
           s3 == Once("DefaultPattern")
           s4 == Once("EnergyPattern")
           s5 == Each("AddCurve", n.curves)
           s6 == Each("AddJunction", n.junctions)
           s7 == Each("AddReservoir", n.reservoirs)
           s8 == Each("AddTank", n.tanks)
           s9 == Once("RefreshNodes")
           s10 == Each("AddPipe", n.pipes)
           s11 == Each("AddPump", n.pumps)
           s12 == Each("AddValve", n.valves)
           s13 == Once("RefreshLinks")
           s14 == Each("SetMetadata", Nodes(n) \o Links(n))
           s15 == Each("AddControl", n.controls)
           s16 == Each("AddRule", n.rules)
           T1 == Tasks("AddPattern", Elems(n.patterns))
           T2 == Tasks("ConstantPattern", {NoRef})
           T3 == Tasks("DefaultPattern", {NoRef})
           T4 == Tasks("EnergyPattern", {NoRef})
           T5 == Tasks("AddCurve", Elems(n.curves))
           T6 == Tasks("AddJunction", Elems(n.junctions))
           T7 == Tasks("AddReservoir", Elems(n.reservoirs))
           T8 == Tasks("AddTank", Elems(n.tanks))
           T9 == Tasks("RefreshNodes", {NoRef})
           T10 == Tasks("AddPipe", Elems(n.pipes))
           T11 == Tasks("AddPump", Elems(n.pumps))
           T12 == Tasks("AddValve", Elems(n.valves))
           T13 == Tasks("RefreshLinks", {NoRef})
           T14 == Tasks("SetMetadata", Elems(Nodes(n) \o Links(n)))
           T15 == Tasks("AddControl", Elems(n.controls))
           T16 == Tasks("AddRule", Elems(n.rules))
<1>1. /\ IsBlock(s1, T1, "AddPattern") /\ IsBlock(s5, T5, "AddCurve")
      /\ IsBlock(s6, T6, "AddJunction") /\ IsBlock(s7, T7, "AddReservoir")
      /\ IsBlock(s8, T8, "AddTank") /\ IsBlock(s10, T10, "AddPipe")
      /\ IsBlock(s11, T11, "AddPump") /\ IsBlock(s12, T12, "AddValve")
      /\ IsBlock(s15, T15, "AddControl") /\ IsBlock(s16, T16, "AddRule")
  BY Lists, IdentitiesByKind, NodesByKind, EachIsBlock
<1>2. /\ IsBlock(s2, T2, "ConstantPattern") /\ IsBlock(s3, T3, "DefaultPattern")
      /\ IsBlock(s4, T4, "EnergyPattern") /\ IsBlock(s9, T9, "RefreshNodes")
      /\ IsBlock(s13, T13, "RefreshLinks")
  BY OnceIsBlock DEF AddOps, AddNode
<1>3. IsBlock(s14, T14, "SetMetadata")
  <2>1. IsList(Nodes(n) \o Links(n))
    BY NodesAndLinks, ConcatIsList
  <2>2. QED
    BY <2>1, EachIsBlock DEF AddOps, AddNode
<1> DEFINE p2 == s1 \o s2    U2 == T1 \union T2
           p3 == p2 \o s3    U3 == U2 \union T3
           p4 == p3 \o s4    U4 == U3 \union T4
           p5 == p4 \o s5    U5 == U4 \union T5
           p6 == p5 \o s6    U6 == U5 \union T6
           p7 == p6 \o s7    U7 == U6 \union T7
           p8 == p7 \o s8    U8 == U7 \union T8
           p9 == p8 \o s9    U9 == U8 \union T9
           p10 == p9 \o s10    U10 == U9 \union T10
           p11 == p10 \o s11    U11 == U10 \union T11
           p12 == p11 \o s12    U12 == U11 \union T12
           p13 == p12 \o s13    U13 == U12 \union T13
           p14 == p13 \o s14    U14 == U13 \union T14
           p15 == p14 \o s15    U15 == U14 \union T15
           p16 == p15 \o s16    U16 == U15 \union T16
<1>4. Plan(n) = p16 /\ AllTasks(n) = U16
  BY DEF Plan, AllTasks
<1> HIDE DEF s1, s2, s3, s4, s5, s6, s7, s8, s9, s10, s11, s12, s13, s14, s15, s16, T1,
           T2, T3, T4, T5, T6, T7, T8, T9, T10, T11, T12, T13, T14, T15, T16, p2, p3, p4, p5, p6,
           p7, p8, p9, p10, p11, p12, p13, p14, p15, p16, U2, U3, U4, U5, U6, U7, U8, U9, U10, U11,
           U12, U13, U14, U15, U16
<1>5. IsSchedule(s1, T1, 1)
  BY <1>1, BlockIsSchedule, Ranks DEF Ops
<1>6. IsSchedule(p2, U2, 2)
  <2>1. "ConstantPattern" \in Ops /\ Rank["ConstantPattern"] = 2 /\ 1 \in Nat /\ 1 < Rank["ConstantPattern"]
    BY Ranks DEF Ops
  <2>2. QED
    BY <1>2, <1>5, <2>1, BlockFollows DEF p2, U2
<1>7. IsSchedule(p3, U3, 3)
  <2>1. "DefaultPattern" \in Ops /\ Rank["DefaultPattern"] = 3 /\ 2 \in Nat /\ 2 < Rank["DefaultPattern"]
    BY Ranks DEF Ops
  <2>2. QED
    BY <1>2, <1>6, <2>1, BlockFollows DEF p3, U3
<1>8. IsSchedule(p4, U4, 4)
  <2>1. "EnergyPattern" \in Ops /\ Rank["EnergyPattern"] = 4 /\ 3 \in Nat /\ 3 < Rank["EnergyPattern"]
    BY Ranks DEF Ops
  <2>2. QED
    BY <1>2, <1>7, <2>1, BlockFollows DEF p4, U4
<1>9. IsSchedule(p5, U5, 5)
  <2>1. "AddCurve" \in Ops /\ Rank["AddCurve"] = 5 /\ 4 \in Nat /\ 4 < Rank["AddCurve"]
    BY Ranks DEF Ops
  <2>2. QED
    BY <1>1, <1>8, <2>1, BlockFollows DEF p5, U5
<1>10. IsSchedule(p6, U6, 6)
  <2>1. "AddJunction" \in Ops /\ Rank["AddJunction"] = 6 /\ 5 \in Nat /\ 5 < Rank["AddJunction"]
    BY Ranks DEF Ops
  <2>2. QED
    BY <1>1, <1>9, <2>1, BlockFollows DEF p6, U6
<1>11. IsSchedule(p7, U7, 7)
  <2>1. "AddReservoir" \in Ops /\ Rank["AddReservoir"] = 7 /\ 6 \in Nat /\ 6 < Rank["AddReservoir"]
    BY Ranks DEF Ops
  <2>2. QED
    BY <1>1, <1>10, <2>1, BlockFollows DEF p7, U7
<1>12. IsSchedule(p8, U8, 8)
  <2>1. "AddTank" \in Ops /\ Rank["AddTank"] = 8 /\ 7 \in Nat /\ 7 < Rank["AddTank"]
    BY Ranks DEF Ops
  <2>2. QED
    BY <1>1, <1>11, <2>1, BlockFollows DEF p8, U8
<1>13. IsSchedule(p9, U9, 9)
  <2>1. "RefreshNodes" \in Ops /\ Rank["RefreshNodes"] = 9 /\ 8 \in Nat /\ 8 < Rank["RefreshNodes"]
    BY Ranks DEF Ops
  <2>2. QED
    BY <1>2, <1>12, <2>1, BlockFollows DEF p9, U9
<1>14. IsSchedule(p10, U10, 10)
  <2>1. "AddPipe" \in Ops /\ Rank["AddPipe"] = 10 /\ 9 \in Nat /\ 9 < Rank["AddPipe"]
    BY Ranks DEF Ops
  <2>2. QED
    BY <1>1, <1>13, <2>1, BlockFollows DEF p10, U10
<1>15. IsSchedule(p11, U11, 11)
  <2>1. "AddPump" \in Ops /\ Rank["AddPump"] = 11 /\ 10 \in Nat /\ 10 < Rank["AddPump"]
    BY Ranks DEF Ops
  <2>2. QED
    BY <1>1, <1>14, <2>1, BlockFollows DEF p11, U11
<1>16. IsSchedule(p12, U12, 12)
  <2>1. "AddValve" \in Ops /\ Rank["AddValve"] = 12 /\ 11 \in Nat /\ 11 < Rank["AddValve"]
    BY Ranks DEF Ops
  <2>2. QED
    BY <1>1, <1>15, <2>1, BlockFollows DEF p12, U12
<1>17. IsSchedule(p13, U13, 13)
  <2>1. "RefreshLinks" \in Ops /\ Rank["RefreshLinks"] = 13 /\ 12 \in Nat /\ 12 < Rank["RefreshLinks"]
    BY Ranks DEF Ops
  <2>2. QED
    BY <1>2, <1>16, <2>1, BlockFollows DEF p13, U13
<1>18. IsSchedule(p14, U14, 14)
  <2>1. "SetMetadata" \in Ops /\ Rank["SetMetadata"] = 14 /\ 13 \in Nat /\ 13 < Rank["SetMetadata"]
    BY Ranks DEF Ops
  <2>2. QED
    BY <1>3, <1>17, <2>1, BlockFollows DEF p14, U14
<1>19. IsSchedule(p15, U15, 15)
  <2>1. "AddControl" \in Ops /\ Rank["AddControl"] = 15 /\ 14 \in Nat /\ 14 < Rank["AddControl"]
    BY Ranks DEF Ops
  <2>2. QED
    BY <1>1, <1>18, <2>1, BlockFollows DEF p15, U15
<1>20. IsSchedule(p16, U16, 16)
  <2>1. "AddRule" \in Ops /\ Rank["AddRule"] = 16 /\ 15 \in Nat /\ 15 < Rank["AddRule"]
    BY Ranks DEF Ops
  <2>2. QED
    BY <1>1, <1>19, <2>1, BlockFollows DEF p16, U16
<1>21. QED
  BY <1>4, <1>20

-----------------------------------------------------------------------------
(* The operations of the plan, and the entities they add.                  *)

LEMMA TaskIsOne ==
  ASSUME NEW op, NEW S, NEW o \in Tasks(op, S)
  PROVE  o.op = op /\ o.item \in S /\ o = [op |-> o.op, item |-> o.item]
BY DEF Tasks

LEMMA TasksByOp ==
  ASSUME NEW n, NEW o \in AllTasks(n)
  PROVE  /\ o.op \in Ops /\ o = [op |-> o.op, item |-> o.item]
         /\ o.op = "AddPattern" => o.item \in Elems(n.patterns)
         /\ o.op = "AddCurve" => o.item \in Elems(n.curves)
         /\ o.op = "AddJunction" => o.item \in Elems(n.junctions)
         /\ o.op = "AddReservoir" => o.item \in Elems(n.reservoirs)
         /\ o.op = "AddTank" => o.item \in Elems(n.tanks)
         /\ o.op = "AddPipe" => o.item \in Elems(n.pipes)
         /\ o.op = "AddPump" => o.item \in Elems(n.pumps)
         /\ o.op = "AddValve" => o.item \in Elems(n.valves)
         /\ o.op = "AddControl" => o.item \in Elems(n.controls)
         /\ o.op = "AddRule" => o.item \in Elems(n.rules)
         /\ o.op = "SetMetadata" => o.item \in Elems(Nodes(n) \o Links(n))
         /\ o.op \notin AddOps \union {"SetMetadata"} => o = Task(o.op)
<1>1. \/ \E op \in Ops \ (AddOps \union {"SetMetadata"}) : o \in Tasks(op, {NoRef})
      \/ o \in Tasks("SetMetadata", Elems(Nodes(n) \o Links(n)))
      \/ o \in Tasks("AddPattern", Elems(n.patterns))
      \/ o \in Tasks("AddCurve", Elems(n.curves))
      \/ o \in Tasks("AddJunction", Elems(n.junctions))
      \/ o \in Tasks("AddReservoir", Elems(n.reservoirs))
      \/ o \in Tasks("AddTank", Elems(n.tanks))
      \/ o \in Tasks("AddPipe", Elems(n.pipes))
      \/ o \in Tasks("AddPump", Elems(n.pumps))
      \/ o \in Tasks("AddValve", Elems(n.valves))
      \/ o \in Tasks("AddControl", Elems(n.controls))
      \/ o \in Tasks("AddRule", Elems(n.rules))
  BY DEF AllTasks, Ops, AddOps, AddNode
<1>2. QED
  BY <1>1, TaskIsOne DEF Ops, AddOps, AddNode, Task

LEMMA AllTasksListed ==
  ASSUME NEW n
  PROVE  /\ Task("ConstantPattern") \in AllTasks(n)
         /\ Task("DefaultPattern") \in AllTasks(n)
         /\ Task("EnergyPattern") \in AllTasks(n)
         /\ Task("RefreshNodes") \in AllTasks(n)
         /\ Task("RefreshLinks") \in AllTasks(n)
         /\ \A x \in Elems(n.patterns) : [op |-> "AddPattern", item |-> x] \in AllTasks(n)
         /\ \A x \in Elems(n.curves) : [op |-> "AddCurve", item |-> x] \in AllTasks(n)
         /\ \A x \in Elems(n.junctions) : [op |-> "AddJunction", item |-> x] \in AllTasks(n)
         /\ \A x \in Elems(n.reservoirs) : [op |-> "AddReservoir", item |-> x] \in AllTasks(n)
         /\ \A x \in Elems(n.tanks) : [op |-> "AddTank", item |-> x] \in AllTasks(n)
         /\ \A x \in Elems(n.pipes) : [op |-> "AddPipe", item |-> x] \in AllTasks(n)
         /\ \A x \in Elems(n.pumps) : [op |-> "AddPump", item |-> x] \in AllTasks(n)
         /\ \A x \in Elems(n.valves) : [op |-> "AddValve", item |-> x] \in AllTasks(n)
         /\ \A x \in Elems(n.controls) : [op |-> "AddControl", item |-> x] \in AllTasks(n)
         /\ \A x \in Elems(n.rules) : [op |-> "AddRule", item |-> x] \in AllTasks(n)
BY DEF AllTasks, Tasks, Task

(* The IDs of what is added, by the kind of the operation.                 *)
LEMMA AddedIds ==
  ASSUME NEW n \in Networks, NEW o \in AllTasks(n), o.op \in AddOps
  PROVE  /\ o.item.id \in Entities(n)
         /\ o.op = "AddPattern" => o.item.id \in IdSet(n.patterns)
         /\ o.op = "AddCurve" => o.item.id \in IdSet(n.curves)
         /\ o.op = "AddJunction" => o.item.id \in IdSet(n.junctions)
         /\ o.op = "AddReservoir" => o.item.id \in IdSet(n.reservoirs)
         /\ o.op = "AddTank" => o.item.id \in IdSet(n.tanks)
         /\ o.op = "AddPipe" => o.item.id \in IdSet(n.pipes)
         /\ o.op = "AddPump" => o.item.id \in IdSet(n.pumps)
         /\ o.op = "AddValve" => o.item.id \in IdSet(n.valves)
         /\ o.op = "AddControl" => o.item.id \in IdSet(n.controls)
         /\ o.op = "AddRule" => o.item.id \in IdSet(n.rules)
         /\ o.op \in AddNode => o.item.id \in Elems(Nodes(n))
         /\ o.op \in {"AddPipe", "AddPump", "AddValve"} => o.item.id \in Elems(Links(n))
<1>1. \A s : IsList(s) => \A e \in Elems(s) : e.id \in IdSet(s)
  BY IdsOfList
<1>2. /\ o.op = "AddPattern" => o.item.id \in IdSet(n.patterns)
      /\ o.op = "AddCurve" => o.item.id \in IdSet(n.curves)
      /\ o.op = "AddJunction" => o.item.id \in IdSet(n.junctions)
      /\ o.op = "AddReservoir" => o.item.id \in IdSet(n.reservoirs)
      /\ o.op = "AddTank" => o.item.id \in IdSet(n.tanks)
      /\ o.op = "AddPipe" => o.item.id \in IdSet(n.pipes)
      /\ o.op = "AddPump" => o.item.id \in IdSet(n.pumps)
      /\ o.op = "AddValve" => o.item.id \in IdSet(n.valves)
      /\ o.op = "AddControl" => o.item.id \in IdSet(n.controls)
      /\ o.op = "AddRule" => o.item.id \in IdSet(n.rules)
  BY <1>1, Lists, TasksByOp
<1>3. /\ o.op \in AddNode => o.item.id \in Elems(Nodes(n))
      /\ o.op \in {"AddPipe", "AddPump", "AddValve"} => o.item.id \in Elems(Links(n))
  BY <1>2, NodesAndLinks DEF AddNode
<1>4. o.item.id \in Entities(n)
  <2>1. \/ o.item.id \in Kinds(n).nodes \/ o.item.id \in Kinds(n).links
        \/ o.item.id \in Kinds(n).patterns \/ o.item.id \in Kinds(n).curves
        \/ o.item.id \in Kinds(n).controls \/ o.item.id \in Kinds(n).rules
    BY <1>2, <1>3 DEF AddOps, AddNode, Kinds
  <2>2. DOMAIN Kinds(n) = {"nodes", "links", "patterns", "curves", "controls", "rules"}
    BY DEF Kinds
  <2>3. QED
    BY <2>1, <2>2, EntitiesByKind
<1>5. QED
  BY <1>2, <1>3, <1>4

LEMMA EntitiesAreAdded ==
  ASSUME NEW n \in Networks, NEW e \in Entities(n)
  PROVE  \E o \in AllTasks(n) : o.op \in AddOps /\ o.item.id = e
<1>1. \A s : IsList(s) => \A i \in IdSet(s) : \E x \in Elems(s) : x.id = i
  BY IdsOfList
<1>2. DOMAIN Kinds(n) = {"nodes", "links", "patterns", "curves", "controls", "rules"}
  BY DEF Kinds
<1>3. \/ e \in Kinds(n).nodes \/ e \in Kinds(n).links \/ e \in Kinds(n).patterns
      \/ e \in Kinds(n).curves \/ e \in Kinds(n).controls \/ e \in Kinds(n).rules
  BY <1>2, EntitiesByKind
<1>4. \/ e \in IdSet(n.patterns)
      \/ e \in IdSet(n.curves)
      \/ e \in IdSet(n.junctions)
      \/ e \in IdSet(n.reservoirs)
      \/ e \in IdSet(n.tanks)
      \/ e \in IdSet(n.pipes)
      \/ e \in IdSet(n.pumps)
      \/ e \in IdSet(n.valves)
      \/ e \in IdSet(n.controls)
      \/ e \in IdSet(n.rules)
  BY <1>3, NodesAndLinks DEF Kinds
<1>5. ASSUME NEW op \in AddOps, NEW x, [op |-> op, item |-> x] \in AllTasks(n), x.id = e
      PROVE  \E o \in AllTasks(n) : o.op \in AddOps /\ o.item.id = e
  BY <1>5
<1>6. CASE e \in IdSet(n.patterns)
  <2>1. PICK x \in Elems(n.patterns) : x.id = e
    BY <1>1, <1>6, Lists
  <2>2. "AddPattern" \in AddOps /\ [op |-> "AddPattern", item |-> x] \in AllTasks(n)
    BY AllTasksListed DEF AddOps, AddNode
  <2>3. QED
    BY <1>5, <2>1, <2>2
<1>7. CASE e \in IdSet(n.curves)
  <2>1. PICK x \in Elems(n.curves) : x.id = e
    BY <1>1, <1>7, Lists
  <2>2. "AddCurve" \in AddOps /\ [op |-> "AddCurve", item |-> x] \in AllTasks(n)
    BY AllTasksListed DEF AddOps, AddNode
  <2>3. QED
    BY <1>5, <2>1, <2>2
<1>8. CASE e \in IdSet(n.junctions)
  <2>1. PICK x \in Elems(n.junctions) : x.id = e
    BY <1>1, <1>8, Lists
  <2>2. "AddJunction" \in AddOps /\ [op |-> "AddJunction", item |-> x] \in AllTasks(n)
    BY AllTasksListed DEF AddOps, AddNode
  <2>3. QED
    BY <1>5, <2>1, <2>2
<1>9. CASE e \in IdSet(n.reservoirs)
  <2>1. PICK x \in Elems(n.reservoirs) : x.id = e
    BY <1>1, <1>9, Lists
  <2>2. "AddReservoir" \in AddOps /\ [op |-> "AddReservoir", item |-> x] \in AllTasks(n)
    BY AllTasksListed DEF AddOps, AddNode
  <2>3. QED
    BY <1>5, <2>1, <2>2
<1>10. CASE e \in IdSet(n.tanks)
  <2>1. PICK x \in Elems(n.tanks) : x.id = e
    BY <1>1, <1>10, Lists
  <2>2. "AddTank" \in AddOps /\ [op |-> "AddTank", item |-> x] \in AllTasks(n)
    BY AllTasksListed DEF AddOps, AddNode
  <2>3. QED
    BY <1>5, <2>1, <2>2
<1>11. CASE e \in IdSet(n.pipes)
  <2>1. PICK x \in Elems(n.pipes) : x.id = e
    BY <1>1, <1>11, Lists
  <2>2. "AddPipe" \in AddOps /\ [op |-> "AddPipe", item |-> x] \in AllTasks(n)
    BY AllTasksListed DEF AddOps, AddNode
  <2>3. QED
    BY <1>5, <2>1, <2>2
<1>12. CASE e \in IdSet(n.pumps)
  <2>1. PICK x \in Elems(n.pumps) : x.id = e
    BY <1>1, <1>12, Lists
  <2>2. "AddPump" \in AddOps /\ [op |-> "AddPump", item |-> x] \in AllTasks(n)
    BY AllTasksListed DEF AddOps, AddNode
  <2>3. QED
    BY <1>5, <2>1, <2>2
<1>13. CASE e \in IdSet(n.valves)
  <2>1. PICK x \in Elems(n.valves) : x.id = e
    BY <1>1, <1>13, Lists
  <2>2. "AddValve" \in AddOps /\ [op |-> "AddValve", item |-> x] \in AllTasks(n)
    BY AllTasksListed DEF AddOps, AddNode
  <2>3. QED
    BY <1>5, <2>1, <2>2
<1>14. CASE e \in IdSet(n.controls)
  <2>1. PICK x \in Elems(n.controls) : x.id = e
    BY <1>1, <1>14, Lists
  <2>2. "AddControl" \in AddOps /\ [op |-> "AddControl", item |-> x] \in AllTasks(n)
    BY AllTasksListed DEF AddOps, AddNode
  <2>3. QED
    BY <1>5, <2>1, <2>2
<1>15. CASE e \in IdSet(n.rules)
  <2>1. PICK x \in Elems(n.rules) : x.id = e
    BY <1>1, <1>15, Lists
  <2>2. "AddRule" \in AddOps /\ [op |-> "AddRule", item |-> x] \in AllTasks(n)
    BY AllTasksListed DEF AddOps, AddNode
  <2>3. QED
    BY <1>5, <2>1, <2>2
<1>16. QED
  BY <1>4, <1>6, <1>7, <1>8, <1>9, <1>10, <1>11, <1>12, <1>13, <1>14, <1>15

-----------------------------------------------------------------------------
(* The beginning.                                                          *)

LEMMA BuildInit == Init => IInv
<1> SUFFICES ASSUME Init PROVE IInv
  OBVIOUS
<1>1. Network
  BY DEF Init, Network
<1>2. IsSchedule(todo, AllTasks(net), 16)
  BY <1>1, PlanIsSchedule DEF Init, Network
<1>3. Left = AllTasks(net)
  BY <1>2 DEF IsSchedule, Left
<1>4. Scheduled
  <2>1. todo \in Seq(AllTasks(net))
    BY <1>2 DEF IsSchedule, IsList
  <2>2. /\ \A i, k \in DOMAIN todo : i <= k => Rank[todo[i].op] <= Rank[todo[k].op]
        /\ \A i, k \in DOMAIN todo :
             todo[i].op = todo[k].op /\ todo[i].op \in AddOps /\ todo[i].item.id = todo[k].item.id
               => i = k
    BY <1>2 DEF IsSchedule
  <2>3. QED
    BY <1>3, <2>1, <2>2 DEF Scheduled
<1>5. \A S : <<>> \in Seq(S)
  OBVIOUS
<1>6. /\ tk = [nodes |-> <<>>, links |-> <<>>, patterns |-> <<>>, curves |-> <<>>,
               controls |-> <<>>, rules |-> <<>>, default |-> NoRef, energy |-> NoRef]
      /\ uses = {} /\ reg = <<>> /\ constantId = NoRef /\ first = NoRef /\ diags = <<>>
      /\ built = {}
  BY DEF Init
<1>7. ToolkitIsTyped
  BY <1>5, <1>6 DEF ToolkitIsTyped
<1>8. FailuresCollected
  BY <1>5, <1>6 DEF FailuresCollected
<1>9. EntitiesOnly /\ IndicesKept
  <2>1. DOMAIN reg = {}
    BY <1>6
  <2>2. QED
    BY <1>6, <2>1 DEF EntitiesOnly, IndicesKept, Kept
<1>10. AllSettled /\ DemandsUsed
  BY <1>3 DEF AllSettled, DemandsUsed
<1>11. NoneTwice
  BY <1>6, EmptyList DEF NoneTwice, Distinct
<1>12. OptionsSet /\ ConstantNamed
  <2>1. Task("DefaultPattern") \in Left /\ Task("EnergyPattern") \in Left
        /\ Task("ConstantPattern") \in Left
    BY <1>3, AllTasksListed
  <2>2. QED
    BY <1>6, <2>1 DEF OptionsSet, ConstantNamed
<1>13. UsesWanted
  BY <1>3, <1>6 DEF UsesWanted
<1>14. QED
  BY <1>1, <1>4, <1>7, <1>8, <1>9, <1>10, <1>11, <1>12, <1>13 DEF IInv

-----------------------------------------------------------------------------
(* What every operation does.                                              *)

LEMMA FreeIdIsFree ==
  ASSUME Network
  PROVE  FreeId \in Elems(PrivateIds) /\ FreeId \notin IdSet(net.patterns) /\ FreeId # NoRef
<1> DEFINE P == IdSet(net.patterns)
           R == OpToRel(<, Nat)
           B == {k \in DOMAIN PrivateIds : PrivateIds[k] \notin P}
           IsFirst(k) == PrivateIds[k] \notin P /\ \A i \in 1 .. k - 1 : PrivateIds[i] \in P
<1>1. DOMAIN PrivateIds = 1 .. Len(PrivateIds) /\ Len(PrivateIds) \in Nat
  BY IdsAssumption, ListIsSeq
<1>2. B # {}
  BY IdsAssumption DEF Network, Elems
<1>3. IsWellFoundedOn(R, Nat)
  BY NatLessThanWellFounded
<1>4. \A x, y \in Nat : <<x, y>> \in R <=> x < y
  BY DEF OpToRel
<1>5. B \subseteq Nat
  BY <1>1
<1> HIDE DEF R, B
<1>6. PICK k \in B : \A i \in B : ~ (<<i, k>> \in R)
  BY <1>2, <1>3, <1>5, WFMin
<1>7. k \in DOMAIN PrivateIds /\ PrivateIds[k] \notin P
  BY <1>6 DEF B
<1>8. \A i \in 1 .. k - 1 : PrivateIds[i] \in P
  <2> SUFFICES ASSUME NEW i \in 1 .. k - 1, PrivateIds[i] \notin P PROVE FALSE
    OBVIOUS
  <2>1. i \in B /\ i < k /\ i \in Nat /\ k \in Nat
    BY <1>1, <1>7 DEF B
  <2>2. QED
    BY <1>4, <1>6, <2>1
<1>9. IsFirst(k)
  BY <1>7, <1>8
<1> DEFINE m == CHOOSE i \in DOMAIN PrivateIds : IsFirst(i)
<1>10. m \in DOMAIN PrivateIds /\ IsFirst(m)
  BY <1>7, <1>9
<1>11. FreeId = PrivateIds[m]
  BY DEF FreeId
<1> HIDE DEF m
<1>12. FreeId \in Elems(PrivateIds) /\ FreeId \notin P
  BY <1>10, <1>11 DEF Elems
<1>13. QED
  BY <1>12, IdsAssumption

LEMMA Turned ==
  ASSUME IInv, NEW op, Turn(op)
  PROVE  /\ todo # <<>> /\ Head(todo) \in AllTasks(net) /\ Head(todo) \in Left
         /\ Head(todo).op = op /\ op \in Ops /\ Item = Head(todo).item
         /\ Head(todo) = [op |-> op, item |-> Item]
         /\ \A o \in AllTasks(net) : /\ Rank[o.op] < Rank[op] => o \notin Left
                                     /\ Rank[op] < Rank[o.op] => o \in Left
<1>1. todo # <<>> /\ Head(todo).op = op /\ todo \in Seq(AllTasks(net))
  BY DEF Turn, Done, IInv, Scheduled
<1>2. Head(todo) = todo[1] /\ 1 \in DOMAIN todo
  BY <1>1, TailOfList
<1>3. Head(todo) \in AllTasks(net) /\ Head(todo) \in Left
  BY <1>1, <1>2 DEF Left, Elems
<1>4. op \in Ops /\ Head(todo) = [op |-> op, item |-> Item]
  BY <1>1, <1>3, TasksByOp DEF Item
<1>5. \A p \in Left : Rank[op] <= Rank[p.op]
  <2> SUFFICES ASSUME NEW k \in DOMAIN todo PROVE Rank[op] <= Rank[todo[k].op]
    BY DEF Left, Elems
  <2>1. DOMAIN todo = 1 .. Len(todo) /\ 1 <= k
    BY <1>1
  <2>2. QED
    BY <1>1, <1>2, <2>1 DEF IInv, Scheduled
<1>6. \A o \in AllTasks(net) \ Left : Rank[o.op] <= Rank[op]
  BY <1>1, <1>3 DEF IInv, Scheduled
<1>7. \A o \in AllTasks(net) : Rank[o.op] \in Int /\ Rank[op] \in Int
  BY <1>4, TasksByOp, Ranks
<1>8. QED
  BY <1>1, <1>3, <1>4, <1>5, <1>6, <1>7 DEF Item

LEMMA Advanced ==
  ASSUME IInv, todo # <<>>, todo' = Tail(todo), net' = net
  PROVE  /\ Network' /\ Scheduled'
         /\ Left = {Head(todo)} \union Left'
         /\ \A o \in Left' : o.op = Head(todo).op /\ o.op \in AddOps
                               => o.item.id # Head(todo).item.id
<1> DEFINE q == Tail(todo)
           h == Head(todo)
<1>1. todo \in Seq(AllTasks(net))
  BY DEF IInv, Scheduled
<1>2. /\ q \in Seq(AllTasks(net)) /\ h = todo[1] /\ 1 \in DOMAIN todo
      /\ Elems(todo) = {h} \union Elems(q)
      /\ \A k \in DOMAIN q : k + 1 \in DOMAIN todo /\ q[k] = todo[k + 1] /\ k \in Nat
  BY <1>1, TailOfList
<1> HIDE DEF q, h
<1>3. todo' = q /\ Left' = Elems(q) /\ Left = {h} \union Elems(q)
  BY <1>2 DEF q, Left
<1>4. /\ \A i, k \in DOMAIN todo : i <= k => Rank[todo[i].op] <= Rank[todo[k].op]
      /\ \A o \in AllTasks(net) \ Left, p \in Left : Rank[o.op] <= Rank[p.op]
      /\ \A i, k \in DOMAIN todo :
            todo[i].op = todo[k].op /\ todo[i].op \in AddOps
              /\ todo[i].item.id = todo[k].item.id => i = k
  BY DEF IInv, Scheduled
<1>5. \A i, k \in DOMAIN q : i <= k => Rank[q[i].op] <= Rank[q[k].op]
  BY <1>2, <1>4
<1>6. \A i, k \in DOMAIN q : q[i].op = q[k].op /\ q[i].op \in AddOps
                               /\ q[i].item.id = q[k].item.id => i = k
  <2> SUFFICES ASSUME NEW i \in DOMAIN q, NEW k \in DOMAIN q, q[i].op = q[k].op,
                      q[i].op \in AddOps, q[i].item.id = q[k].item.id
               PROVE  i = k
    OBVIOUS
  <2>1. i + 1 = k + 1 /\ i \in Nat /\ k \in Nat
    BY <1>2, <1>4
  <2>2. QED
    BY <2>1
<1>7. \A p \in Elems(q) : Rank[h.op] <= Rank[p.op]
  <2> SUFFICES ASSUME NEW k \in DOMAIN q PROVE Rank[h.op] <= Rank[q[k].op]
    BY DEF Elems
  <2>1. k + 1 \in DOMAIN todo /\ q[k] = todo[k + 1] /\ 1 <= k + 1
    BY <1>2
  <2>2. QED
    BY <1>2, <1>4, <2>1
<1>8. \A o \in AllTasks(net) \ Elems(q), p \in Elems(q) : Rank[o.op] <= Rank[p.op]
  BY <1>3, <1>4, <1>7
<1>9. Scheduled'
  BY <1>2, <1>3, <1>5, <1>6, <1>8 DEF Scheduled
<1>10. Network'
  BY DEF IInv, Network
<1>11. \A o \in Elems(q) : o.op = h.op /\ o.op \in AddOps => o.item.id # h.item.id
  <2> SUFFICES ASSUME NEW k \in DOMAIN q, q[k].op = h.op, q[k].op \in AddOps,
                      q[k].item.id = h.item.id
               PROVE  FALSE
    BY DEF Elems
  <2>1. k + 1 = 1 /\ k \in Nat /\ k \in DOMAIN q
    BY <1>2, <1>4
  <2>2. DOMAIN q = 1 .. Len(q)
    BY <1>2
  <2>3. QED
    BY <2>1, <2>2
<1>12. QED
  BY <1>3, <1>9, <1>10, <1>11 DEF h

LEMMA Collected ==
  ASSUME Network, FailuresCollected, net' = net,
         NEW failed \in Seq(Entities(net) \union {FreeId}), Collect(failed)
  PROVE  /\ FailuresCollected'
         /\ Elems(diags') = Elems(diags) \union Elems(failed)
         /\ diags' = <<>> => diags = <<>> /\ failed = <<>>
<1> DEFINE E == Entities(net) \union {FreeId}
<1>1. E' = E
  BY DEF FreeId
<1>2. NoRef \notin E
  BY FreeIdIsFree DEF Network, IdentitiesAreUnique
<1>3. diags \in Seq(E) /\ first = IF diags = <<>> THEN NoRef ELSE diags[1]
  BY DEF FailuresCollected
<1>4. /\ diags' = diags \o failed
      /\ first' = IF first = NoRef /\ failed # <<>> THEN Head(failed) ELSE first
  BY DEF Collect
<1> HIDE DEF E
<1>5. failed \in Seq(E)
  BY DEF E
<1>6. diags' \in Seq(E)
  BY <1>3, <1>4, <1>5
<1>7. IsList(diags) /\ IsList(failed)
  BY <1>3, <1>5, SeqIsList
<1>8. Elems(diags') = Elems(diags) \union Elems(failed)
  BY <1>4, <1>7, ConcatIsList
<1>9. diags' = <<>> => diags = <<>> /\ failed = <<>>
  BY <1>6, <1>7, <1>8, ListIsSeq, EmptyList
<1>10. first' = IF diags' = <<>> THEN NoRef ELSE diags'[1]
  <2>1. CASE diags = <<>>
    BY <1>3, <1>4, <1>5, <2>1
  <2>2. CASE diags # <<>>
    <3>1. diags[1] \in E /\ diags'[1] = diags[1] /\ diags' # <<>>
      BY <1>3, <1>4, <1>5, <2>2
    <3>2. first # NoRef
      BY <1>2, <1>3, <2>2, <3>1
    <3>3. QED
      BY <1>3, <1>4, <2>2, <3>1, <3>2
  <2>3. QED
    BY <2>1, <2>2
<1>11. FailuresCollected'
  BY <1>1, <1>6, <1>10 DEF FailuresCollected, E
<1>12. QED
  BY <1>8, <1>9, <1>11

-----------------------------------------------------------------------------
(* What an operation that adds an entity does to the invariant, whatever   *)
(* object it adds.                                                         *)

LEMMA AddFinished ==
  ASSUME IInv, NEW op \in AddOps, Turn(op), NEW x, x = Item,
         NEW ending \in {"refused", "half", "done"}, NEW index, NEW refs,
         Finish(x.id, ending, index, refs)
  PROVE  /\ net' = net /\ Left = {Head(todo)} \union Left' /\ Head(todo) = [op |-> op, item |-> x]
         /\ \A o \in Left' : o.op = op => o.item.id # x.id
         /\ Network' /\ Scheduled' /\ FailuresCollected' /\ EntitiesOnly' /\ AllSettled'
         /\ diags' = <<>> => ending = "done" /\ diags = <<>>
         /\ uses' = IF ending = "done" THEN uses \union refs ELSE uses
         /\ reg' = IF ending = "done" THEN Register(reg, x.id, index) ELSE reg
<1>1. /\ reg' = IF ending = "done" THEN Register(reg, x.id, index) ELSE reg
      /\ uses' = IF ending = "done" THEN uses \union refs ELSE uses
      /\ built' = IF ending = "done" THEN built \union {x.id} ELSE built
      /\ Collect(Failed(x.id, ending)) /\ todo' = Tail(todo) /\ net' = net
  BY DEF Finish
<1>2. /\ todo # <<>> /\ Head(todo) \in AllTasks(net)
      /\ Head(todo) = [op |-> op, item |-> x]
  BY Turned
<1>3. /\ Network' /\ Scheduled' /\ Left = {Head(todo)} \union Left'
      /\ \A o \in Left' : o.op = Head(todo).op /\ o.op \in AddOps
                            => o.item.id # Head(todo).item.id
  BY <1>1, <1>2, Advanced
<1>4. Head(todo).op = op /\ Head(todo).item = x
  BY <1>2
<1>5. x.id \in Entities(net)
  BY <1>2, <1>4, AddedIds DEF IInv, Network
<1> DEFINE failed == Failed(x.id, ending)
           E == Entities(net) \union {FreeId}
<1>6. /\ failed \in Seq(E)
      /\ failed = <<>> => ending = "done"
      /\ ending # "done" => x.id \in Elems(failed)
  <2>1. CASE ending = "done"
    BY <2>1 DEF Failed
  <2>2. CASE ending # "done"
    <3>1. failed = <<x.id>>
      BY <2>2 DEF Failed
    <3> HIDE DEF failed, E
    <3>2. x.id \in E
      BY <1>5 DEF E
    <3>3. failed \in Seq(E) /\ failed # <<>> /\ 1 \in DOMAIN failed /\ failed[1] = x.id
      BY <3>1, <3>2
    <3>4. QED
      BY <2>2, <3>3 DEF Elems
  <2>3. QED
    BY <2>1, <2>2
<1> HIDE DEF failed
<1>7. /\ FailuresCollected'
      /\ Elems(diags') = Elems(diags) \union Elems(failed)
      /\ diags' = <<>> => diags = <<>> /\ failed = <<>>
  BY <1>1, <1>6, Collected DEF IInv, failed
<1> HIDE DEF E
<1>8. DOMAIN reg' = IF ending = "done" THEN DOMAIN reg \union {x.id} ELSE DOMAIN reg
  BY <1>1 DEF Register
<1>9. EntitiesOnly'
  <2>1. /\ DOMAIN reg \subseteq Entities(net) /\ built \subseteq Entities(net)
        /\ diags = <<>> => built \subseteq DOMAIN reg
    BY DEF IInv, EntitiesOnly
  <2>2. Entities(net)' = Entities(net)
    BY <1>1
  <2>3. DOMAIN reg' \subseteq Entities(net) /\ built' \subseteq Entities(net)
    BY <1>1, <1>5, <1>8, <2>1
  <2>4. diags' = <<>> => built' \subseteq DOMAIN reg'
    BY <1>1, <1>6, <1>7, <1>8, <2>1
  <2>5. QED
    BY <2>2, <2>3, <2>4 DEF EntitiesOnly
<1>10. AllSettled'
  <2> SUFFICES ASSUME NEW o \in AllTasks(net) \ Left', o.op \in AddOps
               PROVE  o.item.id \in built' \union Elems(diags')
    BY <1>1 DEF AllSettled
  <2>1. CASE o = Head(todo)
    BY <1>1, <1>4, <1>6, <1>7, <2>1
  <2>2. CASE o # Head(todo)
    <3>1. o.item.id \in built \union Elems(diags)
      BY <1>3, <2>2 DEF IInv, AllSettled
    <3>2. QED
      BY <1>1, <1>7, <3>1
  <2>3. QED
    BY <2>1, <2>2
<1>11. \A o \in Left' : o.op = op => o.item.id # x.id
  BY <1>3, <1>4
<1>12. QED
  BY <1>1, <1>2, <1>3, <1>6, <1>7, <1>9, <1>10, <1>11

LEMMA UsesFinished ==
  ASSUME UsesWanted, NEW h \in AllTasks(net), Left = {h} \union Left', net' = net, NEW refs,
         diags' = <<>> => /\ diags = <<>> /\ uses' = uses \union refs
                          /\ WantedBy(h) \subseteq refs
                          /\ \A u \in refs : u[2] # "demand" => u \in WantedBy(h)
  PROVE  UsesWanted'
<1>1. SUFFICES ASSUME diags' = <<>>
               PROVE  /\ \A u \in uses' : u[2] # "demand" => \E o \in AllTasks(net) : u \in WantedBy(o)
                      /\ \A o \in AllTasks(net) \ Left' : WantedBy(o) \subseteq uses'
  BY DEF UsesWanted
<1>2. /\ \A u \in uses : u[2] # "demand" => \E o \in AllTasks(net) : u \in WantedBy(o)
      /\ \A o \in AllTasks(net) \ Left : WantedBy(o) \subseteq uses
  BY <1>1 DEF UsesWanted
<1>3. \A u \in uses' : u[2] # "demand" => \E o \in AllTasks(net) : u \in WantedBy(o)
  BY <1>1, <1>2
<1>4. \A o \in AllTasks(net) \ Left' : WantedBy(o) \subseteq uses'
  BY <1>1, <1>2
<1>5. QED
  BY <1>3, <1>4

LEMMA OthersKept ==
  ASSUME IInv, NEW h, Left = {h} \union Left', UNCHANGED <<net, constantId>>,
         diags' = <<>> => diags = <<>>, uses \subseteq uses',
         Elems(tk.patterns) \subseteq Elems(tk'.patterns)
  PROVE  /\ (h.op \notin {"DefaultPattern", "EnergyPattern"}
               /\ tk'.default = tk.default /\ tk'.energy = tk.energy) => OptionsSet'
         /\ h.op # "ConstantPattern" => ConstantNamed'
         /\ h.op # "AddJunction" => DemandsUsed'
<1>1. OptionsSet /\ ConstantNamed /\ DemandsUsed
  BY DEF IInv
<1>2. \A op : Task(op).op = op
  BY DEF Task
<1>3. FreeId' = FreeId /\ NeedsConstant' = NeedsConstant
  BY DEF FreeId, NeedsConstant
<1>4. ASSUME h.op \notin {"DefaultPattern", "EnergyPattern"},
             tk'.default = tk.default, tk'.energy = tk.energy
      PROVE OptionsSet'
  <2>1. /\ Task("DefaultPattern") \notin Left' => Task("DefaultPattern") \notin Left
        /\ Task("EnergyPattern") \notin Left' => Task("EnergyPattern") \notin Left
    BY <1>2, <1>4
  <2>2. QED
    BY <1>1, <1>4, <2>1 DEF OptionsSet
<1>5. ASSUME h.op # "ConstantPattern" PROVE ConstantNamed'
  <2>1. Task("ConstantPattern") \notin Left' => Task("ConstantPattern") \notin Left
    BY <1>2, <1>5
  <2>2. QED
    BY <1>1, <1>3, <2>1 DEF ConstantNamed
<1>6. ASSUME h.op # "AddJunction" PROVE DemandsUsed'
  <2> SUFFICES ASSUME diags' = <<>>, NEW o \in AllTasks(net) \ Left', o.op = "AddJunction",
                      NEW k \in DOMAIN o.item.demands
               PROVE  /\ DemandOf(o.item, k)' \in uses'
                      /\ PatternOf(o.item.demands[k])' \in {NoRef} \union Elems(tk'.patterns)
    BY DEF DemandsUsed
  <2>1. \A d : PatternOf(d)' = PatternOf(d)
    BY DEF PatternOf
  <2>2. DemandOf(o.item, k)' = DemandOf(o.item, k)
    BY <2>1 DEF DemandOf
  <2>3. o \notin Left
    BY <1>6
  <2>4. /\ DemandOf(o.item, k) \in uses
        /\ PatternOf(o.item.demands[k]) \in {NoRef} \union Elems(tk.patterns)
    BY <1>1, <2>3 DEF DemandsUsed
  <2>5. QED
    BY <2>1, <2>2, <2>4
<1>7. QED
  BY <1>4, <1>5, <1>6

LEMMA KeptByRegister ==
  ASSUME NEW r, NEW s, NEW ids, Kept(r, s, ids), NEW q, NEW e, NEW i, NEW r2,
         r2 = r \/ r2 = Register(r, e, i),
         \A k \in DOMAIN s : k \in DOMAIN q /\ q[k] = s[k],
         r2 # r /\ e \in ids => i \in DOMAIN q /\ q[i] = e
  PROVE  Kept(r2, q, ids)
BY DEF Kept, Register

-----------------------------------------------------------------------------
Extends(s, q) == \A k \in DOMAIN s : k \in DOMAIN q /\ q[k] = s[k]

LEMMA AddedTo ==
  ASSUME NEW S, NEW s \in Seq(S), NEW x \in S, NEW ending, NEW q, q = Added(s, x, ending)
  PROVE  /\ q \in Seq(S) /\ Extends(s, q)
         /\ Elems(s) \subseteq Elems(q) /\ Elems(q) \subseteq Elems(s) \union {x}
         /\ x \notin Elems(s) /\ Distinct(s) => Distinct(q)
         /\ ending # "refused" => Len(q) \in DOMAIN q /\ q[Len(q)] = x
<1>1. CASE ending = "refused"
  BY <1>1 DEF Added, Extends
<1>2. CASE ending # "refused"
  <2>1. q = Append(s, x)
    BY <1>2 DEF Added
  <2>2. /\ Append(s, x) \in Seq(S) /\ Elems(Append(s, x)) = Elems(s) \union {x}
        /\ Len(Append(s, x)) \in DOMAIN Append(s, x) /\ Append(s, x)[Len(Append(s, x))] = x
        /\ \A k \in DOMAIN s : k \in DOMAIN Append(s, x) /\ Append(s, x)[k] = s[k]
        /\ x \notin Elems(s) /\ Distinct(s) => Distinct(Append(s, x))
    BY AppendToList
  <2>3. QED
    BY <2>1, <2>2 DEF Extends
<1>3. QED
  BY <1>1, <1>2

AddLink == {"AddPipe", "AddPump", "AddValve"}

LEMMA AddKeeps ==
  ASSUME IInv, NEW op \in AddOps, Turn(op), NEW x, x = Item,
         NEW ending \in {"refused", "half", "done"}, NEW index, NEW refs,
         Finish(x.id, ending, index, refs), constantId' = constantId, ToolkitIsTyped',
         tk'.default = tk.default, tk'.energy = tk.energy,
         op \notin AddNode => tk'.nodes = tk.nodes,
         op \notin AddLink => tk'.links = tk.links,
         op # "AddControl" => tk'.controls = tk.controls,
         Extends(tk.patterns, tk'.patterns), Extends(tk.curves, tk'.curves),
         Extends(tk.controls, tk'.controls),
         ending = "done" =>
             /\ op = "AddPattern" => index \in DOMAIN tk'.patterns /\ tk'.patterns[index] = x.id
             /\ op = "AddCurve" => index \in DOMAIN tk'.curves /\ tk'.curves[index] = x.id
             /\ op = "AddControl" => index \in DOMAIN tk'.controls /\ tk'.controls[index] = x.id,
         op \in AddNode =>
             /\ Elems(tk'.nodes) \subseteq Elems(tk.nodes) \union {x.id}
             /\ x.id \notin Elems(tk.nodes) /\ Distinct(tk.nodes) => Distinct(tk'.nodes),
         op = "AddControl" =>
             /\ Elems(tk'.controls) \subseteq Elems(tk.controls) \union {x.id}
             /\ x.id \notin Elems(tk.controls) /\ Distinct(tk.controls) => Distinct(tk'.controls),
         diags = <<>> /\ ending = "done" =>
             /\ WantedBy([op |-> op, item |-> x]) \subseteq refs
             /\ \A u \in refs : u[2] # "demand" => u \in WantedBy([op |-> op, item |-> x]),
         op = "AddJunction" => DemandsUsed'
  PROVE  IInv'
<1> DEFINE h == Head(todo)
<1>1. /\ net' = net /\ Left = {h} \union Left' /\ h = [op |-> op, item |-> x]
      /\ \A o \in Left' : o.op = op => o.item.id # x.id
      /\ Network' /\ Scheduled' /\ FailuresCollected' /\ EntitiesOnly' /\ AllSettled'
      /\ diags' = <<>> => ending = "done" /\ diags = <<>>
      /\ uses' = IF ending = "done" THEN uses \union refs ELSE uses
      /\ reg' = IF ending = "done" THEN Register(reg, x.id, index) ELSE reg
  BY AddFinished
<1>2. /\ h \in AllTasks(net) /\ h \in Left /\ op \in Ops /\ h.op = op /\ h.item = x
      /\ \A o \in AllTasks(net) : Rank[op] < Rank[o.op] => o \in Left
  BY Turned, <1>1
<1> HIDE DEF h
<1>3. net \in Networks /\ IdentitiesAreUnique(net)
  BY DEF IInv, Network
<1>4. /\ op = "AddPattern" => x.id \in IdSet(net.patterns)
      /\ op = "AddCurve" => x.id \in IdSet(net.curves)
      /\ op \in AddNode => x.id \in Elems(Nodes(net))
      /\ op \in AddLink => x.id \in Elems(Links(net))
      /\ op = "AddControl" => x.id \in IdSet(net.controls)
      /\ op = "AddRule" => x.id \in IdSet(net.rules)
  BY <1>2, <1>3, AddedIds DEF AddLink
<1>5. /\ x.id \in IdSet(net.patterns) => op = "AddPattern"
      /\ x.id \in IdSet(net.curves) => op = "AddCurve"
      /\ x.id \in Elems(Nodes(net)) => op \in AddNode
      /\ x.id \in Elems(Links(net)) => op \in AddLink
      /\ x.id \in IdSet(net.controls) => op = "AddControl"
  <2>1. op \in {"AddPattern", "AddCurve", "AddControl", "AddRule"} \union AddNode \union AddLink
    BY DEF AddOps, AddNode, AddLink
  <2>2. /\ Elems(Links(net)) \intersect Elems(Nodes(net)) = {}
        /\ IdSet(net.patterns) \intersect (Elems(Nodes(net)) \union Elems(Links(net))) = {}
        /\ IdSet(net.curves) \intersect
              (Elems(Nodes(net)) \union Elems(Links(net)) \union IdSet(net.patterns)) = {}
        /\ IdSet(net.controls) \intersect (Elems(Nodes(net)) \union Elems(Links(net))
              \union IdSet(net.patterns) \union IdSet(net.curves)) = {}
        /\ IdSet(net.rules) \intersect (Elems(Nodes(net)) \union Elems(Links(net))
              \union IdSet(net.patterns) \union IdSet(net.curves) \union IdSet(net.controls)) = {}
    BY <1>3, IdentitiesByKind
  <2>3. QED
    BY <1>4, <2>1, <2>2
<1>6. reg' = reg \/ (reg' = Register(reg, x.id, index) /\ ending = "done")
  BY <1>1
<1>7. /\ Kept(reg', tk'.patterns, IdSet(net.patterns))
      /\ Kept(reg', tk'.curves, IdSet(net.curves))
      /\ Kept(reg', tk'.controls, IdSet(net.controls))
  <2>1. /\ Kept(reg, tk.patterns, IdSet(net.patterns)) /\ Kept(reg, tk.curves, IdSet(net.curves))
        /\ Kept(reg, tk.controls, IdSet(net.controls))
    BY DEF IInv, IndicesKept
  <2>2. ASSUME NEW s, NEW q, NEW ids, Kept(reg, s, ids), Extends(s, q),
               ending = "done" /\ x.id \in ids => index \in DOMAIN q /\ q[index] = x.id
        PROVE  Kept(reg', q, ids)
    BY <1>6, <2>2, KeptByRegister DEF Extends
  <2>3. Kept(reg', tk'.patterns, IdSet(net.patterns))
    BY <1>5, <2>1, <2>2
  <2>4. Kept(reg', tk'.curves, IdSet(net.curves))
    BY <1>5, <2>1, <2>2
  <2>5. Kept(reg', tk'.controls, IdSet(net.controls))
    BY <1>5, <2>1, <2>2
  <2>6. QED
    BY <2>3, <2>4, <2>5
<1>8. Task("RefreshNodes") \notin Left' => Kept(reg', tk'.nodes, Elems(Nodes(net)))
  <2> SUFFICES ASSUME Task("RefreshNodes") \notin Left'
               PROVE  Kept(reg', tk'.nodes, Elems(Nodes(net)))
    OBVIOUS
  <2>1. Task("RefreshNodes") # h
    BY <1>2 DEF Task, AddOps, AddNode
  <2>2. Task("RefreshNodes") \notin Left
    BY <1>1, <2>1
  <2>3. op \notin AddNode
    <3>1. Task("RefreshNodes") \in AllTasks(net) /\ Task("RefreshNodes").op = "RefreshNodes"
      BY AllTasksListed DEF Task
    <3>2. ~(Rank[op] < Rank["RefreshNodes"])
      BY <1>2, <2>2, <3>1
    <3>3. QED
      BY <3>2, Ranks DEF AddNode
  <2>4. tk'.nodes = tk.nodes /\ Kept(reg, tk.nodes, Elems(Nodes(net)))
    BY <2>2, <2>3 DEF IInv, IndicesKept
  <2>5. QED
    BY <1>5, <1>6, <2>3, <2>4, KeptByRegister
<1>9. Task("RefreshLinks") \notin Left' => Kept(reg', tk'.links, Elems(Links(net)))
  <2> SUFFICES ASSUME Task("RefreshLinks") \notin Left'
               PROVE  Kept(reg', tk'.links, Elems(Links(net)))
    OBVIOUS
  <2>1. Task("RefreshLinks") # h
    BY <1>2 DEF Task, AddOps, AddNode
  <2>2. Task("RefreshLinks") \notin Left
    BY <1>1, <2>1
  <2>3. op \notin AddLink
    <3>1. Task("RefreshLinks") \in AllTasks(net) /\ Task("RefreshLinks").op = "RefreshLinks"
      BY AllTasksListed DEF Task
    <3>2. ~(Rank[op] < Rank["RefreshLinks"])
      BY <1>2, <2>2, <3>1
    <3>3. QED
      BY <3>2, Ranks DEF AddLink
  <2>4. tk'.links = tk.links /\ Kept(reg, tk.links, Elems(Links(net)))
    BY <2>2, <2>3 DEF IInv, IndicesKept
  <2>5. QED
    BY <1>5, <1>6, <2>3, <2>4, KeptByRegister
<1>10. IndicesKept'
  BY <1>1, <1>7, <1>8, <1>9 DEF IndicesKept
<1>11. NoneTwice'
  <2>1. /\ Distinct(tk.nodes) /\ Distinct(tk.controls)
        /\ \A o \in Left : /\ o.op \in AddNode => o.item.id \notin Elems(tk.nodes)
                           /\ o.op = "AddControl" => o.item.id \notin Elems(tk.controls)
    BY DEF IInv, NoneTwice
  <2>2. /\ op \in AddNode => x.id \notin Elems(tk.nodes)
        /\ op = "AddControl" => x.id \notin Elems(tk.controls)
    BY <1>2, <2>1
  <2>3. Distinct(tk'.nodes) /\ Distinct(tk'.controls)
    BY <2>1, <2>2
  <2>4. ASSUME NEW o \in Left', o.op \in AddNode PROVE o.item.id \notin Elems(tk'.nodes)
    <3>1. o \in Left /\ o.item.id \notin Elems(tk.nodes)
      BY <1>1, <2>1, <2>4
    <3>2. CASE op \notin AddNode
      BY <3>1, <3>2
    <3>3. CASE op \in AddNode
      <4>1. o \in AllTasks(net)
        <5>1. todo' \in Seq(AllTasks(net))
          BY <1>1 DEF Scheduled
        <5>2. QED
          BY <5>1, SeqIsList DEF Left
      <4>2. /\ o.op = "AddJunction" => o.item.id \in IdSet(net.junctions)
            /\ o.op = "AddReservoir" => o.item.id \in IdSet(net.reservoirs)
            /\ o.op = "AddTank" => o.item.id \in IdSet(net.tanks)
        BY <1>3, <2>4, <4>1, AddedIds DEF AddOps
      <4>3. /\ op = "AddJunction" => x.id \in IdSet(net.junctions)
            /\ op = "AddReservoir" => x.id \in IdSet(net.reservoirs)
            /\ op = "AddTank" => x.id \in IdSet(net.tanks)
        BY <1>2, <1>3, AddedIds
      <4>4. /\ IdSet(net.junctions) \intersect IdSet(net.reservoirs) = {}
            /\ IdSet(net.junctions) \intersect IdSet(net.tanks) = {}
            /\ IdSet(net.reservoirs) \intersect IdSet(net.tanks) = {}
        BY <1>3, NodesByKind
      <4>5. o.item.id # x.id
        BY <1>1, <2>4, <3>3, <4>2, <4>3, <4>4 DEF AddNode
      <4>6. QED
        BY <3>1, <3>3, <4>5
    <3>4. QED
      BY <3>2, <3>3
  <2>5. ASSUME NEW o \in Left', o.op = "AddControl" PROVE o.item.id \notin Elems(tk'.controls)
    <3>1. o \in Left /\ o.item.id \notin Elems(tk.controls)
      BY <1>1, <2>1, <2>5
    <3>2. QED
      BY <1>1, <2>5, <3>1
  <2>6. QED
    BY <2>3, <2>4, <2>5 DEF NoneTwice
<1>12. UsesWanted'
  <2>1. UsesWanted /\ WantedBy(h) = WantedBy([op |-> op, item |-> x])
    BY <1>1 DEF IInv
  <2>2. QED
    BY <1>1, <1>2, <2>1, UsesFinished
<1>13. OptionsSet' /\ ConstantNamed' /\ DemandsUsed'
  <2>1. Elems(tk.patterns) \subseteq Elems(tk'.patterns)
    BY DEF Extends, Elems
  <2>2. uses \subseteq uses'
    BY <1>1
  <2>3. /\ h.op \notin {"DefaultPattern", "EnergyPattern"} => OptionsSet'
        /\ h.op # "ConstantPattern" => ConstantNamed'
        /\ h.op # "AddJunction" => DemandsUsed'
    BY <1>1, <2>1, <2>2, OthersKept
  <2>4. op \notin {"DefaultPattern", "EnergyPattern", "ConstantPattern"}
    BY DEF AddOps, AddNode
  <2>5. QED
    BY <1>2, <2>3, <2>4
<1>14. QED
  BY <1>1, <1>10, <1>11, <1>12, <1>13 DEF IInv

-----------------------------------------------------------------------------
(* References: what is registered before the turn of an operation.         *)

LEMMA RegisteredKinds ==
  ASSUME IInv, diags = <<>>, NEW op, Turn(op)
  PROVE  /\ 1 < Rank[op] => IdSet(net.patterns) \subseteq DOMAIN reg
         /\ 5 < Rank[op] => IdSet(net.curves) \subseteq DOMAIN reg
         /\ 8 < Rank[op] => Elems(Nodes(net)) \subseteq DOMAIN reg
         /\ 12 < Rank[op] => Elems(Links(net)) \subseteq DOMAIN reg
<1>1. net \in Networks
  BY DEF IInv, Network
<1>2. ASSUME NEW o \in AllTasks(net), o.op \in AddOps, Rank[o.op] < Rank[op]
      PROVE  o.item.id \in DOMAIN reg
  <2>1. o \notin Left
    BY <1>2, Turned
  <2>2. o.item.id \in built \union Elems(diags)
    BY <1>2, <2>1 DEF IInv, AllSettled
  <2>3. QED
    BY <2>2, EmptyList DEF IInv, EntitiesOnly
<1>3. \A s : IsList(s) => \A i \in IdSet(s) : \E x \in Elems(s) : x.id = i
  BY IdsOfList
<1>4. ASSUME NEW a \in AddOps, Rank[a] < Rank[op], NEW s, IsList(s),
             \A x \in Elems(s) : [op |-> a, item |-> x] \in AllTasks(net)
      PROVE  IdSet(s) \subseteq DOMAIN reg
  <2> SUFFICES ASSUME NEW i \in IdSet(s) PROVE i \in DOMAIN reg
    OBVIOUS
  <2>1. PICK x \in Elems(s) : x.id = i
    BY <1>3, <1>4
  <2>2. [op |-> a, item |-> x] \in AllTasks(net)
    BY <1>4
  <2> DEFINE o == [op |-> a, item |-> x]
  <2>3. o.op = a /\ o.item.id = i
    BY <2>1
  <2> HIDE DEF o
  <2>4. QED
    BY <1>2, <1>4, <2>2, <2>3 DEF o
<1>5. Rank[op] \in Int
  BY Turned, Ranks
<1>6. AddOps \subseteq Ops /\ {"AddPattern", "AddCurve", "AddJunction", "AddReservoir", "AddTank",
                               "AddPipe", "AddPump", "AddValve"} \subseteq AddOps
  BY DEF AddOps, AddNode, Ops
<1>7. ASSUME 1 < Rank[op] PROVE IdSet(net.patterns) \subseteq DOMAIN reg
  <2>1. Rank["AddPattern"] < Rank[op]
    BY <1>7, Ranks
  <2>2. QED
    BY <1>1, <1>4, <1>6, <2>1, Lists, AllTasksListed
<1>8. ASSUME 5 < Rank[op] PROVE IdSet(net.curves) \subseteq DOMAIN reg
  <2>1. Rank["AddCurve"] < Rank[op]
    BY <1>8, Ranks
  <2>2. QED
    BY <1>1, <1>4, <1>6, <2>1, Lists, AllTasksListed
<1>9. ASSUME 8 < Rank[op] PROVE Elems(Nodes(net)) \subseteq DOMAIN reg
  <2>1. Rank["AddJunction"] < Rank[op] /\ Rank["AddReservoir"] < Rank[op] /\ Rank["AddTank"] < Rank[op]
    BY <1>5, <1>9, Ranks
  <2>2. IdSet(net.junctions) \subseteq DOMAIN reg
    BY <1>1, <1>4, <1>6, <2>1, Lists, AllTasksListed
  <2>3. IdSet(net.reservoirs) \subseteq DOMAIN reg
    BY <1>1, <1>4, <1>6, <2>1, Lists, AllTasksListed
  <2>4. IdSet(net.tanks) \subseteq DOMAIN reg
    BY <1>1, <1>4, <1>6, <2>1, Lists, AllTasksListed
  <2>5. QED
    BY <1>1, <2>2, <2>3, <2>4, NodesAndLinks
<1>10. ASSUME 12 < Rank[op] PROVE Elems(Links(net)) \subseteq DOMAIN reg
  <2>1. Rank["AddPipe"] < Rank[op] /\ Rank["AddPump"] < Rank[op] /\ Rank["AddValve"] < Rank[op]
    BY <1>5, <1>10, Ranks
  <2>2. IdSet(net.pipes) \subseteq DOMAIN reg
    BY <1>1, <1>4, <1>6, <2>1, Lists, AllTasksListed
  <2>3. IdSet(net.pumps) \subseteq DOMAIN reg
    BY <1>1, <1>4, <1>6, <2>1, Lists, AllTasksListed
  <2>4. IdSet(net.valves) \subseteq DOMAIN reg
    BY <1>1, <1>4, <1>6, <2>1, Lists, AllTasksListed
  <2>5. QED
    BY <1>1, <2>2, <2>3, <2>4, NodesAndLinks
<1>11. QED
  BY <1>7, <1>8, <1>9, <1>10

LEMMA RefIsOne ==
  ASSUME NEW e, NEW role, NEW s, NEW ids, NEW target, Kept(reg, s, ids),
         ids \subseteq DOMAIN reg, target \in ids \union {NoRef}
  PROVE  Ref(e, role, s, target) = One(e, role, target)
BY DEF Ref, One, Kept, Registered

LEMMA KnownReferences ==
  ASSUME NEW n, ReferencesAreKnown(n)
  PROVE  /\ \A r \in Elems(n.reservoirs) : r.pattern \in IdSet(n.patterns) \union {NoRef}
         /\ \A p \in Elems(n.pumps) :
              /\ p.speed \in IdSet(n.patterns) \union {NoRef}
              /\ p.price \in IdSet(n.patterns) \union {NoRef}
              /\ p.head \in IdSet(n.curves) \union {NoRef}
              /\ p.efficiency \in IdSet(n.curves) \union {NoRef} \union {Constant}
         /\ \A v \in Elems(n.valves) : v.curve \in IdSet(n.curves) \union {NoRef}
         /\ n.default \in IdSet(n.patterns) \union {NoRef}
         /\ n.energy \in IdSet(n.patterns) \union {NoRef}
         /\ \A c \in Elems(n.controls) : /\ c.link \in Elems(Links(n))
                                         /\ c.node \in Elems(Nodes(n)) \union {NoRef}
BY DEF ReferencesAreKnown

PatternIds == IdSet(net.patterns) \union {FreeId}
CurveIds == IdSet(net.curves) \union {Private(p) : p \in IdSet(net.pumps)}
RuleIds == IdSet(net.rules) \union {Stranger}

LEMMA ToolkitFields ==
  ASSUME ToolkitIsTyped
  PROVE  /\ tk.nodes \in Seq(Elems(Nodes(net))) /\ tk.links \in Seq(Elems(Links(net)))
         /\ tk.patterns \in Seq(PatternIds) /\ tk.curves \in Seq(CurveIds)
         /\ tk.controls \in Seq(IdSet(net.controls)) /\ tk.rules \in Seq(RuleIds)
BY DEF ToolkitIsTyped, PatternIds, CurveIds, RuleIds

LEMMA ToolkitRetyped ==
  ASSUME ToolkitIsTyped, net' = net, NEW q,
         \/ q \in Seq(Elems(Nodes(net))) /\ tk' = [tk EXCEPT !.nodes = q]
         \/ q \in Seq(Elems(Links(net))) /\ tk' = [tk EXCEPT !.links = q]
         \/ q \in Seq(PatternIds) /\ tk' = [tk EXCEPT !.patterns = q]
         \/ q \in Seq(CurveIds) /\ tk' = [tk EXCEPT !.curves = q]
         \/ q \in Seq(IdSet(net.controls)) /\ tk' = [tk EXCEPT !.controls = q]
         \/ q \in Seq(RuleIds) /\ tk' = [tk EXCEPT !.rules = q]
  PROVE  /\ ToolkitIsTyped'
         /\ tk' = [tk EXCEPT !.nodes = q] => tk'.nodes = q /\ UNCHANGED <<tk.links, tk.patterns, tk.curves, tk.controls, tk.rules, tk.default, tk.energy>>
         /\ tk' = [tk EXCEPT !.links = q] => tk'.links = q /\ UNCHANGED <<tk.nodes, tk.patterns, tk.curves, tk.controls, tk.rules, tk.default, tk.energy>>
         /\ tk' = [tk EXCEPT !.patterns = q] => tk'.patterns = q /\ UNCHANGED <<tk.nodes, tk.links, tk.curves, tk.controls, tk.rules, tk.default, tk.energy>>
         /\ tk' = [tk EXCEPT !.curves = q] => tk'.curves = q /\ UNCHANGED <<tk.nodes, tk.links, tk.patterns, tk.controls, tk.rules, tk.default, tk.energy>>
         /\ tk' = [tk EXCEPT !.controls = q] => tk'.controls = q /\ UNCHANGED <<tk.nodes, tk.links, tk.patterns, tk.curves, tk.rules, tk.default, tk.energy>>
         /\ tk' = [tk EXCEPT !.rules = q] => tk'.rules = q /\ UNCHANGED <<tk.nodes, tk.links, tk.patterns, tk.curves, tk.controls, tk.default, tk.energy>>
<1>1. FreeId' = FreeId
  BY DEF FreeId
<1>2. tk \in [nodes : Seq(Elems(Nodes(net))), links : Seq(Elems(Links(net))),
              patterns : Seq(PatternIds), curves : Seq(CurveIds),
              controls : Seq(IdSet(net.controls)), rules : Seq(RuleIds),
              default : {NoRef, net.default}, energy : {NoRef, net.energy}]
  BY DEF ToolkitIsTyped, PatternIds, CurveIds, RuleIds
<1>3. tk' \in [nodes : Seq(Elems(Nodes(net))), links : Seq(Elems(Links(net))),
              patterns : Seq(PatternIds), curves : Seq(CurveIds),
              controls : Seq(IdSet(net.controls)), rules : Seq(RuleIds),
              default : {NoRef, net.default}, energy : {NoRef, net.energy}]
  BY <1>2
<1>4. ToolkitIsTyped'
  BY <1>1, <1>3 DEF ToolkitIsTyped, PatternIds, CurveIds, RuleIds
<1>5. QED
  BY <1>2, <1>4

-----------------------------------------------------------------------------
(* One lemma per operation, those that add an entity first.                *)

LEMMA ExtendsItself == \A s, q : q = s => Extends(s, q)
BY DEF Extends

(* An operation at its turn: what it is about.                             *)
LEMMA ItsItem ==
  ASSUME IInv, NEW op, Turn(op), NEW x, x = Item
  PROVE  /\ net \in Networks /\ IdentitiesAreUnique(net) /\ ReferencesAreKnown(net)
         /\ ToolkitIsTyped
         /\ op = "AddPattern" => x \in Elems(net.patterns) /\ x.id \in IdSet(net.patterns)
         /\ op = "AddCurve" => x \in Elems(net.curves) /\ x.id \in IdSet(net.curves)
         /\ op = "AddJunction" => x \in Elems(net.junctions) /\ x.id \in IdSet(net.junctions)
                                  /\ x.id \in Elems(Nodes(net))
         /\ op = "AddReservoir" => x \in Elems(net.reservoirs) /\ x.id \in Elems(Nodes(net))
         /\ op = "AddTank" => x \in Elems(net.tanks) /\ x.id \in Elems(Nodes(net))
         /\ op = "AddPipe" => x \in Elems(net.pipes) /\ x.id \in Elems(Links(net))
         /\ op = "AddPump" => x \in Elems(net.pumps) /\ x.id \in Elems(Links(net))
                              /\ x.id \in IdSet(net.pumps)
         /\ op = "AddValve" => x \in Elems(net.valves) /\ x.id \in Elems(Links(net))
         /\ op = "AddControl" => x \in Elems(net.controls) /\ x.id \in IdSet(net.controls)
         /\ op = "AddRule" => x \in Elems(net.rules) /\ x.id \in IdSet(net.rules)
<1>1. net \in Networks /\ IdentitiesAreUnique(net) /\ ReferencesAreKnown(net) /\ ToolkitIsTyped
  BY DEF IInv, Network
<1>2. PICK h : h = Head(todo)
  OBVIOUS
<1>3. h \in AllTasks(net) /\ h.op = op /\ h.item = x
  BY <1>2, Turned
<1>4. /\ op = "AddPattern" => x \in Elems(net.patterns)
      /\ op = "AddCurve" => x \in Elems(net.curves)
      /\ op = "AddJunction" => x \in Elems(net.junctions)
      /\ op = "AddReservoir" => x \in Elems(net.reservoirs)
      /\ op = "AddTank" => x \in Elems(net.tanks)
      /\ op = "AddPipe" => x \in Elems(net.pipes)
      /\ op = "AddPump" => x \in Elems(net.pumps)
      /\ op = "AddValve" => x \in Elems(net.valves)
      /\ op = "AddControl" => x \in Elems(net.controls)
      /\ op = "AddRule" => x \in Elems(net.rules)
  BY <1>3, TasksByOp
<1>5. op \in AddOps =>
        /\ op = "AddPattern" => x.id \in IdSet(net.patterns)
        /\ op = "AddCurve" => x.id \in IdSet(net.curves)
        /\ op = "AddJunction" => x.id \in IdSet(net.junctions)
        /\ op \in AddNode => x.id \in Elems(Nodes(net))
        /\ op \in AddLink => x.id \in Elems(Links(net))
        /\ op = "AddPump" => x.id \in IdSet(net.pumps)
        /\ op = "AddControl" => x.id \in IdSet(net.controls)
        /\ op = "AddRule" => x.id \in IdSet(net.rules)
  BY <1>1, <1>3, AddedIds DEF AddLink
<1>6. QED
  BY <1>1, <1>4, <1>5 DEF AddOps, AddNode, AddLink

LEMMA AddPatternStep ==
  ASSUME IInv, AddPattern
  PROVE  IInv'
<1>1. PICK x : x = Item
  OBVIOUS
<1>2. Turn("AddPattern") /\ constantId' = constantId
  BY DEF AddPattern
<1>3. PICK ending \in {"refused", "half", "done"} :
        /\ tk' = [tk EXCEPT !.patterns = Added(tk.patterns, x.id, ending)]
        /\ Finish(x.id, ending, Len(tk'.patterns), {})
  BY <1>1 DEF AddPattern, Finish
<1>4. PICK q : q = Added(tk.patterns, x.id, ending)
  OBVIOUS
<1>5. ToolkitIsTyped /\ x.id \in IdSet(net.patterns) /\ net' = net
  BY <1>1, <1>2, <1>3, ItsItem DEF Finish
<1>6. /\ q \in Seq(PatternIds) /\ Extends(tk.patterns, q)
      /\ ending = "done" => Len(q) \in DOMAIN q /\ q[Len(q)] = x.id
  <2>1. tk.patterns \in Seq(PatternIds) /\ x.id \in PatternIds
    BY <1>5, ToolkitFields DEF PatternIds
  <2>2. QED
    BY <1>4, <2>1, AddedTo
<1>7. /\ ToolkitIsTyped' /\ tk'.patterns = q
      /\ UNCHANGED <<tk.nodes, tk.links, tk.curves, tk.controls, tk.default, tk.energy>>
  BY <1>3, <1>4, <1>5, <1>6, ToolkitRetyped
<1>8. Finish(x.id, ending, Len(q), {})
  BY <1>3, <1>7 DEF Finish
<1>9. WantedBy([op |-> "AddPattern", item |-> x]) = {}
  BY DEF WantedBy
<1>10. Extends(tk.patterns, tk'.patterns) /\ Extends(tk.curves, tk'.curves)
       /\ Extends(tk.controls, tk'.controls)
  BY <1>6, <1>7, ExtendsItself
<1>11. "AddPattern" \in AddOps \ (AddNode \union AddLink)
  BY DEF AddOps, AddNode, AddLink
<1>12. QED
  BY <1>1, <1>2, <1>6, <1>7, <1>8, <1>9, <1>10, <1>11, AddKeeps

LEMMA CurveAdded ==
  ASSUME IInv, NEW op \in {"AddCurve"}, Turn(op), NEW x, x = Item,
         NEW ending \in {"refused", "half", "done"}, NEW index, NEW refs,
         NEW q, q = Added(tk.curves, x.id, ending), tk' = [tk EXCEPT !.curves = q],
         index = Len(q), Finish(x.id, ending, index, refs), constantId' = constantId,
         diags = <<>> /\ ending = "done" => refs = WantedBy([op |-> op, item |-> x])
  PROVE  IInv'
<1>1. ToolkitIsTyped /\ net' = net /\ x.id \in IdSet(net.curves)
  BY ItsItem DEF Finish
<1>2. tk.curves \in Seq(CurveIds) /\ x.id \in CurveIds
  BY <1>1, ToolkitFields DEF CurveIds
<1>3. /\ q \in Seq(CurveIds) /\ Extends(tk.curves, q)
      /\ Elems(q) \subseteq Elems(tk.curves) \union {x.id}
      /\ x.id \notin Elems(tk.curves) /\ Distinct(tk.curves) => Distinct(q)
      /\ ending = "done" => Len(q) \in DOMAIN q /\ q[Len(q)] = x.id
  BY <1>2, AddedTo
<1>4. /\ ToolkitIsTyped' /\ tk'.curves = q
      /\ UNCHANGED <<tk.nodes, tk.links, tk.patterns, tk.controls, tk.default, tk.energy>>
  BY <1>1, <1>3, ToolkitRetyped
<1>5. Extends(tk.patterns, tk'.patterns) /\ Extends(tk.curves, tk'.curves)
      /\ Extends(tk.controls, tk'.controls)
  BY <1>3, <1>4, ExtendsItself
<1>6. /\ op \in AddOps /\ op # "AddJunction"
      /\ op = "AddCurve" /\ op \notin AddNode \union AddLink
  BY DEF AddOps, AddNode, AddLink
<1>7. QED
  BY <1>1, <1>3, <1>4, <1>5, <1>6, AddKeeps

LEMMA NodeAdded ==
  ASSUME IInv, NEW op \in {"AddReservoir", "AddTank"}, Turn(op), NEW x, x = Item,
         NEW ending \in {"refused", "half", "done"}, NEW index, NEW refs,
         NEW q, q = Added(tk.nodes, x.id, ending), tk' = [tk EXCEPT !.nodes = q],
         index = Len(q), Finish(x.id, ending, index, refs), constantId' = constantId,
         diags = <<>> /\ ending = "done" => refs = WantedBy([op |-> op, item |-> x])
  PROVE  IInv'
<1>1. ToolkitIsTyped /\ net' = net /\ x.id \in Elems(Nodes(net))
  BY ItsItem DEF Finish
<1>2. tk.nodes \in Seq(Elems(Nodes(net))) /\ x.id \in Elems(Nodes(net))
  BY <1>1, ToolkitFields
<1>3. /\ q \in Seq(Elems(Nodes(net))) /\ Extends(tk.nodes, q)
      /\ Elems(q) \subseteq Elems(tk.nodes) \union {x.id}
      /\ x.id \notin Elems(tk.nodes) /\ Distinct(tk.nodes) => Distinct(q)
      /\ ending = "done" => Len(q) \in DOMAIN q /\ q[Len(q)] = x.id
  BY <1>2, AddedTo
<1>4. /\ ToolkitIsTyped' /\ tk'.nodes = q
      /\ UNCHANGED <<tk.links, tk.patterns, tk.curves, tk.controls, tk.default, tk.energy>>
  BY <1>1, <1>3, ToolkitRetyped
<1>5. Extends(tk.patterns, tk'.patterns) /\ Extends(tk.curves, tk'.curves)
      /\ Extends(tk.controls, tk'.controls)
  BY <1>3, <1>4, ExtendsItself
<1>6. /\ op \in AddOps /\ op # "AddJunction"
      /\ op \in AddNode /\ op \notin AddLink
      /\ op \notin {"AddPattern", "AddCurve", "AddControl"}
  BY DEF AddOps, AddNode, AddLink
<1>7. QED
  BY <1>1, <1>3, <1>4, <1>5, <1>6, AddKeeps

LEMMA LinkAdded ==
  ASSUME IInv, NEW op \in {"AddPipe", "AddValve"}, Turn(op), NEW x, x = Item,
         NEW ending \in {"refused", "half", "done"}, NEW index, NEW refs,
         NEW q, q = Added(tk.links, x.id, ending), tk' = [tk EXCEPT !.links = q],
         index = Len(q), Finish(x.id, ending, index, refs), constantId' = constantId,
         diags = <<>> /\ ending = "done" => refs = WantedBy([op |-> op, item |-> x])
  PROVE  IInv'
<1>1. ToolkitIsTyped /\ net' = net /\ x.id \in Elems(Links(net))
  BY ItsItem DEF Finish
<1>2. tk.links \in Seq(Elems(Links(net))) /\ x.id \in Elems(Links(net))
  BY <1>1, ToolkitFields
<1>3. /\ q \in Seq(Elems(Links(net))) /\ Extends(tk.links, q)
      /\ Elems(q) \subseteq Elems(tk.links) \union {x.id}
      /\ x.id \notin Elems(tk.links) /\ Distinct(tk.links) => Distinct(q)
      /\ ending = "done" => Len(q) \in DOMAIN q /\ q[Len(q)] = x.id
  BY <1>2, AddedTo
<1>4. /\ ToolkitIsTyped' /\ tk'.links = q
      /\ UNCHANGED <<tk.nodes, tk.patterns, tk.curves, tk.controls, tk.default, tk.energy>>
  BY <1>1, <1>3, ToolkitRetyped
<1>5. Extends(tk.patterns, tk'.patterns) /\ Extends(tk.curves, tk'.curves)
      /\ Extends(tk.controls, tk'.controls)
  BY <1>3, <1>4, ExtendsItself
<1>6. /\ op \in AddOps /\ op # "AddJunction"
      /\ op \in AddLink /\ op \notin AddNode
      /\ op \notin {"AddPattern", "AddCurve", "AddControl"}
  BY DEF AddOps, AddNode, AddLink
<1>7. QED
  BY <1>1, <1>3, <1>4, <1>5, <1>6, AddKeeps

LEMMA ControlAdded ==
  ASSUME IInv, NEW op \in {"AddControl"}, Turn(op), NEW x, x = Item,
         NEW ending \in {"refused", "half", "done"}, NEW index, NEW refs,
         NEW q, q = Added(tk.controls, x.id, ending), tk' = [tk EXCEPT !.controls = q],
         index = Len(q), Finish(x.id, ending, index, refs), constantId' = constantId,
         diags = <<>> /\ ending = "done" => refs = WantedBy([op |-> op, item |-> x])
  PROVE  IInv'
<1>1. ToolkitIsTyped /\ net' = net /\ x.id \in IdSet(net.controls)
  BY ItsItem DEF Finish
<1>2. tk.controls \in Seq(IdSet(net.controls)) /\ x.id \in IdSet(net.controls)
  BY <1>1, ToolkitFields
<1>3. /\ q \in Seq(IdSet(net.controls)) /\ Extends(tk.controls, q)
      /\ Elems(q) \subseteq Elems(tk.controls) \union {x.id}
      /\ x.id \notin Elems(tk.controls) /\ Distinct(tk.controls) => Distinct(q)
      /\ ending = "done" => Len(q) \in DOMAIN q /\ q[Len(q)] = x.id
  BY <1>2, AddedTo
<1>4. /\ ToolkitIsTyped' /\ tk'.controls = q
      /\ UNCHANGED <<tk.nodes, tk.links, tk.patterns, tk.curves, tk.default, tk.energy>>
  BY <1>1, <1>3, ToolkitRetyped
<1>5. Extends(tk.patterns, tk'.patterns) /\ Extends(tk.curves, tk'.curves)
      /\ Extends(tk.controls, tk'.controls)
  BY <1>3, <1>4, ExtendsItself
<1>6. /\ op \in AddOps /\ op # "AddJunction"
      /\ op = "AddControl" /\ op \notin AddNode \union AddLink
  BY DEF AddOps, AddNode, AddLink
<1>7. QED
  BY <1>1, <1>3, <1>4, <1>5, <1>6, AddKeeps

-----------------------------------------------------------------------------
LEMMA FieldChanged ==
  ASSUME ToolkitIsTyped, NEW q
  PROVE  /\ tk' = [tk EXCEPT !.nodes = q] => tk'.nodes = q
         /\ tk' = [tk EXCEPT !.links = q] => tk'.links = q
         /\ tk' = [tk EXCEPT !.curves = q] => tk'.curves = q
         /\ tk' = [tk EXCEPT !.controls = q] => tk'.controls = q
BY DEF ToolkitIsTyped

(* With no failure so far, what an operation needs is there under its      *)
(* index.                                                                  *)
LEMMA EarlierRefs ==
  ASSUME IInv, diags = <<>>, NEW op, Turn(op), NEW e, NEW role, NEW target
  PROVE  /\ 1 < Rank[op] /\ target \in IdSet(net.patterns) \union {NoRef} =>
               Ref(e, role, tk.patterns, target) = One(e, role, target)
         /\ 5 < Rank[op] /\ target \in IdSet(net.curves) \union {NoRef} =>
               Ref(e, role, tk.curves, target) = One(e, role, target)
         /\ 13 < Rank[op] /\ target \in Elems(Nodes(net)) \union {NoRef} =>
               Ref(e, role, tk.nodes, target) = One(e, role, target)
         /\ 13 < Rank[op] /\ target \in Elems(Links(net)) \union {NoRef} =>
               Ref(e, role, tk.links, target) = One(e, role, target)
<1>1. /\ 1 < Rank[op] => IdSet(net.patterns) \subseteq DOMAIN reg
      /\ 5 < Rank[op] => IdSet(net.curves) \subseteq DOMAIN reg
      /\ 8 < Rank[op] => Elems(Nodes(net)) \subseteq DOMAIN reg
      /\ 12 < Rank[op] => Elems(Links(net)) \subseteq DOMAIN reg
  BY RegisteredKinds
<1>2. Rank[op] \in Int
  BY Turned, Ranks
<1>3. Kept(reg, tk.patterns, IdSet(net.patterns)) /\ Kept(reg, tk.curves, IdSet(net.curves))
  BY DEF IInv, IndicesKept
<1>4. 13 < Rank[op] => /\ Kept(reg, tk.nodes, Elems(Nodes(net)))
                       /\ Kept(reg, tk.links, Elems(Links(net)))
  <2> SUFFICES ASSUME 13 < Rank[op]
               PROVE  /\ Task("RefreshNodes") \notin Left /\ Task("RefreshLinks") \notin Left
    BY DEF IInv, IndicesKept
  <2>1. /\ Task("RefreshNodes") \in AllTasks(net) /\ Task("RefreshNodes").op = "RefreshNodes"
        /\ Task("RefreshLinks") \in AllTasks(net) /\ Task("RefreshLinks").op = "RefreshLinks"
    BY AllTasksListed DEF Task
  <2>2. Rank["RefreshNodes"] < Rank[op] /\ Rank["RefreshLinks"] < Rank[op]
    BY <1>2, Ranks
  <2>3. QED
    BY <2>1, <2>2, Turned
<1>5. QED
  BY <1>1, <1>2, <1>3, <1>4, RefIsOne

LEMMA AddCurveStep ==
  ASSUME IInv, AddCurve
  PROVE  IInv'
<1>1. PICK x : x = Item
  OBVIOUS
<1>2. Turn("AddCurve") /\ constantId' = constantId
  BY DEF AddCurve
<1>3. PICK ending \in {"refused", "half", "done"} :
        /\ tk' = [tk EXCEPT !.curves = Added(tk.curves, x.id, ending)]
        /\ Finish(x.id, ending, Len(tk'.curves), {})
  BY <1>1 DEF AddCurve, Finish
<1>4. PICK q : q = Added(tk.curves, x.id, ending)
  OBVIOUS
<1>5. tk'.curves = q
  BY <1>3, <1>4, FieldChanged DEF IInv
<1>6. Finish(x.id, ending, Len(q), {})
  BY <1>3, <1>5 DEF Finish
<1>7. WantedBy([op |-> "AddCurve", item |-> x]) = {}
  BY DEF WantedBy
<1>8. QED
  BY <1>1, <1>2, <1>3, <1>4, <1>6, <1>7, CurveAdded

LEMMA AddReservoirStep ==
  ASSUME IInv, AddReservoir
  PROVE  IInv'
<1>1. PICK x : x = Item
  OBVIOUS
<1>2. Turn("AddReservoir") /\ constantId' = constantId
  BY DEF AddReservoir
<1> DEFINE refs == Ref(x.id, "pattern", tk.patterns, x.pattern)
<1>3. PICK ending \in {"refused", "half", "done"} :
        /\ tk' = [tk EXCEPT !.nodes = Added(tk.nodes, x.id, ending)]
        /\ Finish(x.id, ending, Len(tk'.nodes), refs)
  BY <1>1 DEF AddReservoir, Finish
<1>4. PICK q : q = Added(tk.nodes, x.id, ending)
  OBVIOUS
<1>5. tk'.nodes = q
  BY <1>3, <1>4, FieldChanged DEF IInv
<1> HIDE DEF refs
<1>6. PICK w : w = refs
  OBVIOUS
<1>7. Finish(x.id, ending, Len(q), w)
  BY <1>3, <1>5, <1>6 DEF Finish
<1>8. diags = <<>> => w = WantedBy([op |-> "AddReservoir", item |-> x])
  <2> SUFFICES ASSUME diags = <<>> PROVE w = WantedBy([op |-> "AddReservoir", item |-> x])
    OBVIOUS
  <2>1. x.pattern \in IdSet(net.patterns) \union {NoRef}
    BY <1>1, <1>2, ItsItem, KnownReferences
  <2>2. 1 < Rank["AddReservoir"]
    BY Ranks
  <2>3. w = One(x.id, "pattern", x.pattern)
    BY <1>2, <1>6, <2>1, <2>2, EarlierRefs DEF refs
  <2>4. QED
    BY <2>3 DEF WantedBy
<1>9. QED
  BY <1>1, <1>2, <1>3, <1>4, <1>7, <1>8, NodeAdded

LEMMA AddTankStep ==
  ASSUME IInv, AddTank
  PROVE  IInv'
<1>1. PICK x : x = Item
  OBVIOUS
<1>2. Turn("AddTank") /\ constantId' = constantId
  BY DEF AddTank
<1> DEFINE refs == IF x.curve = NoRef THEN {} ELSE {<<x.id, "curve", 1, x.curve>>}
<1>3. PICK ending \in {"refused", "half", "done"} :
        /\ tk' = [tk EXCEPT !.nodes = Added(tk.nodes, x.id, ending)]
        /\ Finish(x.id, ending, Len(tk'.nodes), refs)
  BY <1>1 DEF AddTank, Finish
<1>4. PICK q : q = Added(tk.nodes, x.id, ending)
  OBVIOUS
<1>5. tk'.nodes = q
  BY <1>3, <1>4, FieldChanged DEF IInv
<1> HIDE DEF refs
<1>6. PICK w : w = refs
  OBVIOUS
<1>7. Finish(x.id, ending, Len(q), w)
  BY <1>3, <1>5, <1>6 DEF Finish
<1>8. diags = <<>> => w = WantedBy([op |-> "AddTank", item |-> x])
  BY <1>6 DEF WantedBy, One, refs
<1>9. QED
  BY <1>1, <1>2, <1>3, <1>4, <1>7, <1>8, NodeAdded

LEMMA AddPipeStep ==
  ASSUME IInv, AddPipe
  PROVE  IInv'
<1>1. PICK x : x = Item
  OBVIOUS
<1>2. Turn("AddPipe") /\ constantId' = constantId
  BY DEF AddPipe
<1> DEFINE refs == EndsOf(x)
<1>3. PICK ending \in {"refused", "half", "done"} :
        /\ tk' = [tk EXCEPT !.links = Added(tk.links, x.id, ending)]
        /\ Finish(x.id, ending, Len(tk'.links), refs)
  BY <1>1 DEF AddPipe, Finish
<1>4. PICK q : q = Added(tk.links, x.id, ending)
  OBVIOUS
<1>5. tk'.links = q
  BY <1>3, <1>4, FieldChanged DEF IInv
<1> HIDE DEF refs
<1>6. PICK w : w = refs
  OBVIOUS
<1>7. Finish(x.id, ending, Len(q), w)
  BY <1>3, <1>5, <1>6 DEF Finish
<1>8. diags = <<>> => w = WantedBy([op |-> "AddPipe", item |-> x])
  BY <1>6 DEF WantedBy, refs
<1>9. QED
  BY <1>1, <1>2, <1>3, <1>4, <1>7, <1>8, LinkAdded

LEMMA AddValveStep ==
  ASSUME IInv, AddValve
  PROVE  IInv'
<1>1. PICK x : x = Item
  OBVIOUS
<1>2. Turn("AddValve") /\ constantId' = constantId
  BY DEF AddValve
<1> DEFINE refs == EndsOf(x) \union Ref(x.id, "curve", tk.curves, x.curve)
<1>3. PICK ending \in {"refused", "half", "done"} :
        /\ tk' = [tk EXCEPT !.links = Added(tk.links, x.id, ending)]
        /\ Finish(x.id, ending, Len(tk'.links), refs)
  BY <1>1 DEF AddValve, Finish
<1>4. PICK q : q = Added(tk.links, x.id, ending)
  OBVIOUS
<1>5. tk'.links = q
  BY <1>3, <1>4, FieldChanged DEF IInv
<1> HIDE DEF refs
<1>6. PICK w : w = refs
  OBVIOUS
<1>7. Finish(x.id, ending, Len(q), w)
  BY <1>3, <1>5, <1>6 DEF Finish
<1>8. diags = <<>> => w = WantedBy([op |-> "AddValve", item |-> x])
  <2> SUFFICES ASSUME diags = <<>> PROVE w = WantedBy([op |-> "AddValve", item |-> x])
    OBVIOUS
  <2>1. x.curve \in IdSet(net.curves) \union {NoRef}
    BY <1>1, <1>2, ItsItem, KnownReferences
  <2>2. 5 < Rank["AddValve"]
    BY Ranks
  <2>3. Ref(x.id, "curve", tk.curves, x.curve) = One(x.id, "curve", x.curve)
    BY <1>2, <2>1, <2>2, EarlierRefs
  <2>4. QED
    BY <1>6, <2>3 DEF WantedBy, refs
<1>9. QED
  BY <1>1, <1>2, <1>3, <1>4, <1>7, <1>8, LinkAdded

LEMMA AddControlStep ==
  ASSUME IInv, AddControl
  PROVE  IInv'
<1>1. PICK x : x = Item
  OBVIOUS
<1>2. Turn("AddControl") /\ constantId' = constantId
  BY DEF AddControl
<1> DEFINE refs == Ref(x.id, "link", tk.links, x.link) \union Ref(x.id, "node", tk.nodes, x.node)
<1>3. PICK ending \in {"refused", "half", "done"} :
        /\ tk' = [tk EXCEPT !.controls = Added(tk.controls, x.id, ending)]
        /\ Finish(x.id, ending, Len(tk'.controls), refs)
  BY <1>1 DEF AddControl, Finish
<1>4. PICK q : q = Added(tk.controls, x.id, ending)
  OBVIOUS
<1>5. tk'.controls = q
  BY <1>3, <1>4, FieldChanged DEF IInv
<1> HIDE DEF refs
<1>6. PICK w : w = refs
  OBVIOUS
<1>7. Finish(x.id, ending, Len(q), w)
  BY <1>3, <1>5, <1>6 DEF Finish
<1>8. diags = <<>> => w = WantedBy([op |-> "AddControl", item |-> x])
  <2> SUFFICES ASSUME diags = <<>> PROVE w = WantedBy([op |-> "AddControl", item |-> x])
    OBVIOUS
  <2>1. x.link \in Elems(Links(net)) /\ x.node \in Elems(Nodes(net)) \union {NoRef}
    BY <1>1, <1>2, ItsItem, KnownReferences
  <2>2. 13 < Rank["AddControl"]
    BY Ranks
  <2>3. Ref(x.id, "link", tk.links, x.link) = One(x.id, "link", x.link)
    BY <1>2, <2>1, <2>2, EarlierRefs
  <2>4. Ref(x.id, "node", tk.nodes, x.node) = One(x.id, "node", x.node)
    BY <1>2, <2>1, <2>2, EarlierRefs
  <2>5. QED
    BY <1>6, <2>3, <2>4 DEF WantedBy, refs
<1>9. QED
  BY <1>1, <1>2, <1>3, <1>4, <1>7, <1>8, ControlAdded

-----------------------------------------------------------------------------
LEMMA AddRuleStep ==
  ASSUME IInv, AddRule
  PROVE  IInv'
<1>1. PICK x : x = Item
  OBVIOUS
<1>2. Turn("AddRule") /\ constantId' = constantId
  BY DEF AddRule
<1> DEFINE refs == {<<x.id, "names", 1, y>> : y \in x.nodes \union x.links}
<1>3. PICK ending \in {"refused", "half", "done"}, name \in {x.id, Stranger} :
        /\ tk' = [tk EXCEPT !.rules = Added(tk.rules, name, ending)]
        /\ Finish(x.id, ending, Len(tk.rules) + 1, refs)
  BY <1>1 DEF AddRule, Finish
<1> HIDE DEF refs
<1>4. PICK q : q = Added(tk.rules, name, ending)
  OBVIOUS
<1>5. ToolkitIsTyped /\ net' = net /\ x.id \in IdSet(net.rules)
  BY <1>1, <1>2, <1>3, ItsItem DEF Finish
<1>6. q \in Seq(RuleIds)
  <2>1. tk.rules \in Seq(RuleIds) /\ name \in RuleIds
    BY <1>3, <1>5, ToolkitFields DEF RuleIds
  <2>2. QED
    BY <1>4, <2>1, AddedTo
<1>7. /\ ToolkitIsTyped'
      /\ UNCHANGED <<tk.nodes, tk.links, tk.patterns, tk.curves, tk.controls, tk.default, tk.energy>>
  BY <1>3, <1>4, <1>5, <1>6, ToolkitRetyped
<1>8. refs = WantedBy([op |-> "AddRule", item |-> x])
  BY DEF WantedBy, refs
<1>9. Extends(tk.patterns, tk'.patterns) /\ Extends(tk.curves, tk'.curves)
      /\ Extends(tk.controls, tk'.controls)
  BY <1>7, ExtendsItself
<1>10. "AddRule" \in AddOps \ (AddNode \union AddLink)
  BY DEF AddOps, AddNode, AddLink
<1>11. PICK op : op = "AddRule"
  OBVIOUS
<1>12. PICK index : index = Len(tk.rules) + 1
  OBVIOUS
<1>13. Finish(x.id, ending, index, refs)
  BY <1>3, <1>12 DEF Finish
<1>14. op \in AddOps /\ Turn(op) /\ op \notin AddNode /\ op \notin AddLink
       /\ op \notin {"AddPattern", "AddCurve", "AddControl", "AddJunction"}
       /\ refs = WantedBy([op |-> op, item |-> x])
  BY <1>2, <1>8, <1>10, <1>11
<1>15. QED
  BY <1>1, <1>2, <1>7, <1>9, <1>13, <1>14, AddKeeps

LEMMA AddPumpStep ==
  ASSUME IInv, AddPump
  PROVE  IInv'
<1>1. PICK x : x = Item
  OBVIOUS
<1>2. Turn("AddPump") /\ constantId' = constantId
  BY DEF AddPump
<1> DEFINE private == Private(x.id)
           efficiency == IF x.efficiency # Constant
                           THEN Ref(x.id, "efficiency", tk.curves, x.efficiency)
                           ELSE {<<x.id, "efficiency", 1, private>>}
           refs == EndsOf(x) \union Ref(x.id, "head", tk.curves, x.head)
                   \union Ref(x.id, "speed", tk.patterns, x.speed) \union efficiency
                   \union Ref(x.id, "price", tk.patterns, x.price)
<1>3. PICK ending \in {"refused", "half", "done"}, hasCurve \in BOOLEAN :
        /\ tk' = [tk EXCEPT !.links = Added(tk.links, x.id, ending),
                            !.curves = IF hasCurve THEN Append(tk.curves, private) ELSE tk.curves]
        /\ Finish(x.id, ending, Len(tk'.links), refs)
  BY <1>1 DEF AddPump, Finish
<1> HIDE DEF efficiency, refs
<1>4. PICK l : l = Added(tk.links, x.id, ending)
  OBVIOUS
<1>5. PICK c : c = IF hasCurve THEN Append(tk.curves, private) ELSE tk.curves
  OBVIOUS
<1>6. /\ net \in Networks /\ ReferencesAreKnown(net) /\ ToolkitIsTyped /\ net' = net
      /\ x \in Elems(net.pumps) /\ x.id \in IdSet(net.pumps) /\ x.id \in Elems(Links(net))
  BY <1>1, <1>2, <1>3, ItsItem DEF Finish
<1>7. l \in Seq(Elems(Links(net)))
  <2>1. tk.links \in Seq(Elems(Links(net)))
    BY <1>6, ToolkitFields
  <2>2. QED
    BY <1>4, <1>6, <2>1, AddedTo
<1>8. c \in Seq(CurveIds) /\ Extends(tk.curves, c)
  <2>1. tk.curves \in Seq(CurveIds) /\ private \in CurveIds
    BY <1>6, ToolkitFields DEF CurveIds
  <2> HIDE DEF private
  <2>2. /\ Append(tk.curves, private) \in Seq(CurveIds)
        /\ \A k \in DOMAIN tk.curves : /\ k \in DOMAIN Append(tk.curves, private)
                                       /\ Append(tk.curves, private)[k] = tk.curves[k]
    BY <2>1, AppendToList
  <2>3. QED
    BY <1>5, <2>1, <2>2 DEF Extends
<1>9. tk' = [tk EXCEPT !.links = l, !.curves = c]
  BY <1>3, <1>4, <1>5
<1>10. /\ ToolkitIsTyped' /\ tk'.curves = c
       /\ UNCHANGED <<tk.nodes, tk.patterns, tk.controls, tk.default, tk.energy>>
  <2>1. FreeId' = FreeId
    BY <1>6 DEF FreeId
  <2>2. tk \in [nodes : Seq(Elems(Nodes(net))), links : Seq(Elems(Links(net))),
                patterns : Seq(PatternIds), curves : Seq(CurveIds),
                controls : Seq(IdSet(net.controls)), rules : Seq(RuleIds),
                default : {NoRef, net.default}, energy : {NoRef, net.energy}]
    BY <1>6 DEF ToolkitIsTyped, PatternIds, CurveIds, RuleIds
  <2>3. tk' \in [nodes : Seq(Elems(Nodes(net))), links : Seq(Elems(Links(net))),
                patterns : Seq(PatternIds), curves : Seq(CurveIds),
                controls : Seq(IdSet(net.controls)), rules : Seq(RuleIds),
                default : {NoRef, net.default}, energy : {NoRef, net.energy}]
    BY <1>7, <1>8, <1>9, <2>2
  <2>4. ToolkitIsTyped'
    BY <1>6, <2>1, <2>3 DEF ToolkitIsTyped, PatternIds, CurveIds, RuleIds
  <2>5. QED
    BY <1>9, <2>2, <2>4
<1>11. diags = <<>> => refs = WantedBy([op |-> "AddPump", item |-> x])
  <2> SUFFICES ASSUME diags = <<>> PROVE refs = WantedBy([op |-> "AddPump", item |-> x])
    OBVIOUS
  <2>1. /\ x.speed \in IdSet(net.patterns) \union {NoRef}
        /\ x.price \in IdSet(net.patterns) \union {NoRef}
        /\ x.head \in IdSet(net.curves) \union {NoRef}
        /\ x.efficiency \in IdSet(net.curves) \union {NoRef} \union {Constant}
    BY <1>6, KnownReferences
  <2>2. 1 < Rank["AddPump"] /\ 5 < Rank["AddPump"]
    BY Ranks
  <2>3. Ref(x.id, "speed", tk.patterns, x.speed) = One(x.id, "speed", x.speed)
    BY <1>2, <2>1, <2>2, EarlierRefs
  <2>4. Ref(x.id, "price", tk.patterns, x.price) = One(x.id, "price", x.price)
    BY <1>2, <2>1, <2>2, EarlierRefs
  <2>5. Ref(x.id, "head", tk.curves, x.head) = One(x.id, "head", x.head)
    BY <1>2, <2>1, <2>2, EarlierRefs
  <2>6. efficiency = One(x.id, "efficiency", IF x.efficiency = Constant THEN private ELSE x.efficiency)
    <3>1. CASE x.efficiency # Constant
      <4>1. Ref(x.id, "efficiency", tk.curves, x.efficiency) = One(x.id, "efficiency", x.efficiency)
        BY <1>2, <2>1, <2>2, <3>1, EarlierRefs
      <4>2. QED
        BY <3>1, <4>1 DEF efficiency
    <3>2. CASE x.efficiency = Constant
      <4>1. private # NoRef
        BY <1>6, IdsAssumption
      <4>2. QED
        BY <3>2, <4>1 DEF efficiency, One
    <3>3. QED
      BY <3>1, <3>2
  <2>7. WantedBy([op |-> "AddPump", item |-> x]) =
          EndsOf(x) \union One(x.id, "head", x.head) \union One(x.id, "speed", x.speed)
          \union One(x.id, "price", x.price)
          \union One(x.id, "efficiency", IF x.efficiency = Constant THEN private ELSE x.efficiency)
    BY DEF WantedBy
  <2> HIDE DEF private
  <2>8. QED
    BY <2>3, <2>4, <2>5, <2>6, <2>7 DEF refs
<1>12. Extends(tk.patterns, tk'.patterns) /\ Extends(tk.curves, tk'.curves)
       /\ Extends(tk.controls, tk'.controls)
  BY <1>8, <1>10, ExtendsItself
<1>13. PICK op : op = "AddPump"
  OBVIOUS
<1>14. PICK index : index = Len(tk'.links)
  OBVIOUS
<1>15. Finish(x.id, ending, index, refs)
  BY <1>3, <1>14 DEF Finish
<1>16. op \in AddOps /\ Turn(op) /\ op \notin AddNode /\ op \in AddLink
       /\ op \notin {"AddPattern", "AddCurve", "AddControl", "AddJunction"}
       /\ (diags = <<>> => refs = WantedBy([op |-> op, item |-> x]))
  BY <1>2, <1>11, <1>13 DEF AddOps, AddNode, AddLink
<1>17. QED
  BY <1>1, <1>2, <1>10, <1>12, <1>15, <1>16, AddKeeps

-----------------------------------------------------------------------------
(* EN_addnode puts a junction between the others and the rest.             *)

LEMMA InsertedInto ==
  ASSUME NEW S, NEW s \in Seq(S), NEW x \in S, NEW k \in 1 .. Len(s) + 1,
         NEW q, q = Inserted(s, k, x)
  PROVE  /\ q \in Seq(S) /\ Elems(q) = Elems(s) \union {x}
         /\ x \notin Elems(s) /\ Distinct(s) => Distinct(q)
<1> DEFINE a == SubSeq(s, 1, k - 1)
           b == SubSeq(s, k, Len(s))
           t == <<x>>
<1>1. /\ a \in Seq(S) /\ Len(a) = k - 1 /\ \A i \in 1 .. k - 1 : a[i] = s[i]
  BY SubSeqProperties
<1>2. /\ b \in Seq(S) /\ Len(b) = Len(s) - k + 1
      /\ \A i \in 1 .. Len(s) - k + 1 : b[i] = s[k + i - 1]
  BY SubSeqProperties
<1>3. q = a \o t \o b
  BY DEF Inserted
<1>4. t \in Seq(S) /\ Len(t) = 1 /\ t[1] = x
  OBVIOUS
<1> HIDE DEF a, b, t
<1>5. PICK c : c = a \o t
  OBVIOUS
<1>6. /\ c \in Seq(S) /\ Len(c) = k
      /\ \A i \in 1 .. k : c[i] = IF i <= k - 1 THEN a[i] ELSE t[i - (k - 1)]
  <2>1. /\ a \o t \in Seq(S) /\ Len(a \o t) = Len(a) + Len(t)
        /\ \A i \in 1 .. Len(a) + Len(t) :
              (a \o t)[i] = IF i <= Len(a) THEN a[i] ELSE t[i - Len(a)]
    BY <1>1, <1>4, ConcatProperties
  <2>2. Len(a) + Len(t) = k
    BY <1>1, <1>4
  <2>3. QED
    BY <1>1, <1>5, <2>1, <2>2
<1>7. /\ q \in Seq(S) /\ Len(q) = Len(s) + 1
      /\ \A i \in 1 .. Len(s) + 1 : q[i] = IF i <= k THEN c[i] ELSE b[i - k]
  <2>1. /\ c \o b \in Seq(S) /\ Len(c \o b) = Len(c) + Len(b)
        /\ \A i \in 1 .. Len(c) + Len(b) :
              (c \o b)[i] = IF i <= Len(c) THEN c[i] ELSE b[i - Len(c)]
    BY <1>2, <1>6, ConcatProperties
  <2>2. Len(c) + Len(b) = Len(s) + 1
    BY <1>2, <1>6
  <2>3. QED
    BY <1>3, <1>5, <1>6, <2>1, <2>2
<1>8. \A i \in 1 .. k - 1 : q[i] = s[i]
  <2> SUFFICES ASSUME NEW i \in 1 .. k - 1 PROVE q[i] = s[i]
    OBVIOUS
  <2>1. i \in 1 .. k /\ i \in 1 .. Len(s) + 1 /\ i <= k - 1 /\ i <= k
    OBVIOUS
  <2>2. q[i] = c[i] /\ c[i] = a[i]
    BY <1>6, <1>7, <2>1
  <2>3. QED
    BY <1>1, <2>2
<1>9. q[k] = x
  <2>1. k \in 1 .. k /\ k \in 1 .. Len(s) + 1 /\ ~(k <= k - 1) /\ k <= k /\ k - (k - 1) = 1
    OBVIOUS
  <2>2. q[k] = c[k] /\ c[k] = t[1]
    BY <1>6, <1>7, <2>1
  <2>3. QED
    BY <1>4, <2>2
<1>10. \A i \in k .. Len(s) : q[i + 1] = s[i]
  <2> SUFFICES ASSUME NEW i \in k .. Len(s) PROVE q[i + 1] = s[i]
    OBVIOUS
  <2>1. i + 1 \in 1 .. Len(s) + 1 /\ ~(i + 1 <= k) /\ (i + 1) - k \in 1 .. Len(s) - k + 1
        /\ k + ((i + 1) - k) - 1 = i
    OBVIOUS
  <2>2. q[i + 1] = b[(i + 1) - k]
    BY <1>7, <2>1
  <2>3. QED
    BY <1>2, <2>1, <2>2
<1>11. DOMAIN s = 1 .. Len(s) /\ DOMAIN q = 1 .. Len(s) + 1
  BY <1>7
<1>12. \A i \in DOMAIN s : \E j \in DOMAIN q : q[j] = s[i]
  <2> SUFFICES ASSUME NEW i \in DOMAIN s PROVE \E j \in DOMAIN q : q[j] = s[i]
    OBVIOUS
  <2>1. CASE i \in 1 .. k - 1
    BY <1>8, <1>11, <2>1
  <2>2. CASE i \in k .. Len(s)
    BY <1>10, <1>11, <2>2
  <2>3. QED
    BY <1>11, <2>1, <2>2
<1>13. \A j \in DOMAIN q : \/ j < k /\ j \in DOMAIN s /\ q[j] = s[j]
                           \/ j = k /\ q[j] = x
                           \/ k < j /\ j - 1 \in DOMAIN s /\ q[j] = s[j - 1]
  <2> SUFFICES ASSUME NEW j \in DOMAIN q
               PROVE  \/ j < k /\ j \in DOMAIN s /\ q[j] = s[j]
                      \/ j = k /\ q[j] = x
                      \/ k < j /\ j - 1 \in DOMAIN s /\ q[j] = s[j - 1]
    OBVIOUS
  <2>1. CASE j < k
    BY <1>8, <1>11, <2>1
  <2>2. CASE j = k
    BY <1>9, <2>2
  <2>3. CASE k < j
    <3>1. j - 1 \in k .. Len(s) /\ (j - 1) + 1 = j
      BY <1>11, <2>3
    <3>2. QED
      BY <1>10, <1>11, <2>3, <3>1
  <2>4. QED
    BY <1>11, <2>1, <2>2, <2>3
<1>14. Elems(q) = Elems(s) \union {x}
  <2>1. k \in DOMAIN q
    BY <1>11
  <2>2. QED
    BY <1>9, <1>12, <1>13, <2>1 DEF Elems
<1>15. ASSUME x \notin Elems(s), Distinct(s) PROVE Distinct(q)
  <2> SUFFICES ASSUME NEW i \in DOMAIN q, NEW j \in DOMAIN q, q[i] = q[j] PROVE i = j
    BY DEF Distinct
  <2>1. \A m \in DOMAIN s : s[m] # x
    BY <1>15 DEF Elems
  <2>2. \A m, n \in DOMAIN s : s[m] = s[n] => m = n
    BY <1>15 DEF Distinct
  <2>3. i \in Int /\ j \in Int
    BY <1>11
  <2>4. QED
    BY <1>13, <2>1, <2>2, <2>3
<1>16. QED
  BY <1>7, <1>14, <1>15

LEMMA JunctionsCounted ==
  ASSUME ToolkitIsTyped
  PROVE  JunctionCount + 1 \in 1 .. Len(tk.nodes) + 1
<1> DEFINE n == Len(tk.nodes)
           D == {k \in DOMAIN tk.nodes : tk.nodes[k] \in IdSet(net.junctions)}
<1>1. DOMAIN tk.nodes = 1 .. n /\ n \in Nat
  BY ToolkitFields
<1>2. IsFiniteSet(1 .. n) /\ Cardinality(1 .. n) = n
  <2>1. IsFiniteSet(1 .. n) /\ Cardinality(1 .. n) = IF 1 > n THEN 0 ELSE n - 1 + 1
    BY <1>1, FS_Interval
  <2>2. QED
    BY <1>1, <2>1
<1>3. D \subseteq 1 .. n
  BY <1>1
<1> HIDE DEF D
<1>4. IsFiniteSet(D) /\ Cardinality(D) <= n
  BY <1>2, <1>3, FS_Subset
<1>5. Cardinality(D) \in Nat
  BY <1>4, FS_CardinalityType
<1>6. JunctionCount = Cardinality(D)
  BY DEF JunctionCount, D
<1>7. QED
  BY <1>1, <1>4, <1>5, <1>6

LEMMA AddJunctionStep ==
  ASSUME IInv, AddJunction
  PROVE  IInv'
<1>1. PICK x : x = Item
  OBVIOUS
<1>2. Turn("AddJunction") /\ constantId' = constantId
  BY DEF AddJunction
<1> DEFINE refs == {<<x.id, "demand", k, PatternOf(x.demands[k])>> : k \in DOMAIN x.demands}
           late == \E d \in Elems(x.demands) : PatternOf(d) \notin {NoRef} \union Elems(tk.patterns)
<1>3. PICK ending \in {"refused", "half", "done"} :
        /\ ending = "done" => ~late
        /\ tk' = [tk EXCEPT !.nodes = IF ending = "refused" THEN tk.nodes
                                      ELSE Inserted(tk.nodes, JunctionCount + 1, x.id)]
        /\ Finish(x.id, ending, JunctionCount + 1, refs)
  BY <1>1 DEF AddJunction, Finish, Ends, Due
<1> HIDE DEF refs, late
<1>4. PICK q : q = IF ending = "refused" THEN tk.nodes
                   ELSE Inserted(tk.nodes, JunctionCount + 1, x.id)
  OBVIOUS
<1>5. /\ ToolkitIsTyped /\ net' = net /\ x.id \in Elems(Nodes(net))
  BY <1>1, <1>2, <1>3, ItsItem DEF Finish
<1>6. /\ q \in Seq(Elems(Nodes(net))) /\ Elems(q) \subseteq Elems(tk.nodes) \union {x.id}
      /\ x.id \notin Elems(tk.nodes) /\ Distinct(tk.nodes) => Distinct(q)
  <2>1. tk.nodes \in Seq(Elems(Nodes(net)))
    BY <1>5, ToolkitFields
  <2>2. CASE ending = "refused"
    BY <1>4, <2>1, <2>2
  <2>3. CASE ending # "refused"
    <3>1. PICK k \in 1 .. Len(tk.nodes) + 1 : k = JunctionCount + 1
      BY <1>5, JunctionsCounted
    <3>2. q = Inserted(tk.nodes, k, x.id)
      BY <1>4, <2>3, <3>1
    <3>3. QED
      BY <1>5, <2>1, <3>2, InsertedInto
  <2>4. QED
    BY <2>2, <2>3
<1>7. /\ ToolkitIsTyped' /\ tk'.nodes = q
      /\ UNCHANGED <<tk.links, tk.patterns, tk.curves, tk.controls, tk.default, tk.energy>>
  BY <1>3, <1>4, <1>5, <1>6, ToolkitRetyped
<1>8. WantedBy([op |-> "AddJunction", item |-> x]) = {}
  BY DEF WantedBy
<1>9. \A u \in refs : u[2] = "demand"
  BY DEF refs
<1>10. Extends(tk.patterns, tk'.patterns) /\ Extends(tk.curves, tk'.curves)
       /\ Extends(tk.controls, tk'.controls)
  BY <1>7, ExtendsItself
<1>11. PICK op : op = "AddJunction"
  OBVIOUS
<1>12. PICK index : index = JunctionCount + 1
  OBVIOUS
<1>13. Finish(x.id, ending, index, refs)
  BY <1>3, <1>12 DEF Finish
<1>14. op \in AddOps /\ Turn(op) /\ op \in AddNode /\ op \notin AddLink
       /\ op \notin {"AddPattern", "AddCurve", "AddControl"}
       /\ WantedBy([op |-> op, item |-> x]) = {}
  BY <1>2, <1>8, <1>11 DEF AddOps, AddNode, AddLink
<1>15. DemandsUsed'
  <2>1. /\ Left = {Head(todo)} \union Left' /\ Head(todo) = [op |-> op, item |-> x]
        /\ diags' = <<>> => ending = "done" /\ diags = <<>>
        /\ uses' = IF ending = "done" THEN uses \union refs ELSE uses
    BY <1>1, <1>13, <1>14, AddFinished
  <2> SUFFICES ASSUME diags' = <<>>, NEW o \in AllTasks(net) \ Left', o.op = "AddJunction",
                      NEW k \in DOMAIN o.item.demands
               PROVE  /\ DemandOf(o.item, k)' \in uses'
                      /\ PatternOf(o.item.demands[k])' \in {NoRef} \union Elems(tk'.patterns)
    BY <1>5 DEF DemandsUsed
  <2>2. \A d : PatternOf(d)' = PatternOf(d)
    BY <1>2 DEF PatternOf
  <2>3. DemandOf(o.item, k)' = DemandOf(o.item, k)
    BY <2>2 DEF DemandOf
  <2>4. tk'.patterns = tk.patterns /\ ending = "done" /\ diags = <<>> /\ uses' = uses \union refs
    BY <1>7, <2>1
  <2>5. CASE o \notin Left
    <3>1. /\ DemandOf(o.item, k) \in uses
          /\ PatternOf(o.item.demands[k]) \in {NoRef} \union Elems(tk.patterns)
      BY <2>4, <2>5 DEF IInv, DemandsUsed
    <3>2. QED
      BY <2>2, <2>3, <2>4, <3>1
  <2>6. CASE o \in Left
    <3>1. o.item = x
      BY <2>1, <2>6
    <3>2. DemandOf(x, k) \in refs
      BY <3>1 DEF DemandOf, refs
    <3>3. ~late
      BY <1>3, <2>4
    <3>4. x.demands[k] \in Elems(x.demands)
      BY <3>1 DEF Elems
    <3>5. PatternOf(x.demands[k]) \in {NoRef} \union Elems(tk.patterns)
      BY <3>3, <3>4 DEF late
    <3>6. QED
      BY <2>2, <2>3, <2>4, <3>1, <3>2, <3>5
  <2>7. QED
    BY <2>5, <2>6
<1>16. QED
  BY <1>1, <1>2, <1>6, <1>7, <1>9, <1>10, <1>13, <1>14, <1>15, AddKeeps

-----------------------------------------------------------------------------
(* What the toolkit lacks is a recursive function, unfolded by induction.  *)

LEMMA SetInduction ==
  ASSUME NEW T, 0 \in T, \A n \in Nat : n \in T => n + 1 \in T
  PROVE  \A n \in Nat : n \in T
<1> DEFINE R == OpToRel(<, Nat)
           B == {n \in Nat : n \notin T}
<1>1. IsWellFoundedOn(R, Nat)
  BY NatLessThanWellFounded
<1>2. \A x, y \in Nat : <<x, y>> \in R <=> x < y
  BY DEF OpToRel
<1> HIDE DEF R
<1>3. SUFFICES ASSUME B # {} PROVE FALSE
  OBVIOUS
<1>4. B \subseteq Nat
  OBVIOUS
<1> HIDE DEF B
<1>5. PICK x \in B : \A y \in B : ~ (<<y, x>> \in R)
  BY <1>1, <1>3, <1>4, WFMin
<1>6. x \in Nat /\ x \notin T /\ x # 0
  BY <1>5 DEF B
<1>7. x - 1 \in Nat /\ x - 1 < x
  BY <1>6
<1>8. x - 1 \in T
  BY <1>2, <1>5, <1>6, <1>7 DEF B
<1>9. QED
  BY <1>6, <1>7, <1>8

IsAmong(f, ids, s, n) ==
    f = [k \in 0 .. n |->
            IF k = 0 THEN <<>>
            ELSE IF ids[k] \in Elems(s) THEN f[k - 1] ELSE Append(f[k - 1], ids[k])]

LEMMA AmongExists ==
  ASSUME NEW ids, NEW s
  PROVE  \A n \in Nat : \E f : IsAmong(f, ids, s, n)
<1> DEFINE T == {n \in Nat : \E f : IsAmong(f, ids, s, n)}
<1>1. 0 \in T
  <2>1. IsAmong([k \in 0 .. 0 |-> <<>>], ids, s, 0)
    BY DEF IsAmong
  <2>2. QED
    BY <2>1
<1>2. \A n \in Nat : n \in T => n + 1 \in T
  <2> SUFFICES ASSUME NEW n \in Nat, NEW f, IsAmong(f, ids, s, n)
               PROVE  \E g : IsAmong(g, ids, s, n + 1)
    OBVIOUS
  <2> DEFINE e == n + 1
             last == IF ids[e] \in Elems(s) THEN f[e - 1] ELSE Append(f[e - 1], ids[e])
             g == [k \in 0 .. n + 1 |-> IF k = e THEN last ELSE f[k]]
  <2>1. \A k \in 0 .. n : f[k] = IF k = 0 THEN <<>> ELSE IF ids[k] \in Elems(s) THEN f[k - 1]
                                 ELSE Append(f[k - 1], ids[k])
    BY DEF IsAmong
  <2>2. \A k \in 0 .. n + 1 : g[k] = IF k = 0 THEN <<>> ELSE IF ids[k] \in Elems(s) THEN g[k - 1]
                                 ELSE Append(g[k - 1], ids[k])
    <3> SUFFICES ASSUME NEW k \in 0 .. n + 1
                 PROVE  g[k] = IF k = 0 THEN <<>> ELSE IF ids[k] \in Elems(s) THEN g[k - 1]
                               ELSE Append(g[k - 1], ids[k])
      OBVIOUS
    <3>1. CASE k = e
      <4>1. g[k] = last /\ g[k - 1] = f[e - 1] /\ k # 0
        BY <3>1
      <4>2. QED
        BY <3>1, <4>1
    <3>2. CASE k # e
      <4>1. k \in 0 .. n /\ g[k] = f[k] /\ (k # 0 => g[k - 1] = f[k - 1])
        BY <3>2
      <4>2. QED
        BY <2>1, <4>1
    <3>3. QED
      BY <3>1, <3>2
  <2>3. IsAmong(g, ids, s, n + 1)
    BY <2>2 DEF IsAmong
  <2>4. QED
    BY <2>3
<1> HIDE DEF T
<1>3. \A n \in Nat : n \in T
  BY <1>1, <1>2, SetInduction
<1>4. QED
  BY <1>3 DEF T

Lacking(ids, s, k) == {ids[i] : i \in {j \in 1 .. k : ids[j] \notin Elems(s)}}

(* What is missing: of a list, in a list.                                  *)
LEMMA MissingIds ==
  ASSUME NEW ids, NEW s, IsList(ids)
  PROVE  Missing(ids, s) \in Seq(Elems(ids)) /\ Elems(Missing(ids, s)) = Elems(ids) \ Elems(s)
<1> DEFINE n == Len(ids)
           f == CHOOSE g : IsAmong(g, ids, s, n)
           S == Elems(ids)
           T == {k \in Nat : k <= n => f[k] \in Seq(S) /\ Elems(f[k]) = Lacking(ids, s, k)}
<1>1. n \in Nat /\ DOMAIN ids = 1 .. n /\ \A k \in 1 .. n : ids[k] \in S
  BY ListIsSeq
<1>2. IsAmong(f, ids, s, n)
  BY <1>1, AmongExists
<1>3. Missing(ids, s) = f[n]
  BY DEF Missing, IsAmong
<1> HIDE DEF f, S, n
<1>4. \A k \in 0 .. n : f[k] = IF k = 0 THEN <<>> ELSE IF ids[k] \in Elems(s) THEN f[k - 1]
                               ELSE Append(f[k - 1], ids[k])
  BY <1>2 DEF IsAmong
<1>5. 0 \in T
  <2>1. f[0] = <<>>
    <3>1. 0 \in 0 .. n
      BY <1>1
    <3> HIDE DEF T
    <3>2. QED
      BY <1>4, <3>1
  <2>2. Lacking(ids, s, 0) = {}
    BY DEF Lacking
  <2>3. f[0] \in Seq(S) /\ Elems(f[0]) = Lacking(ids, s, 0)
    <3> HIDE DEF T
    <3>1. <<>> \in Seq(S)
      OBVIOUS
    <3>2. Elems(f[0]) = {}
      BY <2>1, EmptyList, Zenon
    <3>3. QED
      BY <2>1, <2>2, <3>1, <3>2, Zenon
  <2>4. QED
    BY <2>3
<1>6. \A k \in Nat : k \in T => k + 1 \in T
  <2> SUFFICES ASSUME NEW k \in Nat, f[k] \in Seq(S), Elems(f[k]) = Lacking(ids, s, k), k + 1 <= n
               PROVE  f[k + 1] \in Seq(S) /\ Elems(f[k + 1]) = Lacking(ids, s, k + 1)
    BY <1>1
  <2>1. k + 1 \in 0 .. n /\ k + 1 \in 1 .. n /\ (k + 1) - 1 = k /\ k + 1 # 0
    BY <1>1
  <2>2. f[k + 1] = IF ids[k + 1] \in Elems(s) THEN f[k] ELSE Append(f[k], ids[k + 1])
    BY <1>4, <2>1
  <2>3. Lacking(ids, s, k + 1) = Lacking(ids, s, k) \union (IF ids[k + 1] \in Elems(s) THEN {} ELSE {ids[k + 1]})
    BY DEF Lacking
  <2>4. CASE ids[k + 1] \in Elems(s)
    BY <2>2, <2>3, <2>4
  <2>5. CASE ids[k + 1] \notin Elems(s)
    <3>1. ids[k + 1] \in S
      BY <1>1, <2>1
    <3>2. /\ Append(f[k], ids[k + 1]) \in Seq(S)
          /\ Elems(Append(f[k], ids[k + 1])) = Elems(f[k]) \union {ids[k + 1]}
      BY <3>1, AppendToList
    <3>3. QED
      BY <2>2, <2>3, <2>5, <3>2
  <2>6. QED
    BY <2>4, <2>5
<1> HIDE DEF T
<1>7. n \in T
  BY <1>1, <1>5, <1>6, SetInduction
<1>8. f[n] \in Seq(S) /\ Elems(f[n]) = Lacking(ids, s, n)
  BY <1>1, <1>7 DEF T
<1>9. Lacking(ids, s, n) = S \ Elems(s)
  BY <1>1 DEF S, Elems, Lacking
<1>10. QED
  BY <1>3, <1>8, <1>9 DEF S

-----------------------------------------------------------------------------
(* The operations that add no entity.                                      *)

Others == {"ConstantPattern", "DefaultPattern", "EnergyPattern", "RefreshNodes",
           "RefreshLinks", "SetMetadata"}

LEMMA OtherFinished ==
  ASSUME IInv, NEW op \in Others, Turn(op), net' = net, todo' = Tail(todo), uses' = uses,
         NEW failed \in Seq(Entities(net) \union {FreeId}), Collect(failed),
         built' \subseteq built, built \subseteq built' \union Elems(failed),
         tk'.nodes = tk.nodes, tk'.controls = tk.controls
  PROVE  /\ Network' /\ Scheduled' /\ FailuresCollected' /\ AllSettled' /\ UsesWanted' /\ NoneTwice'
         /\ Left = {Head(todo)} \union Left' /\ Head(todo).op = op
         /\ diags' = <<>> => diags = <<>> /\ failed = <<>>
<1>1. todo # <<>> /\ Head(todo) \in AllTasks(net) /\ Head(todo).op = op
  BY Turned
<1>2. Network' /\ Scheduled' /\ Left = {Head(todo)} \union Left'
  BY <1>1, Advanced
<1>3. /\ FailuresCollected' /\ Elems(diags') = Elems(diags) \union Elems(failed)
      /\ diags' = <<>> => diags = <<>> /\ failed = <<>>
  BY Collected DEF IInv
<1>4. op \notin AddOps
  BY DEF Others, AddOps, AddNode
<1>5. AllSettled'
  <2> SUFFICES ASSUME NEW o \in AllTasks(net) \ Left', o.op \in AddOps
               PROVE  o.item.id \in built' \union Elems(diags')
    BY DEF AllSettled
  <2>1. o \notin Left
    BY <1>1, <1>2, <1>4
  <2>2. o.item.id \in built \union Elems(diags)
    BY <2>1 DEF IInv, AllSettled
  <2>3. QED
    BY <1>3, <2>2
<1>6. UsesWanted'
  <2>1. UsesWanted
    BY DEF IInv
  <2>2. PICK h : h = Head(todo)
    OBVIOUS
  <2>3. WantedBy(h) = {}
    BY <1>1, <2>2 DEF WantedBy, Others
  <2>4. \A o \in AllTasks(net) \ Left' : o = h \/ o \in AllTasks(net) \ Left
    BY <1>2, <2>2
  <2>5. QED
    BY <1>3, <2>1, <2>3, <2>4 DEF UsesWanted
<1>7. NoneTwice'
  <2>1. NoneTwice /\ Left' \subseteq Left
    BY <1>2 DEF IInv
  <2>2. QED
    BY <2>1 DEF NoneTwice
<1>8. QED
  BY <1>1, <1>2, <1>3, <1>5, <1>6, <1>7

(* The registry and the toolkit's objects stay, or get more.               *)
LEMMA RegistryStays ==
  ASSUME IInv, NEW op, op \notin {"RefreshNodes", "RefreshLinks"}, Head(todo).op = op,
         Left = {Head(todo)} \union Left', net' = net, reg' = reg, built' \subseteq built,
         diags' = <<>> => diags = <<>>,
         tk'.nodes = tk.nodes, tk'.links = tk.links, tk'.curves = tk.curves,
         tk'.controls = tk.controls, Extends(tk.patterns, tk'.patterns)
  PROVE  EntitiesOnly' /\ IndicesKept'
<1>1. EntitiesOnly /\ IndicesKept
  BY DEF IInv
<1>2. EntitiesOnly'
  BY <1>1 DEF EntitiesOnly
<1>3. Kept(reg, tk'.patterns, IdSet(net.patterns))
  BY <1>1 DEF IndicesKept, Kept, Extends
<1>4. /\ Task("RefreshNodes") \notin Left' => Task("RefreshNodes") \notin Left
      /\ Task("RefreshLinks") \notin Left' => Task("RefreshLinks") \notin Left
  <2>1. Task("RefreshNodes").op = "RefreshNodes" /\ Task("RefreshLinks").op = "RefreshLinks"
    BY DEF Task
  <2>2. Task("RefreshNodes") # Head(todo) /\ Task("RefreshLinks") # Head(todo)
    BY <2>1
  <2>3. QED
    BY <2>2
<1>5. QED
  BY <1>1, <1>2, <1>3, <1>4 DEF IndicesKept

LEMMA OneFailed ==
  ASSUME NEW S, NEW e \in S
  PROVE  <<e>> \in Seq(S) /\ <<e>> # <<>> /\ Elems(<<e>>) = {e}
<1>1. PICK q : q = <<e>>
  OBVIOUS
<1>2. q \in Seq(S) /\ DOMAIN q = 1 .. 1 /\ q[1] = e /\ q # <<>>
  BY <1>1
<1>3. Elems(q) = {e}
  BY <1>2 DEF Elems
<1>4. QED
  BY <1>1, <1>2, <1>3

LEMMA SetMetadataStep ==
  ASSUME IInv, SetMetadata
  PROVE  IInv'
<1>1. PICK x : x = Item
  OBVIOUS
<1>2. Turn("SetMetadata") /\ todo' = Tail(todo) /\ UNCHANGED <<net, tk, uses, reg, constantId>>
  BY DEF SetMetadata
<1>3. PICK failed \in BOOLEAN :
        /\ failed => Registered(x)
        /\ built' = IF failed THEN built \ {x} ELSE built
        /\ Collect(IF failed THEN <<x>> ELSE <<>>)
  BY <1>1 DEF SetMetadata, Collect
<1>4. PICK f : f = IF failed THEN <<x>> ELSE <<>>
  OBVIOUS
<1>5. Collect(f)
  BY <1>3, <1>4
<1> DEFINE E == Entities(net) \union {FreeId}
<1>6. f \in Seq(E) /\ (failed => Elems(f) = {x})
  <2>1. CASE failed
    <3>1. x \in E
      BY <1>3, <2>1 DEF IInv, EntitiesOnly, Registered
    <3> HIDE DEF E
    <3>2. QED
      BY <1>4, <2>1, <3>1, OneFailed
  <2>2. CASE ~failed
    BY <1>4, <2>2
  <2>3. QED
    BY <2>1, <2>2
<1>7. built' \subseteq built /\ built \subseteq built' \union Elems(f)
  BY <1>3, <1>6
<1>8. PICK op \in Others : op = "SetMetadata"
  BY DEF Others
<1>9. Turn(op)
  BY <1>2, <1>8
<1>10. /\ Network' /\ Scheduled' /\ FailuresCollected' /\ AllSettled' /\ UsesWanted' /\ NoneTwice'
       /\ Left = {Head(todo)} \union Left' /\ Head(todo).op = op
       /\ diags' = <<>> => diags = <<>> /\ f = <<>>
  BY <1>2, <1>5, <1>6, <1>7, <1>9, OtherFinished
<1>11. EntitiesOnly' /\ IndicesKept'
  BY <1>2, <1>7, <1>8, <1>10, ExtendsItself, RegistryStays
<1>12. OptionsSet' /\ ConstantNamed' /\ DemandsUsed'
  BY <1>2, <1>8, <1>10, OthersKept
<1>13. ToolkitIsTyped'
  BY <1>2 DEF IInv, ToolkitIsTyped, FreeId
<1>14. QED
  BY <1>10, <1>11, <1>12, <1>13 DEF IInv

-----------------------------------------------------------------------------
LEMMA KindsAreEntities ==
  ASSUME NEW n \in Networks
  PROVE  /\ IdSet(n.patterns) \subseteq Entities(n)
         /\ Elems(Nodes(n)) \subseteq Entities(n) /\ Elems(Links(n)) \subseteq Entities(n)
<1>1. /\ Kinds(n).patterns = IdSet(n.patterns) /\ Kinds(n).nodes = Elems(Nodes(n))
      /\ Kinds(n).links = Elems(Links(n))
      /\ {"patterns", "nodes", "links"} \subseteq DOMAIN Kinds(n)
  BY DEF Kinds
<1>2. QED
  BY <1>1, EntitiesByKind

LEMMA NothingFailed == ASSUME FailuresCollected, diags' = diags, first' = first PROVE Collect(<<>>)
<1>1. diags \in Seq(Entities(net) \union {FreeId})
  BY DEF FailuresCollected
<1> DEFINE E == Entities(net) \union {FreeId}
<1> HIDE DEF E
<1>2. diags \o <<>> = diags
  <2>1. diags \in Seq(E)
    BY <1>1 DEF E
  <2>2. QED
    BY <2>1
<1>3. QED
  BY <1>2 DEF Collect

LEMMA ConstantPatternStep ==
  ASSUME IInv, ConstantPattern
  PROVE  IInv'
<1>1. Turn("ConstantPattern") /\ todo' = Tail(todo) /\ UNCHANGED <<net, uses, reg, built>>
  BY DEF ConstantPattern
<1>2. PICK op \in Others : op = "ConstantPattern"
  BY DEF Others
<1>3. Turn(op)
  BY <1>1, <1>2
<1> DEFINE E == Entities(net) \union {FreeId}
<1>4. FreeId' = FreeId /\ NeedsConstant' = NeedsConstant
  BY <1>1 DEF FreeId, NeedsConstant
<1>5. ASSUME NEW f \in Seq(E), Collect(f), tk'.nodes = tk.nodes, tk'.controls = tk.controls,
             tk'.links = tk.links, tk'.curves = tk.curves, Extends(tk.patterns, tk'.patterns),
             tk'.default = tk.default, tk'.energy = tk.energy, ToolkitIsTyped',
             constantId' \in {NoRef, FreeId}, ~NeedsConstant => constantId' = NoRef,
             NeedsConstant /\ f = <<>> => constantId' = FreeId /\ FreeId \in Elems(tk'.patterns)
      PROVE  IInv'
  <2>1. built' \subseteq built /\ built \subseteq built' \union Elems(f)
    BY <1>1
  <2>2. /\ Network' /\ Scheduled' /\ FailuresCollected' /\ AllSettled' /\ UsesWanted' /\ NoneTwice'
        /\ Left = {Head(todo)} \union Left' /\ Head(todo).op = op
        /\ diags' = <<>> => diags = <<>> /\ f = <<>>
    BY <1>1, <1>3, <1>5, <2>1, OtherFinished
  <2>3. EntitiesOnly' /\ IndicesKept'
    BY <1>1, <1>2, <1>5, <2>1, <2>2, RegistryStays
  <2>4. OptionsSet'
    <3>1. \A a : Task(a).op = a
      BY DEF Task
    <3>2. /\ Task("DefaultPattern") \notin Left' => Task("DefaultPattern") \notin Left
          /\ Task("EnergyPattern") \notin Left' => Task("EnergyPattern") \notin Left
      BY <1>2, <2>2, <3>1
    <3>3. QED
      BY <1>1, <1>5, <2>2, <3>2 DEF IInv, OptionsSet
  <2>5. ConstantNamed'
    BY <1>4, <1>5, <2>2 DEF ConstantNamed
  <2>6. DemandsUsed'
    <3> SUFFICES ASSUME NEW o \in AllTasks(net) \ Left', o.op = "AddJunction" PROVE FALSE
      BY <1>1 DEF DemandsUsed
    <3>1. Rank[op] < Rank[o.op]
      BY <1>2, Ranks
    <3>2. o \in Left
      BY <1>3, <3>1, Turned
    <3>3. o # Head(todo)
      BY <1>2, <2>2
    <3>4. QED
      BY <2>2, <3>2, <3>3
  <2>7. QED
    BY <1>5, <2>2, <2>3, <2>4, <2>5, <2>6 DEF IInv
<1>6. CASE ~NeedsConstant
  <2>1. UNCHANGED <<tk, constantId, first, diags>>
    BY <1>6 DEF ConstantPattern
  <2>2. <<>> \in Seq(E)
    OBVIOUS
  <2> HIDE DEF E
  <2>3. Collect(<<>>)
    BY <2>1, NothingFailed DEF IInv
  <2>4. ToolkitIsTyped'
    BY <1>1, <1>4, <2>1 DEF IInv, ToolkitIsTyped
  <2>5. constantId' = NoRef
    BY <1>6, <2>1 DEF IInv, ConstantNamed
  <2>6. PICK f : f = <<>>
    OBVIOUS
  <2>7. f \in Seq(E) /\ Collect(f)
    BY <2>2, <2>3, <2>6
  <2>8. QED
    BY <1>5, <1>6, <2>1, <2>4, <2>5, <2>7, ExtendsItself
<1>7. CASE NeedsConstant
  <2>1. PICK ending \in {"refused", "half", "done"} :
          /\ tk' = [tk EXCEPT !.patterns = Added(tk.patterns, FreeId, ending)]
          /\ constantId' = IF ending = "done" THEN FreeId ELSE constantId
          /\ Collect(Failed(FreeId, ending))
    BY <1>7 DEF ConstantPattern, Collect
  <2>2. PICK q : q = Added(tk.patterns, FreeId, ending)
    OBVIOUS
  <2>3. ToolkitIsTyped
    BY DEF IInv
  <2>4. /\ q \in Seq(PatternIds) /\ Extends(tk.patterns, q)
        /\ ending = "done" => FreeId \in Elems(q)
    <3>1. tk.patterns \in Seq(PatternIds) /\ FreeId \in PatternIds
      BY <2>3, ToolkitFields DEF PatternIds
    <3>2. /\ q \in Seq(PatternIds) /\ Extends(tk.patterns, q)
          /\ ending # "refused" => Len(q) \in DOMAIN q /\ q[Len(q)] = FreeId
      BY <2>2, <3>1, AddedTo
    <3>3. QED
      BY <3>2 DEF Elems
  <2>5. /\ ToolkitIsTyped' /\ tk'.patterns = q
        /\ UNCHANGED <<tk.nodes, tk.links, tk.curves, tk.controls, tk.default, tk.energy>>
    BY <1>1, <2>1, <2>2, <2>3, <2>4, ToolkitRetyped
  <2>6. PICK f : f = Failed(FreeId, ending)
    OBVIOUS
  <2>7. f \in Seq(E) /\ (f = <<>> => ending = "done")
    <3>1. FreeId \in E
      OBVIOUS
    <3> HIDE DEF E
    <3>2. <<FreeId>> \in Seq(E) /\ <<FreeId>> # <<>> /\ <<>> \in Seq(E)
      BY <3>1, OneFailed
    <3>3. QED
      BY <2>6, <3>2 DEF Failed
  <2>8. Collect(f)
    BY <2>1, <2>6
  <2>9. constantId' \in {NoRef, FreeId} /\ (f = <<>> => constantId' = FreeId)
    BY <2>1, <2>7 DEF IInv, ConstantNamed
  <2>10. QED
    BY <1>5, <1>7, <2>4, <2>5, <2>7, <2>8, <2>9
<1>8. QED
  BY <1>6, <1>7

LEMMA OptionStep ==
  ASSUME IInv, NEW op, NEW field, NEW pattern, NEW ending \in {"refused", "done"},
         \/ op = "DefaultPattern" /\ field = "default" /\ pattern = net.default
         \/ op = "EnergyPattern" /\ field = "energy" /\ pattern = net.energy,
         Turn(op), todo' = Tail(todo), UNCHANGED <<net, uses, reg, constantId, built>>,
         pattern = NoRef => ending = "done",
         pattern # NoRef /\ ending = "done" => Registered(pattern),
         tk' = IF ending = "done" /\ pattern # NoRef
                 THEN [tk EXCEPT ![field] = tk.patterns[reg[pattern]]] ELSE tk,
         Collect(Failed(pattern, ending))
  PROVE  IInv'
<1>1. op \in Others
  BY DEF Others
<1>2. ToolkitIsTyped /\ net \in Networks /\ ReferencesAreKnown(net) /\ OptionsSet
  BY DEF IInv, Network
<1>3. pattern \in IdSet(net.patterns) \union {NoRef}
  BY <1>2, KnownReferences
<1>4. tk' = IF ending = "done" /\ pattern # NoRef THEN [tk EXCEPT ![field] = pattern] ELSE tk
  <2> SUFFICES ASSUME ending = "done", pattern # NoRef PROVE tk.patterns[reg[pattern]] = pattern
    OBVIOUS
  <2>1. pattern \in IdSet(net.patterns) \intersect DOMAIN reg
    BY <1>3 DEF Registered
  <2>2. QED
    BY <2>1 DEF IInv, IndicesKept, Kept
<1>5. PICK f : f = Failed(pattern, ending)
  OBVIOUS
<1> DEFINE E == Entities(net) \union {FreeId}
<1>6. f \in Seq(E) /\ (f = <<>> => ending = "done")
  <2>1. CASE ending = "done"
    BY <1>5, <2>1 DEF Failed
  <2>2. CASE ending # "done"
    <3>1. pattern \in E
      BY <1>2, <1>3, <2>2, KindsAreEntities
    <3> HIDE DEF E
    <3>2. <<pattern>> \in Seq(E) /\ <<pattern>> # <<>>
      BY <3>1, OneFailed
    <3>3. QED
      BY <1>5, <2>2, <3>2 DEF Failed
  <2>3. QED
    BY <2>1, <2>2
<1>7. Collect(f)
  BY <1>5
<1>8. /\ tk'.nodes = tk.nodes /\ tk'.controls = tk.controls /\ tk'.links = tk.links
      /\ tk'.curves = tk.curves /\ tk'.patterns = tk.patterns
      /\ op = "DefaultPattern" => tk'.energy = tk.energy
      /\ op = "EnergyPattern" => tk'.default = tk.default
      /\ ending = "done" /\ op = "DefaultPattern" => tk'.default = net.default
      /\ ending = "done" /\ op = "EnergyPattern" => tk'.energy = net.energy
  BY <1>2, <1>4 DEF ToolkitIsTyped
<1>9. ToolkitIsTyped'
  <2>1. FreeId' = FreeId
    BY DEF FreeId
  <2>2. tk \in [nodes : Seq(Elems(Nodes(net))), links : Seq(Elems(Links(net))),
                patterns : Seq(PatternIds), curves : Seq(CurveIds),
                controls : Seq(IdSet(net.controls)), rules : Seq(RuleIds),
                default : {NoRef, net.default}, energy : {NoRef, net.energy}]
    BY <1>2 DEF ToolkitIsTyped, PatternIds, CurveIds, RuleIds
  <2>3. tk' \in [nodes : Seq(Elems(Nodes(net))), links : Seq(Elems(Links(net))),
                patterns : Seq(PatternIds), curves : Seq(CurveIds),
                controls : Seq(IdSet(net.controls)), rules : Seq(RuleIds),
                default : {NoRef, net.default}, energy : {NoRef, net.energy}]
    BY <1>4, <2>2
  <2>4. QED
    BY <2>1, <2>3 DEF ToolkitIsTyped, PatternIds, CurveIds, RuleIds
<1>10. /\ Network' /\ Scheduled' /\ FailuresCollected' /\ AllSettled' /\ UsesWanted' /\ NoneTwice'
       /\ Left = {Head(todo)} \union Left' /\ Head(todo).op = op
       /\ diags' = <<>> => diags = <<>> /\ f = <<>>
  BY <1>1, <1>6, <1>7, <1>8, OtherFinished
<1>11. EntitiesOnly' /\ IndicesKept'
  <2>1. Extends(tk.patterns, tk'.patterns)
    BY <1>8, ExtendsItself
  <2>2. QED
    BY <1>8, <1>10, <2>1, RegistryStays
<1>12. ConstantNamed' /\ DemandsUsed'
  BY <1>8, <1>10, OthersKept
<1>13. OptionsSet'
  <2>1. \A a : Task(a).op = a
    BY DEF Task
  <2>2. /\ op = "EnergyPattern" /\ Task("DefaultPattern") \notin Left'
             => Task("DefaultPattern") \notin Left
        /\ op = "DefaultPattern" /\ Task("EnergyPattern") \notin Left'
             => Task("EnergyPattern") \notin Left
    BY <1>10, <2>1
  <2>3. QED
    BY <1>2, <1>6, <1>8, <1>10, <2>2 DEF OptionsSet
<1>14. QED
  BY <1>9, <1>10, <1>11, <1>12, <1>13 DEF IInv

LEMMA DefaultPatternStep ==
  ASSUME IInv, DefaultPattern
  PROVE  IInv'
<1>1. PICK pattern : pattern = net.default
  OBVIOUS
<1>2. PICK ending \in {"refused", "done"} :
        /\ pattern = NoRef => ending = "done"
        /\ pattern # NoRef /\ ending = "done" => Registered(pattern)
        /\ tk' = IF ending = "done" /\ pattern # NoRef
                   THEN [tk EXCEPT !["default"] = tk.patterns[reg[pattern]]] ELSE tk
        /\ Collect(Failed(pattern, ending))
  BY <1>1 DEF DefaultPattern, Option, Ends, Due, Collect
<1>3. /\ Turn("DefaultPattern") /\ todo' = Tail(todo)
      /\ UNCHANGED <<net, uses, reg, constantId, built>>
  BY DEF DefaultPattern, Option
<1>4. QED
  BY <1>1, <1>2, <1>3, OptionStep

LEMMA EnergyPatternStep ==
  ASSUME IInv, EnergyPattern
  PROVE  IInv'
<1>1. PICK pattern : pattern = net.energy
  OBVIOUS
<1>2. PICK ending \in {"refused", "done"} :
        /\ pattern = NoRef => ending = "done"
        /\ pattern # NoRef /\ ending = "done" => Registered(pattern)
        /\ tk' = IF ending = "done" /\ pattern # NoRef
                   THEN [tk EXCEPT !["energy"] = tk.patterns[reg[pattern]]] ELSE tk
        /\ Collect(Failed(pattern, ending))
  BY <1>1 DEF EnergyPattern, Option, Ends, Due, Collect
<1>3. /\ Turn("EnergyPattern") /\ todo' = Tail(todo)
      /\ UNCHANGED <<net, uses, reg, constantId, built>>
  BY DEF EnergyPattern, Option
<1>4. QED
  BY <1>1, <1>2, <1>3, OptionStep

-----------------------------------------------------------------------------
LEMMA IndexFound ==
  ASSUME NEW s, NEW e \in Elems(s)
  PROVE  IndexOf(s, e) \in DOMAIN s /\ s[IndexOf(s, e)] = e
BY DEF IndexOf, Elems

ReadBack(r, s, ids) ==
    [x \in (DOMAIN r \ ids) \union (ids \intersect Elems(s)) |->
        IF x \in ids THEN IndexOf(s, x) ELSE r[x]]

(* The indices are read back: those of one kind of objects, and no other.  *)
LEMMA Reindexed ==
  ASSUME NEW r, NEW s, NEW ids, NEW r2, r2 = ReadBack(r, s, ids)
  PROVE  /\ Kept(r2, s, ids)
         /\ \A q, other : Kept(r, q, other) /\ other \intersect ids = {} => Kept(r2, q, other)
<1>1. Kept(r2, s, ids)
  BY IndexFound DEF Kept, ReadBack
<1>2. ASSUME NEW q, NEW other, Kept(r, q, other), other \intersect ids = {}
      PROVE  Kept(r2, q, other)
  BY <1>2 DEF Kept, ReadBack
<1>3. QED
  BY <1>1, <1>2

LEMMA RefreshStep ==
  ASSUME IInv, NEW op, NEW s, NEW ids, Turn(op),
         \/ op = "RefreshNodes" /\ s = tk.nodes /\ ids = Nodes(net)
         \/ op = "RefreshLinks" /\ s = tk.links /\ ids = Links(net),
         reg' = [x \in (DOMAIN reg \ Elems(ids)) \union (Elems(ids) \intersect Elems(s)) |->
                   IF x \in Elems(ids) THEN IndexOf(s, x) ELSE reg[x]],
         Collect(Missing(ids, s)), todo' = Tail(todo),
         UNCHANGED <<net, tk, uses, constantId, built>>
  PROVE  IInv'
<1>1. op \in Others
  BY DEF Others
<1>2. net \in Networks /\ IdentitiesAreUnique(net) /\ EntitiesOnly /\ IndicesKept
  BY DEF IInv, Network
<1>3. IsList(ids) /\ Elems(ids) \subseteq Entities(net)
  BY <1>2, NodesAndLinks, KindsAreEntities
<1>4. PICK f : f = Missing(ids, s)
  OBVIOUS
<1>5. f \in Seq(Elems(ids)) /\ Elems(f) = Elems(ids) \ Elems(s)
  BY <1>3, <1>4, MissingIds
<1> DEFINE E == Entities(net) \union {FreeId}
           I == Elems(ids)
<1>6. f \in Seq(E)
  <2>1. I \subseteq E
    BY <1>3
  <2> HIDE DEF E, I
  <2>2. f \in Seq(I)
    BY <1>5 DEF I
  <2>3. QED
    BY <2>1, <2>2
<1>7. Collect(f)
  BY <1>4
<1>8. /\ Network' /\ Scheduled' /\ FailuresCollected' /\ AllSettled' /\ UsesWanted' /\ NoneTwice'
      /\ Left = {Head(todo)} \union Left' /\ Head(todo).op = op
      /\ diags' = <<>> => diags = <<>> /\ f = <<>>
  <2>1. built' \subseteq built /\ built \subseteq built' \union Elems(f)
    OBVIOUS
  <2>2. QED
    BY <1>1, <1>6, <1>7, <2>1, OtherFinished
<1>9. EntitiesOnly'
  <2>1. DOMAIN reg' \subseteq Entities(net) /\ built' \subseteq Entities(net)
    BY <1>2, <1>3 DEF EntitiesOnly
  <2>2. diags' = <<>> => built' \subseteq DOMAIN reg'
    <3> SUFFICES ASSUME diags' = <<>> PROVE built' \subseteq DOMAIN reg'
      OBVIOUS
    <3>1. built \subseteq DOMAIN reg /\ Elems(ids) \subseteq Elems(s)
      BY <1>2, <1>5, <1>8, EmptyList DEF EntitiesOnly
    <3>2. QED
      BY <3>1
  <2>3. QED
    BY <2>1, <2>2 DEF EntitiesOnly
<1>10. /\ Kept(reg', s, Elems(ids))
       /\ \A q, other : Kept(reg, q, other) /\ other \intersect Elems(ids) = {}
                          => Kept(reg', q, other)
  <2> HIDE DEF I
  <2>1. PICK r, r2, c : r = reg /\ r2 = reg' /\ c = Elems(ids)
    OBVIOUS
  <2>2. r2 = ReadBack(r, s, c)
    BY <2>1 DEF ReadBack
  <2>3. Kept(r2, s, c) /\ \A q, other : Kept(r, q, other) /\ other \intersect c = {}
                                            => Kept(r2, q, other)
    BY <2>2, Reindexed
  <2>4. QED
    BY <2>1, <2>3
<1>11. IndicesKept'
  <2>1. /\ Elems(Links(net)) \intersect Elems(Nodes(net)) = {}
        /\ IdSet(net.patterns) \intersect (Elems(Nodes(net)) \union Elems(Links(net))) = {}
        /\ IdSet(net.curves) \intersect
              (Elems(Nodes(net)) \union Elems(Links(net)) \union IdSet(net.patterns)) = {}
        /\ IdSet(net.controls) \intersect (Elems(Nodes(net)) \union Elems(Links(net))
              \union IdSet(net.patterns) \union IdSet(net.curves)) = {}
    BY <1>2, IdentitiesByKind
  <2>2. Elems(ids) = Elems(Nodes(net)) \/ Elems(ids) = Elems(Links(net))
    OBVIOUS
  <2>3. /\ IdSet(net.patterns) \intersect Elems(ids) = {}
        /\ IdSet(net.curves) \intersect Elems(ids) = {}
        /\ IdSet(net.controls) \intersect Elems(ids) = {}
    BY <2>1, <2>2
  <2>4. /\ Kept(reg', tk.patterns, IdSet(net.patterns))
        /\ Kept(reg', tk.curves, IdSet(net.curves))
        /\ Kept(reg', tk.controls, IdSet(net.controls))
    BY <1>2, <1>10, <2>3 DEF IndicesKept
  <2>5. \A a : Task(a).op = a
    BY DEF Task
  <2>6. Task("RefreshNodes") \notin Left' => Kept(reg', tk.nodes, Elems(Nodes(net)))
    <3>1. CASE op = "RefreshNodes"
      BY <1>10, <3>1
    <3>2. CASE op = "RefreshLinks"
      <4>1. Elems(Nodes(net)) \intersect Elems(ids) = {}
        BY <2>1, <3>2
      <4>2. Task("RefreshNodes") \notin Left' => Task("RefreshNodes") \notin Left
        BY <1>8, <2>5, <3>2
      <4>3. QED
        BY <1>2, <1>10, <4>1, <4>2 DEF IndicesKept
    <3>3. QED
      BY <3>1, <3>2
  <2>7. Task("RefreshLinks") \notin Left' => Kept(reg', tk.links, Elems(Links(net)))
    <3>1. CASE op = "RefreshLinks"
      BY <1>10, <3>1
    <3>2. CASE op = "RefreshNodes"
      <4>1. Elems(Links(net)) \intersect Elems(ids) = {}
        BY <2>1, <3>2
      <4>2. Task("RefreshLinks") \notin Left' => Task("RefreshLinks") \notin Left
        BY <1>8, <2>5, <3>2
      <4>3. QED
        BY <1>2, <1>10, <4>1, <4>2 DEF IndicesKept
    <3>3. QED
      BY <3>1, <3>2
  <2>8. QED
    BY <2>4, <2>6, <2>7 DEF IndicesKept
<1>12. OptionsSet' /\ ConstantNamed' /\ DemandsUsed'
  BY <1>1, <1>8, OthersKept
<1>13. ToolkitIsTyped'
  BY DEF IInv, ToolkitIsTyped, FreeId
<1>14. QED
  BY <1>8, <1>9, <1>11, <1>12, <1>13 DEF IInv

LEMMA RefreshNodesStep ==
  ASSUME IInv, RefreshNodes
  PROVE  IInv'
<1>1. PICK s : s = tk.nodes
  OBVIOUS
<1>2. PICK ids : ids = Nodes(net)
  OBVIOUS
<1>3. /\ reg' = [x \in (DOMAIN reg \ Elems(ids)) \union (Elems(ids) \intersect Elems(s)) |->
                   IF x \in Elems(ids) THEN IndexOf(s, x) ELSE reg[x]]
      /\ Collect(Missing(ids, s))
      /\ Turn("RefreshNodes") /\ todo' = Tail(todo)
      /\ UNCHANGED <<net, tk, uses, constantId, built>>
  BY <1>1, <1>2 DEF RefreshNodes, Refresh, Collect
<1>4. QED
  BY <1>1, <1>2, <1>3, RefreshStep

LEMMA RefreshLinksStep ==
  ASSUME IInv, RefreshLinks
  PROVE  IInv'
<1>1. PICK s : s = tk.links
  OBVIOUS
<1>2. PICK ids : ids = Links(net)
  OBVIOUS
<1>3. /\ reg' = [x \in (DOMAIN reg \ Elems(ids)) \union (Elems(ids) \intersect Elems(s)) |->
                   IF x \in Elems(ids) THEN IndexOf(s, x) ELSE reg[x]]
      /\ Collect(Missing(ids, s))
      /\ Turn("RefreshLinks") /\ todo' = Tail(todo)
      /\ UNCHANGED <<net, tk, uses, constantId, built>>
  BY <1>1, <1>2 DEF RefreshLinks, Refresh, Collect
<1>4. QED
  BY <1>1, <1>2, <1>3, RefreshStep

LEMMA BuildStep == IInv /\ Next => IInv'
BY AddPatternStep, ConstantPatternStep, DefaultPatternStep, EnergyPatternStep, AddCurveStep,
   AddJunctionStep, AddReservoirStep, AddTankStep, RefreshNodesStep, AddPipeStep, AddPumpStep,
   AddValveStep, RefreshLinksStep, SetMetadataStep, AddControlStep, AddRuleStep DEF Next

LEMMA BuildStays == IInv /\ UNCHANGED <<net, todo, tk, uses, reg, constantId, first, diags, built>> => IInv'
BY DEF IInv, Network, Scheduled, ToolkitIsTyped, FailuresCollected, EntitiesOnly, AllSettled,
       IndicesKept, NoneTwice, OptionsSet, ConstantNamed, DemandsUsed, UsesWanted, Left, FreeId,
       NeedsConstant, PatternOf, DemandOf

-----------------------------------------------------------------------------
(* What the invariant says when the build is over.                         *)

(* A build that is over, and reports success.                              *)
LEMMA Succeeded ==
  ASSUME IInv, Done, first = NoRef
  PROVE  diags = <<>> /\ Left = {} /\ built = Entities(net) /\ DOMAIN reg = Entities(net)
<1>1. net \in Networks /\ Network
  BY DEF IInv, Network
<1> DEFINE E == Entities(net) \union {FreeId}
<1>2. NoRef \notin E
  BY <1>1, FreeIdIsFree DEF Network, IdentitiesAreUnique
<1>3. diags \in Seq(E) /\ first = IF diags = <<>> THEN NoRef ELSE diags[1]
  BY DEF IInv, FailuresCollected
<1> HIDE DEF E
<1>4. diags = <<>>
  <2>1. diags # <<>> => diags[1] \in E
    BY <1>3
  <2>2. QED
    BY <1>2, <1>3, <2>1
<1>5. Left = {}
  BY EmptyList DEF Left, Done
<1>6. Entities(net) \subseteq built
  <2> SUFFICES ASSUME NEW e \in Entities(net) PROVE e \in built
    OBVIOUS
  <2>1. PICK o \in AllTasks(net) : o.op \in AddOps /\ o.item.id = e
    BY <1>1, EntitiesAreAdded
  <2>2. e \in built \union Elems(diags)
    BY <1>5, <2>1 DEF IInv, AllSettled
  <2>3. QED
    BY <1>4, <2>2, EmptyList
<1>7. built \subseteq Entities(net) /\ built \subseteq DOMAIN reg /\ DOMAIN reg \subseteq Entities(net)
  BY <1>4 DEF IInv, EntitiesOnly
<1>8. QED
  BY <1>4, <1>5, <1>6, <1>7

LEMMA WantedByTasks ==
  ASSUME NEW n, NEW u
  PROVE  u \in Wanted(n) <=> \E o \in AllTasks(n) : u \in WantedBy(o)
<1> DEFINE Asks(op, s) == \E x \in Elems(s) : u \in WantedBy([op |-> op, item |-> x])
<1>1. u \in Wanted(n) <=>
        \/ \E r \in Elems(n.reservoirs) : u \in One(r.id, "pattern", r.pattern)
        \/ \E t \in Elems(n.tanks) : u \in One(t.id, "curve", t.curve)
        \/ \E l \in Elems(n.pipes) : u \in EndsOf(l)
        \/ \E p \in Elems(n.pumps) :
              \/ u \in EndsOf(p) \/ u \in One(p.id, "head", p.head)
              \/ u \in One(p.id, "speed", p.speed) \/ u \in One(p.id, "price", p.price)
              \/ u \in One(p.id, "efficiency", IF p.efficiency = Constant THEN Private(p.id)
                                               ELSE p.efficiency)
        \/ \E v \in Elems(n.valves) : u \in EndsOf(v) \/ u \in One(v.id, "curve", v.curve)
        \/ \E c \in Elems(n.controls) : u \in One(c.id, "link", c.link) \/ u \in One(c.id, "node", c.node)
        \/ \E r \in Elems(n.rules) : u \in {<<r.id, "names", 1, x>> : x \in r.nodes \union r.links}
  <2> DEFINE wa == {One(r.id, "pattern", r.pattern) : r \in Elems(n.reservoirs)}
             wb == {One(t.id, "curve", t.curve) : t \in Elems(n.tanks)}
             wc == {EndsOf(l) : l \in Elems(n.pipes) \union Elems(n.pumps) \union Elems(n.valves)}
             wd == {One(p.id, "head", p.head) : p \in Elems(n.pumps)}
             we == {One(p.id, "speed", p.speed) : p \in Elems(n.pumps)}
             wf == {One(p.id, "price", p.price) : p \in Elems(n.pumps)}
             wg == {One(p.id, "efficiency", IF p.efficiency = Constant THEN Private(p.id)
                                         ELSE p.efficiency) : p \in Elems(n.pumps)}
             wh == {One(v.id, "curve", v.curve) : v \in Elems(n.valves)}
             wi == {One(z.id, "link", z.link) : z \in Elems(n.controls)}
             wj == {One(z.id, "node", z.node) : z \in Elems(n.controls)}
             wk == {{<<r.id, "names", 1, x>> : x \in r.nodes \union r.links} : r \in Elems(n.rules)}
  <2>1. Wanted(n) = UNION (wa \union wb \union wc \union wd \union we \union wf \union wg \union wh \union wi \union wj \union wk)
    BY DEF Wanted, One, EndsOf
  <2>2. /\ u \in UNION wa <=> \E r \in Elems(n.reservoirs) : u \in One(r.id, "pattern", r.pattern)
        /\ u \in UNION wb <=> \E t \in Elems(n.tanks) : u \in One(t.id, "curve", t.curve)
        /\ u \in UNION wc <=>
              \E l \in Elems(n.pipes) \union Elems(n.pumps) \union Elems(n.valves) : u \in EndsOf(l)
    OBVIOUS
  <2>3. /\ u \in UNION wd <=> \E p \in Elems(n.pumps) : u \in One(p.id, "head", p.head)
        /\ u \in UNION we <=> \E p \in Elems(n.pumps) : u \in One(p.id, "speed", p.speed)
        /\ u \in UNION wf <=> \E p \in Elems(n.pumps) : u \in One(p.id, "price", p.price)
        /\ u \in UNION wg <=> \E p \in Elems(n.pumps) :
              u \in One(p.id, "efficiency", IF p.efficiency = Constant THEN Private(p.id)
                                            ELSE p.efficiency)
    OBVIOUS
  <2>4. /\ u \in UNION wh <=> \E v \in Elems(n.valves) : u \in One(v.id, "curve", v.curve)
        /\ u \in UNION wi <=> \E c \in Elems(n.controls) : u \in One(c.id, "link", c.link)
        /\ u \in UNION wj <=> \E c \in Elems(n.controls) : u \in One(c.id, "node", c.node)
        /\ u \in UNION wk <=>
              \E r \in Elems(n.rules) : u \in {<<r.id, "names", 1, x>> : x \in r.nodes \union r.links}
    OBVIOUS
  <2> HIDE DEF wa, wb, wc, wd, we, wf, wg, wh, wi, wj, wk
  <2>5. u \in Wanted(n) <=>
          \/ u \in UNION wa \/ u \in UNION wb \/ u \in UNION wc \/ u \in UNION wd
          \/ u \in UNION we \/ u \in UNION wf \/ u \in UNION wg \/ u \in UNION wh
          \/ u \in UNION wi \/ u \in UNION wj \/ u \in UNION wk
    BY <2>1
  <2>6. QED
    BY <2>2, <2>3, <2>4, <2>5
<1>2. u \in Wanted(n) <=> \/ Asks("AddReservoir", n.reservoirs) \/ Asks("AddTank", n.tanks)
                          \/ Asks("AddPipe", n.pipes) \/ Asks("AddPump", n.pumps)
                          \/ Asks("AddValve", n.valves) \/ Asks("AddControl", n.controls)
                          \/ Asks("AddRule", n.rules)
  <2>1. Asks("AddReservoir", n.reservoirs) <=>
          \E r \in Elems(n.reservoirs) : u \in One(r.id, "pattern", r.pattern)
    BY DEF WantedBy
  <2>2. Asks("AddTank", n.tanks) <=> \E t \in Elems(n.tanks) : u \in One(t.id, "curve", t.curve)
    BY DEF WantedBy
  <2>3. Asks("AddPipe", n.pipes) <=> \E l \in Elems(n.pipes) : u \in EndsOf(l)
    BY DEF WantedBy
  <2>4. Asks("AddPump", n.pumps) <=> \E p \in Elems(n.pumps) :
              \/ u \in EndsOf(p) \/ u \in One(p.id, "head", p.head)
              \/ u \in One(p.id, "speed", p.speed) \/ u \in One(p.id, "price", p.price)
              \/ u \in One(p.id, "efficiency", IF p.efficiency = Constant THEN Private(p.id)
                                               ELSE p.efficiency)
    BY DEF WantedBy
  <2>5. Asks("AddValve", n.valves) <=>
          \E v \in Elems(n.valves) : u \in EndsOf(v) \/ u \in One(v.id, "curve", v.curve)
    BY DEF WantedBy
  <2>6. Asks("AddControl", n.controls) <=>
          \E c \in Elems(n.controls) : u \in One(c.id, "link", c.link) \/ u \in One(c.id, "node", c.node)
    BY DEF WantedBy
  <2>7. Asks("AddRule", n.rules) <=>
          \E r \in Elems(n.rules) : u \in {<<r.id, "names", 1, x>> : x \in r.nodes \union r.links}
    BY DEF WantedBy
  <2> HIDE DEF Asks
  <2>8. QED
    BY <1>1, <2>1, <2>2, <2>3, <2>4, <2>5, <2>6, <2>7
<1>3. ASSUME u \in Wanted(n) PROVE \E o \in AllTasks(n) : u \in WantedBy(o)
  BY <1>2, <1>3, AllTasksListed
<1>4. ASSUME NEW o \in AllTasks(n), u \in WantedBy(o) PROVE u \in Wanted(n)
  <2>1. o = [op |-> o.op, item |-> o.item]
    BY TasksByOp
  <2>2. o.op \in {"AddReservoir", "AddTank", "AddPipe", "AddPump", "AddValve", "AddControl", "AddRule"}
    BY <1>4 DEF WantedBy
  <2>3. /\ o.op = "AddReservoir" => o.item \in Elems(n.reservoirs)
        /\ o.op = "AddTank" => o.item \in Elems(n.tanks)
        /\ o.op = "AddPipe" => o.item \in Elems(n.pipes)
        /\ o.op = "AddPump" => o.item \in Elems(n.pumps)
        /\ o.op = "AddValve" => o.item \in Elems(n.valves)
        /\ o.op = "AddControl" => o.item \in Elems(n.controls)
        /\ o.op = "AddRule" => o.item \in Elems(n.rules)
    BY TasksByOp
  <2>4. PICK op, x : op = o.op /\ x = o.item
    OBVIOUS
  <2>5. u \in WantedBy([op |-> op, item |-> x])
    BY <1>4, <2>1, <2>4
  <2>6. QED
    BY <1>2, <2>2, <2>3, <2>4, <2>5
<1>5. QED
  BY <1>3, <1>4

LEMMA NoDemandWanted == \A o, u : u \in WantedBy(o) => u[2] # "demand"
BY DEF WantedBy, One, EndsOf

LEMMA CompleteWhenSuccessful == IInv => SuccessIsComplete
<1> SUFFICES ASSUME IInv, Done, first = NoRef
             PROVE  /\ built = Entities(net) /\ DOMAIN reg = Entities(net)
                    /\ {u \in uses : u[2] # "demand"} = Wanted(net)
                    /\ tk.default = net.default /\ tk.energy = net.energy
  BY DEF SuccessIsComplete
<1>1. diags = <<>> /\ Left = {} /\ built = Entities(net) /\ DOMAIN reg = Entities(net)
  BY Succeeded
<1>2. /\ \A u \in uses : u[2] # "demand" => \E o \in AllTasks(net) : u \in WantedBy(o)
      /\ \A o \in AllTasks(net) : WantedBy(o) \subseteq uses
  BY <1>1 DEF IInv, UsesWanted
<1>3. {u \in uses : u[2] # "demand"} = Wanted(net)
  BY <1>2, WantedByTasks, NoDemandWanted
<1>4. tk.default = net.default /\ tk.energy = net.energy
  BY <1>1 DEF IInv, OptionsSet
<1>5. QED
  BY <1>1, <1>3, <1>4

LEMMA ReportedWhenFailed == IInv => FailuresAreReported
<1> SUFFICES ASSUME IInv, Done
             PROVE  /\ Entities(net) \ built \subseteq Elems(diags)
                    /\ first = IF diags = <<>> THEN NoRef ELSE diags[1]
  BY DEF FailuresAreReported
<1>1. net \in Networks
  BY DEF IInv, Network
<1>2. Left = {}
  BY EmptyList DEF Left, Done
<1>3. ASSUME NEW e \in Entities(net) \ built PROVE e \in Elems(diags)
  <2>1. PICK o \in AllTasks(net) : o.op \in AddOps /\ o.item.id = e
    BY <1>1, EntitiesAreAdded
  <2>2. QED
    BY <1>2, <2>1 DEF IInv, AllSettled
<1>4. QED
  BY <1>3 DEF IInv, FailuresCollected

LEMMA ConstantWhenSuccessful == IInv => DemandsStayConstant
<1> SUFFICES ASSUME IInv, Done, first = NoRef, NEW j \in Elems(net.junctions),
                    NEW k \in DOMAIN j.demands
             PROVE  \E p \in Elems(tk.patterns) \union {NoRef} :
                      /\ <<j.id, "demand", k, p>> \in uses
                      /\ LET effective == IF p = NoRef THEN tk.default ELSE p
                         IN  CASE j.demands[k] = Constant -> effective \notin IdSet(net.patterns)
                               [] j.demands[k] = NoRef -> effective = net.default
                               [] OTHER -> effective = j.demands[k]
  BY DEF DemandsStayConstant
<1>1. diags = <<>> /\ Left = {}
  BY Succeeded
<1>2. net \in Networks /\ Network /\ NoRef \notin Entities(net)
  BY DEF IInv, Network, IdentitiesAreUnique
<1>3. NoRef \notin IdSet(net.patterns) /\ FreeId \notin IdSet(net.patterns) /\ FreeId # NoRef
  BY <1>2, KindsAreEntities, FreeIdIsFree
<1>4. PICK d : d = j.demands[k]
  OBVIOUS
<1> DEFINE p == PatternOf(d)
<1>5. <<j.id, "demand", k, p>> \in uses /\ p \in Elems(tk.patterns) \union {NoRef}
  <2> DEFINE o == [op |-> "AddJunction", item |-> j]
  <2>1. o \in AllTasks(net) /\ o.op = "AddJunction" /\ o.item = j
    BY AllTasksListed
  <2> HIDE DEF o
  <2>2. /\ DemandOf(j, k) \in uses
        /\ PatternOf(j.demands[k]) \in {NoRef} \union Elems(tk.patterns)
    BY <1>1, <2>1 DEF IInv, DemandsUsed
  <2>3. QED
    BY <1>4, <2>2 DEF DemandOf
<1>6. tk.default = net.default
  BY <1>1 DEF IInv, OptionsSet
<1>7. CASE d = Constant
  <2>1. p = constantId
    BY <1>7 DEF PatternOf
  <2>2. Constant \in Elems(j.demands)
    BY <1>4, <1>7 DEF Elems
  <2>3. CASE NeedsConstant
    <3>1. constantId = FreeId
      BY <1>1, <2>3 DEF IInv, ConstantNamed
    <3>2. p # NoRef /\ p \notin IdSet(net.patterns)
      BY <1>3, <2>1, <3>1
    <3> HIDE DEF p
    <3>3. (IF p = NoRef THEN tk.default ELSE p) = p
      BY <3>2
    <3>4. QED
      BY <1>4, <1>5, <1>7, <3>2, <3>3, IdsAssumption
  <2>4. CASE ~NeedsConstant
    <3>1. constantId = NoRef /\ net.default = NoRef
      BY <2>2, <2>4 DEF IInv, ConstantNamed, NeedsConstant
    <3>2. QED
      BY <1>3, <1>4, <1>5, <1>6, <1>7, <2>1, <3>1
  <2>5. QED
    BY <2>3, <2>4
<1>8. CASE d # Constant
  <2>1. p = d
    BY <1>8 DEF PatternOf
  <2>2. QED
    BY <1>4, <1>5, <1>6, <1>8, <2>1
<1>9. QED
  BY <1>7, <1>8

-----------------------------------------------------------------------------
(* The readers, on a project that was built.                               *)

LEMMA KnownEntities ==
  ASSUME IInv, Done, first = NoRef
  PROVE  /\ \A e \in Elems(Nodes(net) \o Links(net)) : Known(e) /\ Objects(e)[reg[e]] = e
         /\ Kept(reg, tk.nodes, Elems(Nodes(net))) /\ Kept(reg, tk.controls, IdSet(net.controls))
         /\ Elems(Nodes(net)) \subseteq DOMAIN reg /\ IdSet(net.controls) \subseteq DOMAIN reg
         /\ NoRef \notin Entities(net)
<1>1. Left = {} /\ DOMAIN reg = Entities(net)
  BY Succeeded
<1>2. net \in Networks /\ NoRef \notin Entities(net)
  BY DEF IInv, Network, IdentitiesAreUnique
<1>3. /\ Kept(reg, tk.nodes, Elems(Nodes(net))) /\ Kept(reg, tk.links, Elems(Links(net)))
      /\ Kept(reg, tk.controls, IdSet(net.controls))
  BY <1>1 DEF IInv, IndicesKept
<1>4. /\ Elems(Nodes(net)) \subseteq Entities(net) /\ Elems(Links(net)) \subseteq Entities(net)
      /\ IdSet(net.controls) \subseteq Entities(net)
  <2>1. Kinds(net).controls = IdSet(net.controls) /\ "controls" \in DOMAIN Kinds(net)
    BY DEF Kinds
  <2>2. IdSet(net.controls) \subseteq Entities(net)
    BY <1>2, <2>1, EntitiesByKind
  <2>3. QED
    BY <1>2, <2>2, KindsAreEntities
<1>5. Elems(Nodes(net) \o Links(net)) = Elems(Nodes(net)) \union Elems(Links(net))
  <2>1. IsList(Nodes(net)) /\ IsList(Links(net))
    BY <1>2, NodesAndLinks
  <2>2. QED
    BY <2>1, ConcatIsList
<1>6. ASSUME NEW e \in Elems(Nodes(net)) \union Elems(Links(net))
      PROVE  Known(e) /\ Objects(e)[reg[e]] = e
  <2>1. e \in DOMAIN reg
    BY <1>1, <1>4
  <2>2. CASE e \in Elems(Nodes(net))
    <3>1. Objects(e) = tk.nodes /\ reg[e] \in DOMAIN tk.nodes /\ tk.nodes[reg[e]] = e
      BY <1>3, <2>1, <2>2 DEF Objects, Kept
    <3>2. QED
      BY <2>1, <3>1 DEF Known, Registered
  <2>3. CASE e \notin Elems(Nodes(net))
    <3>1. e \in Elems(Links(net)) \intersect DOMAIN reg
      BY <2>1, <2>3
    <3>2. Objects(e) = tk.links /\ reg[e] \in DOMAIN tk.links /\ tk.links[reg[e]] = e
      BY <1>3, <2>3, <3>1 DEF Objects, Kept
    <3>3. QED
      BY <2>1, <3>2 DEF Known, Registered
  <2>4. QED
    BY <2>2, <2>3
<1>7. QED
  BY <1>1, <1>2, <1>3, <1>4, <1>5, <1>6

LEMMA RowIds ==
  ASSUME NEW rs \in Seq(Row), NEW row \in Row, NEW e, row.id = e,
         NEW us \in Seq(Elems(Nodes(net) \o Links(net))), us # <<>>, Head(us) = e
  PROVE  Append(rs, row) \in Seq(Row) /\ Ids(Append(rs, row)) \o Tail(us) = Ids(rs) \o us
<1> DEFINE S == Elems(Nodes(net) \o Links(net)) 
           a == Ids(rs)
           q == Append(rs, row)
           b == Ids(q)
           t == Tail(us)
           I == {r.id : r \in Row}
<1>1. q \in Seq(Row) /\ Len(q) = Len(rs) + 1 /\ q[Len(rs) + 1] = row
      /\ \A k \in 1 .. Len(rs) : q[k] = rs[k]
  OBVIOUS
<1>2. /\ Len(rs) \in Nat /\ DOMAIN rs = 1 .. Len(rs) /\ DOMAIN q = 1 .. Len(rs) + 1
      /\ \A k \in 1 .. Len(rs) : rs[k] \in Row
  BY <1>1
<1> HIDE DEF S, q, t
<1>3. /\ a \in Seq(I) /\ Len(a) = Len(rs) /\ \A k \in 1 .. Len(rs) : a[k] = rs[k].id
  <2>1. a = [k \in 1 .. Len(rs) |-> rs[k].id]
    BY <1>2 DEF Ids
  <2>2. \A k \in 1 .. Len(rs) : rs[k].id \in I
    BY <1>2
  <2> HIDE DEF I
  <2>3. QED
    BY <1>2, <2>1, <2>2
<1>4. /\ b \in Seq(I) /\ Len(b) = Len(rs) + 1 /\ \A k \in 1 .. Len(rs) + 1 : b[k] = q[k].id
  <2>1. b = [k \in 1 .. Len(rs) + 1 |-> q[k].id]
    BY <1>2 DEF Ids
  <2>2. \A k \in 1 .. Len(rs) + 1 : q[k].id \in I
    BY <1>1, <1>2
  <2> HIDE DEF I
  <2>3. Len(rs) + 1 \in Nat
    BY <1>2
  <2>4. QED
    BY <2>1, <2>2, <2>3
<1>5. /\ us \in Seq(S) /\ t \in Seq(S) /\ Len(t) = Len(us) - 1 /\ us[1] = e /\ Len(us) \in Nat
      /\ Len(us) >= 1 /\ \A k \in 1 .. Len(us) - 1 : t[k] = us[k + 1]
  <2>1. us \in Seq(S)
    BY DEF S
  <2>2. QED
    BY <2>1 DEF t
<1> HIDE DEF a, b, I
<1>6. PICK U : U = I \union S
  OBVIOUS
<1>7. a \in Seq(U) /\ b \in Seq(U) /\ us \in Seq(U) /\ t \in Seq(U)
  BY <1>3, <1>4, <1>5, <1>6
<1>8. /\ b \o t \in Seq(U) /\ Len(b \o t) = Len(b) + Len(t)
      /\ \A k \in 1 .. Len(b) + Len(t) : (b \o t)[k] = IF k <= Len(b) THEN b[k] ELSE t[k - Len(b)]
  BY <1>7, ConcatProperties
<1>9. /\ a \o us \in Seq(U) /\ Len(a \o us) = Len(a) + Len(us)
      /\ \A k \in 1 .. Len(a) + Len(us) : (a \o us)[k] = IF k <= Len(a) THEN a[k] ELSE us[k - Len(a)]
  BY <1>7, ConcatProperties
<1>10. PICK n \in Nat, m \in Nat : n = Len(rs) /\ m = Len(us) /\ m >= 1
  BY <1>2, <1>5
<1>11. Len(b \o t) = n + m /\ Len(a \o us) = n + m
  BY <1>3, <1>4, <1>5, <1>8, <1>9, <1>10
<1>12. \A k \in 1 .. n + m : (b \o t)[k] = (a \o us)[k]
  <2> SUFFICES ASSUME NEW k \in 1 .. n + m PROVE (b \o t)[k] = (a \o us)[k]
    OBVIOUS
  <2>1. /\ (b \o t)[k] = IF k <= n + 1 THEN b[k] ELSE t[k - (n + 1)]
        /\ (a \o us)[k] = IF k <= n THEN a[k] ELSE us[k - n]
    BY <1>3, <1>4, <1>5, <1>8, <1>9, <1>10
  <2>2. CASE k <= n
    <3>1. k \in 1 .. n /\ k \in 1 .. n + 1 /\ k <= n + 1
      BY <2>2
    <3>2. b[k] = q[k].id /\ a[k] = rs[k].id /\ q[k] = rs[k]
      BY <1>1, <1>3, <1>4, <1>10, <3>1 DEF q
    <3>3. QED
      BY <2>1, <2>2, <3>1, <3>2
  <2>3. CASE k = n + 1
    <3>1. k \in 1 .. n + 1 /\ k <= n + 1 /\ ~(k <= n) /\ k - n = 1
      BY <2>3
    <3>2. b[k] = row.id
      BY <1>1, <1>4, <1>10, <2>3, <3>1 DEF q
    <3>3. QED
      BY <1>5, <2>1, <3>1, <3>2
  <2>4. CASE n + 1 < k
    <3>1. ~(k <= n + 1) /\ ~(k <= n) /\ k - (n + 1) \in 1 .. m - 1 /\ (k - (n + 1)) + 1 = k - n
      BY <2>4
    <3>2. t[k - (n + 1)] = us[k - n]
      BY <1>5, <1>10, <3>1
    <3>3. QED
      BY <2>1, <3>1, <3>2
  <2>5. k <= n \/ k = n + 1 \/ n + 1 < k
    BY <1>10
  <2>6. QED
    BY <2>2, <2>3, <2>4, <2>5
<1>13. b \o t = a \o us
  <2>1. PICK s1 \in Seq(U), s2 \in Seq(U) : s1 = b \o t /\ s2 = a \o us
    BY <1>8, <1>9
  <2>2. Len(s1) = Len(s2) /\ \A k \in 1 .. Len(s1) : s1[k] = s2[k]
    BY <1>11, <1>12, <2>1
  <2>3. s1 = s2
    BY <2>2, SeqEqual
  <2>4. QED
    BY <2>1, <2>3
<1>14. QED
  BY <1>1, <1>13 DEF a, b, t, q

-----------------------------------------------------------------------------
LEMMA ReadersBegin == ReadersInit => IInv /\ ReadersInv
<1> SUFFICES ASSUME ReadersInit PROVE IInv /\ ReadersInv
  OBVIOUS
<1>1. IInv
  BY BuildInit DEF ReadersInit
<1>2. ReadersInv
  BY DEF ReadersInit, ReadersInv, NoEvent
<1>3. QED
  BY <1>1, <1>2

LEMMA RowsAreRows ==
  /\ \A e \in Elems(Nodes(net) \o Links(net)) : PlainRow(e) \in Row /\ PlainRow(e).id = e
  /\ \A e \in IdSet(net.pumps), status \in PumpStatuses :
        PumpRow(e, IsOpen(status), PumpState(status)) \in Row
BY DEF Row, PlainRow

(* Reading a row: its entity is known, and the row its own.                *)
LEMMA RowRead ==
  ASSUME IInv, ReadersInv, NEW kind \in {"hydraulics", "quality"}, NEW e, Reads(kind, e),
         NEW row \in Row, row.id = e, Appended(row), UNCHANGED <<vars, reading, event>>
  PROVE  IInv' /\ ReadersInv'
<1>1. IInv'
  BY BuildStays DEF vars
<1>2. reading = kind /\ answer = "open" /\ unread # <<>> /\ Head(unread) = e
  BY DEF Reads
<1>3. /\ Done /\ first = NoRef /\ rows \in Seq(Row)
      /\ unread \in Seq(Elems(Nodes(net) \o Links(net)))
      /\ Ids(rows) \o unread = Nodes(net) \o Links(net)
  BY <1>2 DEF ReadersInv
<1>4. rows' = Append(rows, row) /\ unread' = Tail(unread) /\ answer' = answer
  BY DEF Appended
<1>5. rows' \in Seq(Row) /\ Ids(rows') \o unread' = Ids(rows) \o unread
  BY <1>2, <1>3, <1>4, RowIds
<1>6. unread' \in Seq(Elems(Nodes(net) \o Links(net)))
  <2> DEFINE S == Elems(Nodes(net) \o Links(net))
  <2>1. unread \in Seq(S)
    BY <1>3
  <2> HIDE DEF S
  <2>2. Tail(unread) \in Seq(S)
    BY <1>2, <2>1
  <2>3. QED
    BY <1>4, <2>2 DEF S
<1>7. Row' = Row
  BY DEF Row, vars
<1>8. Done' /\ first' = NoRef /\ net' = net
  BY <1>3 DEF Done, vars
<1>9. QED
  BY <1>1, <1>2, <1>3, <1>4, <1>5, <1>6, <1>7, <1>8 DEF ReadersInv

LEMMA PlainRowRead ==
  ASSUME IInv, ReadersInv, NEW kind \in {"hydraulics", "quality"},
         NEW e \in Elems(Nodes(net) \o Links(net)), Reads(kind, e), RowOf(e),
         UNCHANGED <<vars, reading, event>>
  PROVE  IInv' /\ ReadersInv'
<1>1. Done /\ first = NoRef
  BY DEF Reads, ReadersInv
<1>2. Known(e) /\ Objects(e)[reg[e]] = e
  BY <1>1, KnownEntities
<1>3. Appended([id |-> e, of |-> Objects(e)[reg[e]]])
  BY <1>2 DEF RowOf
<1>4. PICK row : row = PlainRow(e)
  OBVIOUS
<1>5. Appended(row)
  BY <1>2, <1>3, <1>4 DEF PlainRow, Appended
<1>6. row \in Row /\ row.id = e
  BY <1>4, RowsAreRows
<1>7. QED
  BY <1>5, <1>6, RowRead

LEMMA PumpRowRead ==
  ASSUME IInv, ReadersInv, ReadPump
  PROVE  IInv' /\ ReadersInv'
<1>1. PICK e \in IdSet(net.pumps), status \in PumpStatuses :
        /\ Reads("hydraulics", e)
        /\ IF Known(e) /\ PumpState(status) # "unknown"
             THEN Appended([id |-> e, of |-> Objects(e)[reg[e]],
                            open |-> IsOpen(status), state |-> PumpState(status)])
             ELSE Unresolved
  BY DEF ReadPump
<1>2. Done /\ first = NoRef
  BY <1>1 DEF Reads, ReadersInv
<1>3. e \in Elems(Nodes(net) \o Links(net))
  <2>1. net \in Networks
    BY DEF IInv, Network
  <2>2. e \in Elems(Links(net)) /\ IsList(Nodes(net)) /\ IsList(Links(net))
    BY <2>1, NodesAndLinks
  <2>3. QED
    BY <2>2, ConcatIsList
<1>4. Known(e) /\ Objects(e)[reg[e]] = e
  BY <1>2, <1>3, KnownEntities
<1>5. PumpState(status) # "unknown"
  BY DEF PumpState, PumpStatuses
<1>6. PICK row : row = PumpRow(e, IsOpen(status), PumpState(status))
  OBVIOUS
<1>7. Appended(row)
  BY <1>1, <1>4, <1>5, <1>6 DEF PumpRow, Appended
<1>8. row \in Row /\ row.id = e
  BY <1>6, RowsAreRows DEF PumpRow
<1>9. UNCHANGED <<vars, reading, event>>
  BY DEF ReadPump
<1>10. QED
  BY <1>1, <1>7, <1>8, <1>9, RowRead

(* An index EPANET names is the index of one entity: the object's own.     *)
LEMMA KeyIsMeant ==
  ASSUME NEW s, NEW ids, NEW known, Kept(reg, s, known), ids \subseteq known, known \subseteq DOMAIN reg,
         Distinct(s), NEW i \in DOMAIN s, s[i] \in ids
  PROVE  KeyOf(ids, i) = s[i]
<1> DEFINE keys == {e \in ids \intersect DOMAIN reg : reg[e] = i}
<1>1. \A e \in keys : e = s[i]
  BY DEF Kept
<1>2. s[i] \in keys
  <2>1. reg[s[i]] \in DOMAIN s /\ s[reg[s[i]]] = s[i]
    BY DEF Kept
  <2>2. reg[s[i]] = i
    BY <2>1 DEF Distinct
  <2>3. QED
    BY <2>2
<1>3. KeyOf(ids, i) = IF keys = {} THEN NoRef ELSE CHOOSE e \in keys : TRUE
  BY DEF KeyOf
<1> HIDE DEF keys
<1>4. QED
  BY <1>1, <1>2, <1>3

LEMMA EventsAreMeant ==
  ASSUME IInv, Done, first = NoRef, NEW v \in NextEvents
  PROVE  /\ v.entity = v.meant
         /\ v.type \in {"TankEvent", "ControlEvent"} => v.entity # NoRef
<1>1. /\ Kept(reg, tk.nodes, Elems(Nodes(net))) /\ Kept(reg, tk.controls, IdSet(net.controls))
      /\ Elems(Nodes(net)) \subseteq DOMAIN reg /\ IdSet(net.controls) \subseteq DOMAIN reg
      /\ NoRef \notin Entities(net)
  BY KnownEntities
<1>2. net \in Networks /\ Distinct(tk.nodes) /\ Distinct(tk.controls) /\ ToolkitIsTyped
  BY DEF IInv, Network, NoneTwice
<1>3. IdSet(net.tanks) \subseteq Elems(Nodes(net))
  BY <1>2, NodesAndLinks
<1>4. Elems(Nodes(net)) \subseteq Entities(net) /\ IdSet(net.controls) \subseteq Entities(net)
  <2>1. Kinds(net).controls = IdSet(net.controls) /\ "controls" \in DOMAIN Kinds(net)
    BY DEF Kinds
  <2>2. IdSet(net.controls) \subseteq Entities(net)
    BY <1>2, <2>1, EntitiesByKind
  <2>3. QED
    BY <1>2, <2>2, KindsAreEntities
<1>5. CASE v \in {[NoEvent EXCEPT !.type = t] : t \in {"ReportStep", "HydraulicStep", "QualityStep"}}
  BY <1>5 DEF NoEvent
<1>6. ASSUME NEW i \in DOMAIN tk.nodes, tk.nodes[i] \in IdSet(net.tanks),
             v = EventOf("TankEvent", IdSet(net.tanks), tk.nodes, i)
      PROVE  v.entity = v.meant /\ v.entity # NoRef
  <2>1. KeyOf(IdSet(net.tanks), i) = tk.nodes[i]
    BY <1>1, <1>2, <1>3, <1>6, KeyIsMeant
  <2>2. v.entity = KeyOf(IdSet(net.tanks), i) /\ v.meant = tk.nodes[i]
    BY <1>6 DEF EventOf
  <2>3. tk.nodes[i] # NoRef
    BY <1>1, <1>3, <1>4, <1>6
  <2>4. QED
    BY <2>1, <2>2, <2>3
<1>7. ASSUME NEW i \in DOMAIN tk.controls,
             v = EventOf("ControlEvent", IdSet(net.controls), tk.controls, i)
      PROVE  v.entity = v.meant /\ v.entity # NoRef
  <2>1. tk.controls[i] \in IdSet(net.controls)
    <3>1. tk.controls \in Seq(IdSet(net.controls))
      BY <1>2, ToolkitFields
    <3>2. QED
      BY <3>1
  <2>2. KeyOf(IdSet(net.controls), i) = tk.controls[i]
    BY <1>1, <1>2, <2>1, KeyIsMeant
  <2>3. v.entity = KeyOf(IdSet(net.controls), i) /\ v.meant = tk.controls[i]
    BY <1>7 DEF EventOf
  <2>4. tk.controls[i] # NoRef
    BY <1>1, <1>4, <2>1
  <2>5. QED
    BY <2>2, <2>3, <2>4
<1>8. QED
  BY <1>5, <1>6, <1>7 DEF NextEvents

-----------------------------------------------------------------------------
LEMMA ReadersStay ==
  ASSUME ReadersInv, UNCHANGED <<net, todo, first, readerVars>>
  PROVE  ReadersInv'
<1>1. Row' = Row
  BY DEF Row
<1>2. QED
  BY <1>1 DEF ReadersInv, readerVars, Done

LEMMA ReadersStep ==
  ASSUME IInv, ReadersInv, [ReadersNext]_<<vars, readerVars>>
  PROVE  IInv' /\ ReadersInv'
<1>1. CASE Next /\ UNCHANGED readerVars
  <2>1. ~Done
    BY <1>1 DEF Next, Turn, AddPattern, ConstantPattern, DefaultPattern, EnergyPattern, AddCurve,
          AddJunction, AddReservoir, AddTank, RefreshNodes, AddPipe, AddPump, AddValve,
          RefreshLinks, SetMetadata, AddControl, AddRule
  <2>2. reading = "nothing"
    BY <2>1 DEF ReadersInv
  <2>3. ReadersInv'
    BY <1>1, <2>2 DEF ReadersInv, readerVars
  <2>4. QED
    BY <1>1, <2>3, BuildStep
<1>2. CASE StartReading
  <2>1. /\ Done /\ first = NoRef /\ reading = "nothing" /\ reading' \in {"hydraulics", "quality"}
        /\ unread' = Nodes(net) \o Links(net) /\ UNCHANGED <<vars, answer, rows, event>>
    BY <1>2 DEF StartReading
  <2>2. rows = <<>> /\ answer = "open" /\ event = NoEvent
    BY <2>1 DEF ReadersInv
  <2>3. IsList(Nodes(net) \o Links(net))
    <3>1. IsList(Nodes(net)) /\ IsList(Links(net))
      BY NodesAndLinks DEF IInv, Network
    <3>2. QED
      BY <3>1, ConcatIsList
  <2>4. unread' \in Seq(Elems(Nodes(net) \o Links(net)))
    BY <2>1, <2>3 DEF IsList
  <2>5. Ids(<<>>) \o unread' = unread'
    <3>1. PICK z : z = Ids(<<>>)
      OBVIOUS
    <3>2. z = <<>>
      BY <3>1 DEF Ids
    <3> DEFINE S == Elems(Nodes(net) \o Links(net))
    <3>3. PICK q \in Seq(S) : q = unread'
      BY <2>4
    <3> HIDE DEF S
    <3>4. <<>> \o q = q
      BY <3>3
    <3>5. QED
      BY <3>1, <3>2, <3>3, <3>4
  <2>6. IInv'
    BY <2>1, BuildStays DEF vars
  <2>7. /\ net' = net /\ Done' /\ first' = NoRef /\ rows' = <<>> /\ answer' = "open"
        /\ event' = NoEvent
    BY <2>1, <2>2 DEF vars, Done
  <2>8. <<>> \in Seq(Row')
    OBVIOUS
  <2>9. ReadersInv'
    BY <2>1, <2>4, <2>5, <2>7, <2>8 DEF ReadersInv, NoEvent
  <2>10. QED
    BY <2>6, <2>9
<1>3. CASE ReadNode
  <2>1. PICK e \in Elems(Nodes(net)) : Reads("hydraulics", e) /\ RowOf(e)
    BY <1>3 DEF ReadNode
  <2>2. e \in Elems(Nodes(net) \o Links(net))
    BY NodesAndLinks, ConcatIsList DEF IInv, Network
  <2>3. UNCHANGED <<vars, reading, event>>
    BY <1>3 DEF ReadNode
  <2>4. QED
    BY <2>1, <2>2, <2>3, PlainRowRead
<1>4. CASE ReadPipeOrValve
  <2>1. PICK e \in Elems(Links(net)) \ IdSet(net.pumps) : Reads("hydraulics", e) /\ RowOf(e)
    BY <1>4 DEF ReadPipeOrValve
  <2>2. e \in Elems(Nodes(net) \o Links(net))
    BY NodesAndLinks, ConcatIsList DEF IInv, Network
  <2>3. UNCHANGED <<vars, reading, event>>
    BY <1>4 DEF ReadPipeOrValve
  <2>4. QED
    BY <2>1, <2>2, <2>3, PlainRowRead
<1>5. CASE ReadQuality
  <2>1. PICK e \in Elems(Nodes(net) \o Links(net)) : Reads("quality", e) /\ RowOf(e)
    BY <1>5 DEF ReadQuality
  <2>2. UNCHANGED <<vars, reading, event>>
    BY <1>5 DEF ReadQuality
  <2>3. QED
    BY <2>1, <2>2, PlainRowRead
<1>6. CASE ReadPump
  BY <1>6, PumpRowRead
<1>7. CASE FailReading
  <2>1. /\ reading # "nothing" /\ answer = "open" /\ answer' = "failed"
        /\ UNCHANGED <<net, todo, tk, uses, reg, constantId, first, diags, built>>
        /\ UNCHANGED <<reading, unread, rows, event>>
    BY <1>7 DEF FailReading
  <2>2. IInv'
    BY <2>1, BuildStays
  <2>3. Row' = Row
    BY <2>1 DEF Row
  <2>4. ReadersInv'
    BY <2>1, <2>3 DEF ReadersInv, Done
  <2>5. QED
    BY <2>2, <2>4
<1>8. CASE ReadNextEvent
  <2>1. /\ reading = "hydraulics" /\ answer = "open" /\ unread = <<>> /\ event' \in NextEvents
        /\ answer' = IF event'.type \in {"TankEvent", "ControlEvent"} /\ event'.entity = NoRef
                       THEN "unresolved" ELSE "read"
        /\ UNCHANGED <<vars, reading, unread, rows>>
    BY <1>8 DEF ReadNextEvent
  <2>2. Done /\ first = NoRef
    BY <2>1 DEF ReadersInv
  <2>3. PICK v \in NextEvents : v = event'
    BY <2>1
  <2>4. v.entity = v.meant /\ (v.type \in {"TankEvent", "ControlEvent"} => v.entity # NoRef)
    BY <2>2, EventsAreMeant
  <2>5. answer' = "read" /\ event'.entity = event'.meant
    BY <2>1, <2>3, <2>4
  <2>6. IInv'
    BY <2>1, BuildStays DEF vars
  <2>7. Row' = Row
    BY <2>1 DEF Row, vars
  <2>8. ReadersInv'
    BY <2>1, <2>5, <2>7 DEF ReadersInv, Done, vars
  <2>9. QED
    BY <2>6, <2>8
<1>9. CASE ReadMassBalance
  <2>1. /\ reading = "quality" /\ answer = "open" /\ unread = <<>> /\ answer' = "read"
        /\ UNCHANGED <<vars, reading, unread, rows, event>>
    BY <1>9 DEF ReadMassBalance
  <2>2. IInv'
    BY <2>1, BuildStays DEF vars
  <2>3. Row' = Row
    BY <2>1 DEF Row, vars
  <2>4. ReadersInv'
    BY <2>1, <2>3 DEF ReadersInv, Done, vars
  <2>5. QED
    BY <2>2, <2>4
<1>10. CASE UNCHANGED <<vars, readerVars>>
  BY <1>10, BuildStays, ReadersStay DEF vars
<1>11. QED
  BY <1>1, <1>2, <1>3, <1>4, <1>5, <1>6, <1>7, <1>8, <1>9, <1>10 DEF ReadersNext

LEMMA ReadResultsAreOwn ==
  ASSUME ReadersInv
  PROVE  ResultsAreOwn
<1>1. rows \in Seq(Row)
  <2>1. <<>> \in Seq(Row)
    OBVIOUS
  <2>2. QED
    BY <2>1 DEF ReadersInv
<1>2. \A k \in DOMAIN rows : rows[k] \in Row
  BY <1>1
<1>3. ASSUME NEW row \in Row
      PROVE  /\ row.of = row.id
             /\ "state" \in DOMAIN row => (row.open <=> row.state \in {"Open", "CannotSupplyFlow"})
  <2>1. CASE \E e \in Elems(Nodes(net) \o Links(net)) : row = PlainRow(e)
    BY <2>1 DEF PlainRow
  <2>2. CASE \E e \in IdSet(net.pumps), status \in PumpStatuses :
               row = PumpRow(e, IsOpen(status), PumpState(status))
    <3>1. PICK e \in IdSet(net.pumps), status \in PumpStatuses :
            row = PumpRow(e, IsOpen(status), PumpState(status))
      BY <2>2
    <3>2. IsOpen(status) <=> PumpState(status) \in {"Open", "CannotSupplyFlow"}
      BY DEF IsOpen, PumpState, PumpStatuses
    <3>3. row.of = row.id /\ row.open = IsOpen(status) /\ row.state = PumpState(status)
      BY <3>1 DEF PumpRow
    <3>4. QED
      BY <3>2, <3>3
  <2>3. QED
    BY <2>1, <2>2 DEF Row
<1>4. answer # "unresolved"
  BY DEF ReadersInv
<1>5. answer = "read" => Ids(rows) = Nodes(net) \o Links(net) /\ event.entity = event.meant
  <2> SUFFICES ASSUME answer = "read"
               PROVE  Ids(rows) = Nodes(net) \o Links(net) /\ event.entity = event.meant
    OBVIOUS
  <2>1. reading # "nothing" /\ unread = <<>> /\ event.entity = event.meant
    BY DEF ReadersInv
  <2>2. Ids(rows) \o <<>> = Nodes(net) \o Links(net)
    BY <2>1 DEF ReadersInv
  <2> DEFINE a == Ids(rows)
             I == {r.id : r \in Row}
  <2>3. a \in Seq(I)
    <3>1. a = [k \in 1 .. Len(rows) |-> rows[k].id] /\ Len(rows) \in Nat
      BY <1>1 DEF Ids
    <3>2. \A k \in 1 .. Len(rows) : rows[k].id \in I
      BY <1>1
    <3> HIDE DEF a, I
    <3>3. QED
      BY <3>1, <3>2
  <2> HIDE DEF a, I
  <2>4. a \o <<>> = a
    BY <2>3
  <2>5. QED
    BY <2>1, <2>2, <2>4 DEF a
<1>6. QED
  BY <1>2, <1>3, <1>4, <1>5 DEF ResultsAreOwn

-----------------------------------------------------------------------------
(* The theorems.                                                           *)

(* The invariant of the build, and of the readers on top of it.            *)
THEOREM BuildIsInvariant == ReadersSpec => [](IInv /\ ReadersInv)
<1>1. ReadersInit => IInv /\ ReadersInv
  BY ReadersBegin
<1>2. IInv /\ ReadersInv /\ [ReadersNext]_<<vars, readerVars>> => IInv' /\ ReadersInv'
  BY ReadersStep
<1>3. QED
  BY <1>1, <1>2, PTL DEF ReadersSpec

(* build() only reports success for a project that holds every entity,     *)
(* with an index for each, and whose objects refer to what the network     *)
(* says: no reference to index 0 or to a half-made object survives.        *)
THEOREM BuildIsComplete == ReadersSpec => []SuccessIsComplete
BY BuildIsInvariant, CompleteWhenSuccessful, PTL

(* Every entity that is not as it should be has an error of its own, and   *)
(* first_failure is the first of them (collectBuildFailure).               *)
THEOREM BuildReportsFailures == ReadersSpec => []FailuresAreReported
BY BuildIsInvariant, ReportedWhenFailed, PTL

(* The private pattern keeps the default demand pattern away from exactly  *)
(* the constant demands, and no pattern of the network is taken for it     *)
(* (__AOWIS_CONSTANT and its successors).                                  *)
THEOREM ConstantDemandsStay == ReadersSpec => []DemandsStayConstant
BY BuildIsInvariant, ConstantWhenSuccessful, PTL

(* A row of a result was read from the object it is about, no index is     *)
(* missing, and a tank or control event names the entity EPANET meant, in  *)
(* every project that was built (EpanetResultReader and                    *)
(* EpanetQualityResultReader).                                             *)
THEOREM ResultsAreRead == ReadersSpec => []ResultsAreOwn
<1>1. IInv /\ ReadersInv => ResultsAreOwn
  BY ReadResultsAreOwn
<1>2. QED
  BY <1>1, BuildIsInvariant, PTL
=============================================================================
