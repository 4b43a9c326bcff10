------------------------- MODULE NetworkPreparation -------------------------
(***************************************************************************)
(* prepareEpanetNetwork: from the network of a request to the network that *)
(* is given to the builder.  The roughness of pipes comes from the library *)
(* of materials, the network is validated, what is disabled is left out,   *)
(* the demand points become demands of junctions                           *)
(* (buildHydraulicNodeDemandProjection), the outcome is validated once     *)
(* more, and the report selections lose what is disabled.                  *)
(*                                                                         *)
(* Entities stand for their UUIDs, which validation shows to be unique.    *)
(* Of the validation the model has the references of pipes and demands,    *)
(* and that demands are finite; the rest does not depend on the steps      *)
(* here.  Amounts are integers, in units that make every fraction exact.   *)
(***************************************************************************)
EXTENDS Integers, Sequences, FiniteSets, SequencesExt

CONSTANTS
    Uuids,
    Junctions, Reservoirs, Pipes,   (* reservoirs stand for tanks as well  *)
    Patterns,
    Null,       (* the null UUID                                           *)
    Categories, (* of demands                                              *)
    Whole,      (* the parts a pipe is divided into                        *)
    Limit,      (* bounds the amounts that are finite                      *)
    Requests    (* the requests considered                                 *)

Nodes == Junctions \union Reservoirs

Demand == [category : Categories, mode : {"Constant", "TimePattern"}, pattern : Uuids,
           amount : Int]
Attachment == [type : {"None", "Junction", "Pipe"}, junction : Uuids, pipe : Uuids,
               position : Int, mode : {"InterpolateByPosition", "AssignedJunction"},
               assigned : Uuids]
Point == [enabled : BOOLEAN, at : Attachment, demands : Seq(Demand)]
Selection == [mode : {"None", "All", "Selected"}, of : SUBSET Uuids]

Request ==
    [nodes : SUBSET Nodes, pipes : SUBSET Pipes, enabled : SUBSET Uuids,
     ends : [Pipes -> [from : Uuids, to : Uuids]],
     roughness : [Pipes -> {"Direct", "Library", "Unknown"}],
     demands : [Junctions -> Seq(Demand)], points : Seq(Point),
     selections : [nodes : Selection, links : Selection]]

ASSUME WholeAssumption == Whole \in Nat \ {0}
ASSUME LimitAssumption == Limit \in Nat
ASSUME JunctionsAssumption == IsFiniteSet(Junctions)
ASSUME RequestsAssumption == Requests \subseteq Request

(* The units: a part of a pipe has a whole number of them.                 *)
ASSUME UnitsAssumption ==
    \A rq \in Requests : \A k \in DOMAIN rq.points : LET point == rq.points[k] IN
        \A i \in DOMAIN point.demands :
            LET parts == point.demands[i].amount * point.at.position
            IN  Whole * (parts \div Whole) = parts

VARIABLES
    pc,
    request,
    network,    (* resolved_source, then enabled_network, then prepared    *)
    index,      (* the demand point that is next                           *)
    failures    (* what validation_failures is about                       *)

vars == <<pc, request, network, index, failures>>

Finite(amount) == amount \in -Limit .. Limit

(* Sums of doubles: what is not finite stays so.                           *)
Plus(a, b) == IF Finite(a) /\ Finite(b) /\ Finite(a + b) THEN a + b ELSE Limit + 1

Init ==
    /\ pc = "resolve"
    /\ request \in Requests
    /\ network = request
    /\ index = 1
    /\ failures = {}

Fail(reason) ==
    /\ pc' = "failed"
    /\ failures' = failures \union {reason}

-----------------------------------------------------------------------------
(* A pipe's roughness is its own ("Direct"), or to be found in the library *)
(* ("Library", or "Unknown" if the material, the date or the value is      *)
(* missing), or has been found ("Resolved").                               *)

(* Mutant of EnabledPipes: disabled pipes need their material as well.     *)
PipesOfAnyKind == network.pipes

EnabledPipes == network.pipes \intersect network.enabled

ResolveRoughness ==
    /\ pc = "resolve"
    /\ \/ /\ \E p \in EnabledPipes : network.roughness[p] = "Unknown"
          /\ Fail("material")
          /\ UNCHANGED network
       \/ /\ \A p \in EnabledPipes : network.roughness[p] # "Unknown"
          /\ pc' = "validate"
          /\ network' = [network EXCEPT !.roughness = [p \in DOMAIN @ |->
               IF p \in EnabledPipes /\ @[p] = "Library" THEN "Resolved" ELSE @[p]]]
          /\ UNCHANGED failures
    /\ UNCHANGED <<request, index>>

DemandIsValid(d) ==
    /\ Finite(d.amount)
    /\ d.mode = "TimePattern" => d.pattern \in Patterns \union {Null}

(* validateEpanetNetwork: only what is enabled is looked at.               *)
NetworkIsValid(net) ==
    /\ \A p \in net.pipes \intersect net.enabled :
          {net.ends[p].from, net.ends[p].to} \subseteq net.nodes \intersect net.enabled
    /\ \A j \in net.nodes \intersect net.enabled \intersect Junctions :
          \A i \in DOMAIN net.demands[j] : DemandIsValid(net.demands[j][i])

Validate ==
    /\ pc = "validate"
    /\ \/ NetworkIsValid(network) /\ pc' = "enable" /\ UNCHANGED failures
       \/ ~NetworkIsValid(network) /\ Fail("network")
    /\ UNCHANGED <<request, network, index>>

(* enabledEntities, of each list of the network                            *)
EnabledPoints(points) ==
    LET kept[n \in 0 .. Len(points)] ==
          IF n = 0 THEN <<>>
          ELSE IF points[n].enabled THEN Append(kept[n - 1], points[n]) ELSE kept[n - 1]
    IN  kept[Len(points)]

KeepEnabled(net) ==
    [net EXCEPT !.nodes = @ \intersect net.enabled, !.pipes = @ \intersect net.enabled,
                !.points = EnabledPoints(@)]

KeepWhatIsEnabled ==
    /\ pc = "enable"
    /\ pc' = "project"
    /\ network' = KeepEnabled(network)
    /\ UNCHANGED <<request, index, failures>>

-----------------------------------------------------------------------------
(* The projection of the demand points. *)

(* Mutant of Shares: the position is measured from the other end.          *)
SharesFromTheOtherEnd(at) ==
    IF at.type = "Junction" THEN <<[to |-> at.junction, parts |-> Whole]>>
    ELSE IF at.mode = "AssignedJunction" THEN <<[to |-> at.assigned, parts |-> Whole]>>
    ELSE <<[to |-> network.ends[at.pipe].from, parts |-> at.position],
           [to |-> network.ends[at.pipe].to,   parts |-> Whole - at.position]>>

(* Which junctions take the demands of a point, and how many parts.        *)
Shares(at) ==
    IF at.type = "Junction" THEN <<[to |-> at.junction, parts |-> Whole]>>
    ELSE IF at.mode = "AssignedJunction" THEN <<[to |-> at.assigned, parts |-> Whole]>>
    ELSE <<[to |-> network.ends[at.pipe].from, parts |-> Whole - at.position],
           [to |-> network.ends[at.pipe].to,   parts |-> at.position]>>

JunctionsHere == network.nodes \intersect Junctions

AttachmentIsValid(at) ==
    /\ at.type # "None"
    /\ at.type = "Pipe" =>
         /\ at.position \in 0 .. Whole
         /\ at.pipe \in network.pipes
         /\ LET ends == {network.ends[at.pipe].from, network.ends[at.pipe].to} IN
            IF at.mode = "AssignedJunction" THEN at.assigned \in ends
            ELSE ends \subseteq JunctionsHere

(* appendScaledDemands: a share of no part is not looked at.               *)
ShareIsValid(share, demands) ==
    share.parts # 0 =>
        /\ share.to \in JunctionsHere
        /\ \A i \in DOMAIN demands : Finite(demands[i].amount)

Scaled(demands, share) ==
    [i \in DOMAIN demands |-> [demands[i] EXCEPT !.amount = (@ * share.parts) \div Whole]]

(* What the junction j gets of a point's demands.                          *)
Received(j, point) ==
    LET shares  == Shares(point.at)
        Part(k) == IF k \in DOMAIN shares /\ shares[k].to = j /\ shares[k].parts # 0
                   THEN Scaled(point.demands, shares[k]) ELSE <<>>
    IN  Part(1) \o Part(2)

PointIsValid(point) ==
    /\ AttachmentIsValid(point.at)
    /\ \A k \in DOMAIN Shares(point.at) : ShareIsValid(Shares(point.at)[k], point.demands)

ProjectPoint ==
    /\ pc = "project"
    /\ index \in DOMAIN network.points
    /\ LET point == network.points[index] IN
       \/ /\ point.enabled /\ point.demands # <<>> /\ ~PointIsValid(point)
          /\ Fail("demand point")
          /\ UNCHANGED <<network, index>>
       \/ /\ point.enabled /\ point.demands # <<>> => PointIsValid(point)
          /\ index' = index + 1
          /\ network' = IF ~point.enabled \/ point.demands = <<>> THEN network
                        ELSE [network EXCEPT !.demands =
                               [j \in Junctions |-> @[j] \o Received(j, point)]]
          /\ UNCHANGED <<pc, failures>>
    /\ UNCHANGED request

(* demandProjectionKeyMatches: the pattern of a constant demand is idle.   *)
Matches(d, e) ==
    /\ d.category = e.category /\ d.mode = e.mode
    /\ d.mode = "Constant" \/ d.pattern = e.pattern

(* Adds d to the first demand after the junction's own that it matches.    *)
Merged(done, d, own) ==
    LET same == {i \in own + 1 .. Len(done) : Matches(done[i], d)} IN
    IF same = {} THEN Append(done, d) ELSE [done EXCEPT ![Min(same)].amount = Plus(@, d.amount)]

(* Mutant of Compacted: the junction's own demands are merged as well.     *)
CompactedThroughout(list, own) ==
    LET done[n \in 0 .. Len(list)] == IF n = 0 THEN <<>> ELSE Merged(done[n - 1], list[n], 0)
    IN  done[Len(list)]

(* aggregateProjectedDemands: what follows the junction's own demands.     *)
Compacted(list, own) ==
    LET done[n \in own .. Len(list)] ==
          IF n = own THEN SubSeq(list, 1, own) ELSE Merged(done[n - 1], list[n], own)
    IN  IF Len(list) <= own + 1 THEN list ELSE done[Len(list)]

Aggregate ==
    /\ pc = "project"
    /\ index = Len(network.points) + 1
    /\ LET demands == [j \in Junctions |->
                IF j \in JunctionsHere THEN Compacted(network.demands[j], Len(request.demands[j]))
                ELSE network.demands[j]]
       IN  \/ /\ \E j \in JunctionsHere : \E i \in DOMAIN demands[j] : ~Finite(demands[j][i].amount)
              /\ Fail("overflow")
              /\ UNCHANGED network
           \/ /\ \A j \in JunctionsHere : \A i \in DOMAIN demands[j] : Finite(demands[j][i].amount)
              /\ pc' = "revalidate"
              /\ network' = [network EXCEPT !.demands = demands, !.points = <<>>]
              /\ UNCHANGED failures
    /\ UNCHANGED <<request, index>>

Revalidate ==
    /\ pc = "revalidate"
    /\ \/ NetworkIsValid(network) /\ pc' = "reports" /\ UNCHANGED failures
       \/ ~NetworkIsValid(network) /\ Fail("projected network")
    /\ UNCHANGED <<request, network, index>>

-----------------------------------------------------------------------------
(* Mutant of Trimmed: a selection of nothing stays a selection.            *)
TrimmedOnly(selection, all, enabled) ==
    IF selection.mode # "Selected" THEN selection
    ELSE [selection EXCEPT !.of = (@ \ all) \union (@ \intersect enabled)]

(* removeDisabledReportSelections: what the network never had is kept.     *)
Trimmed(selection, all, enabled) ==
    IF selection.mode # "Selected" THEN selection
    ELSE LET kept == (selection.of \ all) \union (selection.of \intersect enabled) IN
         [mode |-> IF kept = {} THEN "None" ELSE "Selected", of |-> kept]

TrimSelections ==
    /\ pc = "reports"
    /\ pc' = "prepared"
    /\ network' = [network EXCEPT
         !.selections.nodes = Trimmed(@, request.nodes, network.nodes),
         !.selections.links = Trimmed(@, request.pipes, network.pipes)]
    /\ UNCHANGED <<request, index, failures>>

Next ==
    \/ ResolveRoughness \/ Validate \/ KeepWhatIsEnabled
    \/ ProjectPoint \/ Aggregate \/ Revalidate \/ TrimSelections

Spec == Init /\ [][Next]_vars

-----------------------------------------------------------------------------
(* Properties. *)

(* The sum of a sequence of integers.                                      *)
Total(s) ==
    LET sum[n \in 0 .. Len(s)] == IF n = 0 THEN 0 ELSE sum[n - 1] + s[n]
    IN  sum[Len(s)]

(* What a list has of the category and pattern of a demand.                *)
SumOf(list, key) ==
    Total([i \in DOMAIN list |-> IF Matches(list[i], key) THEN list[i].amount ELSE 0])

EnabledJunctions == request.nodes \intersect request.enabled \intersect Junctions

IsActive(point) == point.enabled /\ point.demands # <<>>

ActivePoints == {i \in DOMAIN request.points : IsActive(request.points[i])}

Keys ==
    UNION ({{request.demands[j][i] : i \in DOMAIN request.demands[j]} : j \in EnabledJunctions}
           \union {{request.points[k].demands[i] : i \in DOMAIN request.points[k].demands} :
                     k \in ActivePoints})

(* What a point attached as "at" is to contribute to the junction j.       *)
PartsFor(j, at) ==
    LET ends == request.ends[at.pipe] IN
    CASE at.type = "Junction"         -> IF j = at.junction THEN Whole ELSE 0
      [] at.type # "Junction" /\ at.mode = "AssignedJunction" ->
             IF j = at.assigned THEN Whole ELSE 0
      [] at.type # "Junction" /\ at.mode # "AssignedJunction" ->
             (IF j = ends.from THEN Whole - at.position ELSE 0)
             + (IF j = ends.to THEN at.position ELSE 0)

(* All demand of a kind: of the demand points, and of the junctions.       *)
PointsTotal(key) ==
    Total([k \in DOMAIN request.points |->
             IF k \in ActivePoints THEN SumOf(request.points[k].demands, key) ELSE 0])

JunctionsTotal(demands, key) ==
    LET order == SetToSeq(EnabledJunctions)
    IN  Total([i \in DOMAIN order |-> SumOf(demands[order[i]], key)])

(* The same of what the demand points would be without their signs: what   *)
(* cancels out in the end may overflow on the way.                         *)
Magnitude(amount) == IF amount < 0 THEN -amount ELSE amount

Magnitudes(list) == [i \in DOMAIN list |-> [list[i] EXCEPT !.amount = Magnitude(@)]]

PointsMagnitude(key) ==
    Total([k \in DOMAIN request.points |->
             IF k \in ActivePoints THEN SumOf(Magnitudes(request.points[k].demands), key) ELSE 0])

(* Every junction that is prepared has, in each category and pattern, its  *)
(* own demand and its share of every active demand point, and in total no  *)
(* demand of the request appears or disappears.                            *)
DemandConserved ==
    pc = "prepared" =>
        \A key \in Keys :
            /\ \A j \in EnabledJunctions :
                  Whole * SumOf(network.demands[j], key) =
                      Whole * SumOf(request.demands[j], key)
                      + Total([k \in DOMAIN request.points |->
                                 IF k \in ActivePoints
                                 THEN SumOf(request.points[k].demands, key)
                                      * PartsFor(j, request.points[k].at)
                                 ELSE 0])
            /\ JunctionsTotal(network.demands, key) =
                  JunctionsTotal(request.demands, key) + PointsTotal(key)

(* A junction's own demands come first, as they were: the first is its     *)
(* primary demand in EPANET.  The projected ones have one entry per        *)
(* category and pattern.                                                   *)
OwnDemandsFirst ==
    pc = "prepared" =>
        \A j \in EnabledJunctions :
            LET own == Len(request.demands[j]) IN
            /\ IsPrefix(request.demands[j], network.demands[j])
            /\ \A i, k \in own + 1 .. Len(network.demands[j]) :
                  Matches(network.demands[j][i], network.demands[j][k]) => i = k

NothingDisabled(selection, all) ==
    selection.mode = "Selected" =>
        selection.of # {} /\ selection.of \intersect (all \ request.enabled) = {}

(* The prepared network is closed: it has what is enabled and no more, the *)
(* ends of its pipes, the patterns of its demands and resolved roughness,  *)
(* no demand points, and its report selections name nothing disabled and   *)
(* are never selections of nothing.                                        *)
PreparedIsClosed ==
    pc = "prepared" =>
        /\ network.nodes = request.nodes \intersect request.enabled
        /\ network.pipes = request.pipes \intersect request.enabled
        /\ \A p \in network.pipes :
              /\ {network.ends[p].from, network.ends[p].to} \subseteq network.nodes
              /\ network.roughness[p] \in {"Direct", "Resolved"}
        /\ \A j \in network.nodes \intersect Junctions :
              \A i \in DOMAIN network.demands[j] : DemandIsValid(network.demands[j][i])
        /\ network.points = <<>>
        /\ NothingDisabled(network.selections.nodes, request.nodes)
        /\ NothingDisabled(network.selections.links, request.pipes)

PipeFails ==
    \E p \in request.pipes \intersect request.enabled :
        \/ request.roughness[p] = "Unknown"
        \/ ~({request.ends[p].from, request.ends[p].to} \subseteq request.nodes \intersect request.enabled)

DemandFails ==
    \E j \in EnabledJunctions : \E i \in DOMAIN request.demands[j] :
        ~DemandIsValid(request.demands[j][i])

PointFails ==
    \E k \in ActivePoints : LET point == request.points[k] IN
        \/ \E i \in DOMAIN point.demands : ~DemandIsValid(point.demands[i])
        \/ point.at.type = "None"
        \/ point.at.type = "Junction" /\ point.at.junction \notin EnabledJunctions
        \/ point.at.type = "Pipe" /\
              LET ends == {request.ends[point.at.pipe].from, request.ends[point.at.pipe].to} IN
              \/ point.at.pipe \notin request.pipes \intersect request.enabled
              \/ point.at.position \notin 0 .. Whole
              \/ IF point.at.mode = "AssignedJunction"
                 THEN point.at.assigned \notin ends \intersect EnabledJunctions
                 ELSE ~(ends \subseteq EnabledJunctions)

SumFails == \E key \in Keys : PointsMagnitude(key) > Limit

(* Of the checks modelled here, none fails for what is disabled: each      *)
(* failure has its cause in a part of the request that is enabled.         *)
OnlyEnabledPartsFail == pc = "failed" => PipeFails \/ DemandFails \/ PointFails \/ SumFails

=============================================================================
