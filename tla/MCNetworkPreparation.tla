------------------------ MODULE MCNetworkPreparation ------------------------
(* Two junctions, a reservoir and a pipe, any of them disabled; up to two  *)
(* demand points, attached in every way.                                   *)
EXTENDS NetworkPreparation

CONSTANTS a, b, r, p, q, unknown

Amount(category, mode, pattern, amount) ==
    [category |-> category, mode |-> mode, pattern |-> pattern, amount |-> amount]

MCDemands == {
    <<Amount("c", "Constant", Null, 2)>>,
    <<Amount("c", "Constant", q, 4), Amount("c", "TimePattern", q, 2)>>,
    <<Amount("d", "TimePattern", unknown, 2)>>,
    <<Amount("c", "Constant", Null, -4)>>,
    <<>>}

MCAttachments ==
    LET pipe == [type |-> "Pipe", junction |-> Null, pipe |-> p, position |-> 1,
                 mode |-> "InterpolateByPosition", assigned |-> Null]
    IN  {[pipe EXCEPT !.position = at] : at \in 0 .. 3}
        \union {[pipe EXCEPT !.mode = "AssignedJunction", !.assigned = j] : j \in {a, r, Null}}
        \union {[pipe EXCEPT !.type = "Junction", !.junction = j] : j \in {a, unknown}}
        \union {[pipe EXCEPT !.type = "None"]}

MCPoints ==
    {[enabled |-> TRUE, at |-> at, demands |-> ds] : at \in MCAttachments, ds \in MCDemands \ {<<>>}}
    \union {[enabled |-> FALSE, at |-> at, demands |-> ds] :
              at \in {x \in MCAttachments : x.type = "None"}, ds \in MCDemands \ {<<>>}}

MCSelections == [nodes : {[mode |-> "Selected", of |-> s] : s \in {{a}, {b, unknown}}},
                 links : {[mode |-> "All", of |-> {}], [mode |-> "Selected", of |-> {p}]}]

Family(enabled, roughness, points, selections) ==
    [nodes : {{a, b, r}}, pipes : {{p}}, enabled : enabled,
     ends : {[x \in {p} |-> [from |-> a, to |-> y]] : y \in {b, r}},
     roughness : [{p} -> roughness],
     demands : {[j \in {a, b} |-> IF j = a THEN ds ELSE <<>>] : ds \in MCDemands},
     points : points, selections : selections]

(* Everything with one demand point; two where everything is enabled, or   *)
(* all but the reservoir.                                                  *)
MCRequests ==
    Family(SUBSET {a, b, r, p}, {"Direct", "Library", "Unknown"},
           UNION {[1 .. n -> MCPoints] : n \in 0 .. 1}, MCSelections)
    \union Family({{a, b, r, p}, {a, b, p}}, {"Library"}, [1 .. 2 -> MCPoints],
                  [nodes : {[mode |-> "All", of |-> {}]}, links : {[mode |-> "All", of |-> {}]}])
=============================================================================
