---------------------------- MODULE ResultReaders ----------------------------
(***************************************************************************)
(* EpanetResultReader::read and EpanetQualityResultReader::read, composed  *)
(* with the build that leaves them the index registry: a result is a row   *)
(* for every node and link of the network, in its order, and for the       *)
(* hydraulics the event that ends the time step.  All values of a row are  *)
(* read under one index, so a row stands for the object of the toolkit it  *)
(* was read from; it is appended when the last of its values was read.     *)
(* A value that cannot be read ends the reading.                           *)
(***************************************************************************)
EXTENDS NetworkBuilder

VARIABLES
    reading,    (* what is read: "nothing", "hydraulics" or "quality"      *)
    answer,     (* "open", "read", "failed", or "unresolved" for an entity *)
    unread,     (* the nodes and links that have still to be read          *)
    rows,       (* the result                                              *)
    event       (* event_next: its type, its entity and what EPANET meant  *)

readerVars == <<reading, answer, unread, rows, event>>

NoEvent == [type |-> "none", entity |-> NoRef, meant |-> NoRef]

ReadersInit ==
    /\ Init
    /\ reading = "nothing" /\ answer = "open"
    /\ unread = <<>> /\ rows = <<>>
    /\ event = NoEvent

-----------------------------------------------------------------------------

(* EN_getnodevalue and EN_getlinkvalue know an object by its index alone.  *)
Objects(e) == IF e \in Elems(Nodes(net)) THEN tk.nodes ELSE tk.links

(* Only a project that was built without a failure is simulated.           *)
StartReading ==
    /\ Done /\ first = NoRef /\ reading = "nothing"
    /\ reading' \in {"hydraulics", "quality"}
    /\ unread' = Nodes(net) \o Links(net)
    /\ UNCHANGED <<vars, answer, rows, event>>

Known(e) == Registered(e) /\ reg[e] \in DOMAIN Objects(e)

Unresolved ==
    /\ answer' = "unresolved"
    /\ UNCHANGED <<rows, unread>>

Appended(row) ==
    /\ rows' = Append(rows, row)
    /\ unread' = Tail(unread)
    /\ UNCHANGED answer

Reads(kind, e) == answer = "open" /\ reading = kind /\ unread # <<>> /\ Head(unread) = e

RowOf(e) == IF Known(e) THEN Appended([id |-> e, of |-> Objects(e)[reg[e]]]) ELSE Unresolved

(* A turn of the loops of readNodesJunctions, readNodesReservoirs and      *)
(* readNodesTanks: a missing index ends the reading.                       *)
ReadNode ==
    /\ \E e \in Elems(Nodes(net)) : Reads("hydraulics", e) /\ RowOf(e)
    /\ UNCHANGED <<vars, reading, event>>

(* readLinksPipes and readLinksValves                                      *)
ReadPipeOrValve ==
    /\ \E e \in Elems(Links(net)) \ IdSet(net.pumps) : Reads("hydraulics", e) /\ RowOf(e)
    /\ UNCHANGED <<vars, reading, event>>

(* All loops of the quality reader                                         *)
ReadQuality ==
    /\ \E e \in Elems(Nodes(net) \o Links(net)) : Reads("quality", e) /\ RowOf(e)
    /\ UNCHANGED <<vars, reading, event>>

(* What EPANET keeps of a pump, the temporarily closed one included, which *)
(* the public values of EN_PUMP_STATE leave out, and EN_STATUS of it.      *)
PumpStatuses == {"XHEAD", "TEMPCLOSED", "CLOSED", "OPEN", "XFLOW"}
IsOpen(status) == status \in {"OPEN", "XFLOW"}

(* resolvePumpState                                                        *)
PumpState(status) ==
    CASE status = "XHEAD" -> "CannotSupplyHead"
      [] status \in {"TEMPCLOSED", "CLOSED"} -> "Closed"
      [] status = "OPEN" -> "Open"
      [] status = "XFLOW" -> "CannotSupplyFlow"
      [] OTHER -> "unknown"

(* readLinksPumps: an unknown state ends the reading.                      *)
ReadPump ==
    /\ \E e \in IdSet(net.pumps), status \in PumpStatuses :
          /\ Reads("hydraulics", e)
          /\ IF Known(e) /\ PumpState(status) # "unknown"
               THEN Appended([id |-> e, of |-> Objects(e)[reg[e]],
                              open |-> IsOpen(status), state |-> PumpState(status)])
               ELSE Unresolved
    /\ UNCHANGED <<vars, reading, event>>

(* Any value, statistic or event; nothing more is read then.               *)
FailReading ==
    /\ reading # "nothing" /\ answer = "open"
    /\ faults < MaxFaults /\ faults' = faults + 1
    /\ answer' = "failed"
    /\ UNCHANGED <<net, todo, tk, uses, reg, constantId, first, diags, built>>
    /\ UNCHANGED <<reading, unread, rows, event>>

(* Mutant of KeyOf: one hash for the indices of all kinds.                 *)
KeyOfAnyKind(ids, i) ==
    LET keys == {e \in DOMAIN reg : reg[e] = i}
    IN  IF keys = {} THEN NoRef ELSE CHOOSE e \in keys : TRUE

(* QHash::key: an entity of the kind that has the index                    *)
KeyOf(ids, i) ==
    LET keys == {e \in ids \intersect DOMAIN reg : reg[e] = i}
    IN  IF keys = {} THEN NoRef ELSE CHOOSE e \in keys : TRUE

EventOf(type, ids, objects, i) == [type |-> type, entity |-> KeyOf(ids, i), meant |-> objects[i]]

(* EN_timetonextevent: a tank is an index of a node, a control one of its  *)
(* own kind.                                                               *)
NextEvents ==
    {[NoEvent EXCEPT !.type = t] : t \in {"ReportStep", "HydraulicStep", "QualityStep"}}
    \union {EventOf("TankEvent", IdSet(net.tanks), tk.nodes, i) :
               i \in {k \in DOMAIN tk.nodes : tk.nodes[k] \in IdSet(net.tanks)}}
    \union {EventOf("ControlEvent", IdSet(net.controls), tk.controls, i) : i \in DOMAIN tk.controls}

ReadNextEvent ==
    /\ reading = "hydraulics" /\ answer = "open" /\ unread = <<>>
    /\ event' \in NextEvents
    /\ answer' = IF event'.type \in {"TankEvent", "ControlEvent"} /\ event'.entity = NoRef
                   THEN "unresolved" ELSE "read"
    /\ UNCHANGED <<vars, reading, unread, rows>>

(* readStatistics of the quality reader, its last call                     *)
ReadMassBalance ==
    /\ reading = "quality" /\ answer = "open" /\ unread = <<>>
    /\ answer' = "read"
    /\ UNCHANGED <<vars, reading, unread, rows, event>>

ReadersNext ==
    \/ Next /\ UNCHANGED readerVars
    \/ StartReading \/ ReadNode \/ ReadPipeOrValve \/ ReadPump \/ ReadQuality
    \/ FailReading \/ ReadNextEvent \/ ReadMassBalance

ReadersSpec == ReadersInit /\ [][ReadersNext]_<<vars, readerVars>>

-----------------------------------------------------------------------------
(* Properties. *)

(* What a result says of a node or link was read from that very object of  *)
(* the toolkit, and the tank or control it names is the one EPANET meant,  *)
(* though only indices connect them, taken when the project was built; no  *)
(* entity of a built project lacks one, no state EPANET can give a pump is *)
(* unknown or contradicts its being open, and a result that was read has   *)
(* all nodes and links in order (epanet_result_reader.cpp:69-603).         *)
ResultsAreOwn ==
    /\ \A k \in DOMAIN rows : rows[k].of = rows[k].id
    /\ answer # "unresolved"
    /\ \A k \in {i \in DOMAIN rows : "state" \in DOMAIN rows[i]} :
          rows[k].open <=> rows[k].state \in {"Open", "CannotSupplyFlow"}
    /\ answer = "read" => /\ Ids(rows) = Nodes(net) \o Links(net)
                          /\ event.entity = event.meant
=============================================================================
