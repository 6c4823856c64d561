------------------------------- MODULE Layout -------------------------------
(***************************************************************************)
(* The force-directed graph (frontend/src/graph.rs): LayoutState with sync *)
(* and step, and the gestures of the mouse.                                *)
(*                                                                         *)
(* The state outlives renders: sync merges a topology into the nodes there *)
(* are.  Forces are left out: a step moves a node that is not held to any  *)
(* of Spots, and one that is held to the cursor.  A new node starts at the *)
(* place its id is hashed to, which is none of those.  The elements on the *)
(* screen, whose handlers a press calls, are those of the last render,     *)
(* which sync may already have overtaken.  Zoom and the position of the    *)
(* view are floating-point arithmetic and left out.                        *)
(***************************************************************************)
EXTENDS TopologyView

CONSTANTS
    Cursors,            \* where the cursor may be
    Spots,              \* where the forces may take a node
    Seed,               \* where a node starts
    NoPin

ASSUME LayoutAssumption == Seed \notin Spots \cup Cursors

VARIABLES
    nodes,              \* LayoutState.nodes
    edges,              \* LayoutState.edges
    pinned,             \* LayoutState.pinned
    panning,            \* DragState.active
    button,             \* whether the primary button is down
    shown               \* ids of the circles on the screen

mouse == <<pinned, panning, button>>
layoutVars == <<nodes, edges, mouse, shown>>

(***************************************************************************)
(* Labels.  What a label shows is a sequence of parts: gateways' names and *)
(* names of known nodes, or the address of a mere peer.                    *)
(***************************************************************************)
Part(kind, name, publisher, address) ==
    [kind |-> kind, name |-> name, publisher |-> publisher, address |-> address]

GatewayPart(label) == Part("gateway", label.name, label.publisher, NoAddress)

AddressPart(a) == Part("address", None, NoPublisher, a)

KnownPart(kn) == Part("known", kn.name, NoPublisher, kn.address)

Within(s, t) == \E i \in 1 .. Len(t) - Len(s) + 1 : SubSeq(t, i, i + Len(s) - 1) = s

(* n.label.contains(..), of a gateway's whole name and of a known name.    *)
ShowsGateway(n, label) == GatewayPart(label) \in {n.label[i] : i \in DOMAIN n.label}

ShowsName(n, name) == \E i \in DOMAIN n.label : Within(name, n.label[i].name)

NewNode(part, isGateway) ==
    [label |-> <<part>>, isGateway |-> isGateway, isPublic |-> FALSE, seen |-> 0, at |-> Seed]

(* BTreeMap: entry(id).and_modify(..).or_insert(..)                        *)
Upsert(f, id, old, new) ==
    [i \in DOMAIN f \cup {id} |-> IF i # id THEN f[i] ELSE IF id \in DOMAIN f THEN old ELSE new]

-----------------------------------------------------------------------------
SyncPeer(f, peer) ==
    LET id == Addressed(peer.address)
        n == f[id]
    IN  Upsert(f, id, [n EXCEPT !.isGateway = @ \/ peer.isGateway],
               NewNode(AddressPart(peer.address), peer.isGateway))

(* Mutated: a report puts the gateway's node, unless it is held, back to   *)
(* where nodes start.                                                      *)
SyncOwnReseeds(f, g) ==
    LET id == GatewayId(g)
        n == f[id]
    IN  Upsert(f, id,
               [n EXCEPT !.isGateway = TRUE, !.seen = Max({@, g.seen}),
                         !.label = IF ShowsGateway(n, g.label) THEN @
                                   ELSE Append(@, GatewayPart(g.label)),
                         !.at = IF @ \in Spots THEN Seed ELSE @],
               [NewNode(GatewayPart(g.label), TRUE) EXCEPT !.seen = g.seen])

(* Mutated: names are appended whether they are there or not.              *)
SyncOwnAppends(f, g) ==
    LET id == GatewayId(g)
        n == f[id]
    IN  Upsert(f, id,
               [n EXCEPT !.isGateway = TRUE, !.seen = Max({@, g.seen}),
                         !.label = Append(@, GatewayPart(g.label))],
               [NewNode(GatewayPart(g.label), TRUE) EXCEPT !.seen = g.seen])

SyncOwn(f, g) ==
    LET id == GatewayId(g)
        n == f[id]
    IN  Upsert(f, id,
               [n EXCEPT !.isGateway = TRUE, !.seen = Max({@, g.seen}),
                         !.label = IF ShowsGateway(n, g.label) THEN @
                                   ELSE Append(@, GatewayPart(g.label))],
               [NewNode(GatewayPart(g.label), TRUE) EXCEPT !.seen = g.seen])

SyncGateway(f, g) ==
    LET upTo[i \in 0 .. Len(g.peers)] ==
            IF i = 0 THEN SyncOwn(f, g) ELSE SyncPeer(upTo[i - 1], g.peers[i])
    IN  upTo[Len(g.peers)]

SyncGateways(f) ==
    LET upTo[i \in 0 .. Len(gateways)] ==
            IF i = 0 THEN f ELSE SyncGateway(upTo[i - 1], gateways[i])
    IN  upTo[Len(gateways)]

(* Mutated: a known node is public, but no gateway.                        *)
SyncKnownPublicOnly(f, kn) ==
    LET id == Addressed(kn.address)
        n == f[id]
    IN  Upsert(f, id,
               [n EXCEPT !.isPublic = TRUE,
                         !.label = IF ShowsName(n, kn.name) THEN @ ELSE <<KnownPart(kn)>>],
               [NewNode(KnownPart(kn), FALSE) EXCEPT !.isPublic = TRUE])

SyncKnown(f, kn) ==
    LET id == Addressed(kn.address)
        n == f[id]
    IN  Upsert(f, id,
               [n EXCEPT !.isGateway = TRUE, !.isPublic = TRUE,
                         !.label = IF ShowsName(n, kn.name) THEN @ ELSE <<KnownPart(kn)>>],
               [NewNode(KnownPart(kn), TRUE) EXCEPT !.isPublic = TRUE])

SyncAllKnown(f) ==
    LET upTo[i \in 0 .. Len(known)] ==
            IF i = 0 THEN f ELSE SyncKnown(upTo[i - 1], known[i])
    IN  upTo[Len(known)]

(* new_ids, the ids that sync itself comes across.                         *)
(* Mutated: those of the known nodes are not noted.                        *)
NewIdsUnknown ==
    UNION {{GatewayId(g)} \cup {Addressed(peer.address) : peer \in Range(g.peers)} : g \in Gateways}

NewIds ==
    {Addressed(kn.address) : kn \in Range(known)} \cup
    UNION {{GatewayId(g)} \cup {Addressed(peer.address) : peer \in Range(g.peers)} : g \in Gateways}

Retain(f) == [id \in DOMAIN f \cap NewIds |-> f[id]]

Synced(f) == Retain(SyncAllKnown(SyncGateways(f)))

(* An edge is kept once, under either of its directions.                   *)
Edges == {{GatewayId(g), id} : g \in Gateways, id \in NodeIds}
Linked == {e \in Edges : \E g \in Gateways : \E id \in PeerIds(g) : e = {GatewayId(g), id}}

Sync ==
    /\ nodes' = Synced(nodes)
    /\ edges' = Linked
    /\ pinned' = IF pinned # NoPin /\ pinned.id \notin DOMAIN nodes' THEN NoPin ELSE pinned
    /\ shown' = DOMAIN nodes
    /\ UNCHANGED <<panning, button>>

-----------------------------------------------------------------------------
(* The interval: step, and a render.                                       *)
Tick ==
    /\ \E spot \in [DOMAIN nodes -> Spots] :
          nodes' = [id \in DOMAIN nodes |->
                       [nodes[id] EXCEPT !.at = IF pinned # NoPin /\ pinned.id = id
                                                THEN pinned.cursor ELSE spot[id]]]
    /\ shown' = DOMAIN nodes
    /\ UNCHANGED <<edges, mouse>>

(* Mutated: the press on a node goes on to the background too. *)
PressBubbles(id, c) ==
    /\ ~button /\ id \in shown
    /\ button' = TRUE
    /\ pinned' = [id |-> id, cursor |-> c]
    /\ panning' = TRUE
    /\ UNCHANGED <<nodes, edges, shown>>

PressNode(id, c) ==
    /\ ~button /\ id \in shown
    /\ button' = TRUE
    /\ pinned' = [id |-> id, cursor |-> c]
    /\ UNCHANGED <<nodes, edges, panning, shown>>

PressBackground ==
    /\ ~button
    /\ button' = TRUE /\ panning' = TRUE
    /\ UNCHANGED <<nodes, edges, pinned, shown>>

Move(c) ==
    /\ pinned # NoPin
    /\ pinned' = [pinned EXCEPT !.cursor = c]
    /\ UNCHANGED <<nodes, edges, panning, button, shown>>

(* onmouseup, and onmouseleave with the button down.                       *)
Release ==
    /\ button
    /\ button' = FALSE /\ panning' = FALSE /\ pinned' = NoPin
    /\ UNCHANGED <<nodes, edges, shown>>

Gesture ==
    \/ \E id \in shown, c \in Cursors : PressNode(id, c)
    \/ PressBackground
    \/ \E c \in Cursors : Move(c)
    \/ Release

LayoutInit ==
    /\ nodes = <<>> /\ edges = {}
    /\ pinned = NoPin /\ panning = FALSE /\ button = FALSE
    /\ shown = {}
=============================================================================
