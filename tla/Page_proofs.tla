----------------------------- MODULE Page_proofs -----------------------------
(***************************************************************************)
(* Proofs about the page, for any publishers, payloads and known nodes,    *)
(* and any number of them: the graph, which survives renders, shows the    *)
(* nodes of the list, moves none, and its labels come to rest; the mouse   *)
(* does one thing at a time; what a publisher says of a contract comes     *)
(* through the wire format; and the list of contracts, which two loops     *)
(* over hash maps put together, accounts for every contract and publisher  *)
(* once and shows what publishers that agree reported.                     *)
(*                                                                         *)
(* IInv is inductive by itself and is about the graph and what sync reads. *)
(* VInv, inductive together with it, is about the render: what the loops   *)
(* have made of the entries they have taken, and that the rows are made of *)
(* them.  ReadOk and Grouped, inductive on top of both, say what the rows  *)
(* say: what has been read of whom so far, and who is in which group.      *)
(* LabelsOk is for labels: each shows all names its node is given, or the  *)
(* known name that absorbs those after it, alone.                          *)
(***************************************************************************)
EXTENDS Page, NaturalSets, SequenceTheorems, FiniteSetTheorems

Names == [name : Text, publisher : Publishers]

GatewaySet ==
    [label : Names, address : Addresses \cup {NoAddress}, peers : Seq(PeerReport),
     contracts : SUBSET Keys, seen : Nat]

PartSet ==
    [kind : {"gateway", "known", "address"}, name : Text,
     publisher : Publishers \cup {NoPublisher}, address : Addresses \cup {NoAddress}]

Labels == Seq(PartSet) \ {<<>>}

Places == Cursors \cup Spots \cup {Seed}

NodeRecord ==
    [label : Labels, isGateway : BOOLEAN, isPublic : BOOLEAN, seen : Nat, at : Places]

NodeSet == {n \in NodeRecord : n.isPublic => n.isGateway}

NodeMaps == UNION {[D -> NodeSet] : D \in SUBSET Ids}

PinSet == [id : Ids, cursor : Cursors]

-----------------------------------------------------------------------------
(***************************************************************************)
(* The inductive invariant.                                                *)
(***************************************************************************)
Sound(payload) ==
    /\ payload.name \in Text
    /\ payload.address \in Addresses \cup {NoAddress}
    /\ payload.time \in Nat
    /\ payload.neighbors \in Seq(PeerReport)
    /\ \A i \in DOMAIN payload.contracts : payload.contracts[i].key \in Keys

InputOk ==
    /\ DOMAIN remote \subseteq Publishers
    /\ \A p \in DOMAIN remote : Sound(remote[p])
    /\ known \in Seq(KnownNode)
    /\ stage = "build" => todo \subseteq DOMAIN remote
    /\ gateways \in Seq(GatewaySet)

GraphOk ==
    /\ nodes \in NodeMaps
    /\ pinned = NoPin \/ pinned \in PinSet
    /\ shown \subseteq Ids /\ edges \subseteq SUBSET Ids
    /\ panning \in BOOLEAN /\ button \in BOOLEAN

IInv == InputOk /\ GraphOk /\ GraphMatchesList /\ OneGesture

-----------------------------------------------------------------------------
(***************************************************************************)
(* Nodes and maps of nodes.                                                *)
(***************************************************************************)
LEMMA MapFields ==
    ASSUME NEW f \in NodeMaps
    PROVE  /\ DOMAIN f \subseteq Ids
           /\ \A id \in DOMAIN f : f[id] \in NodeSet
  BY DEF NodeMaps

LEMMA MapIntro ==
    ASSUME NEW f, f = [id \in DOMAIN f |-> f[id]], DOMAIN f \subseteq Ids,
           \A id \in DOMAIN f : f[id] \in NodeSet
    PROVE  f \in NodeMaps
  <1>1. f \in [DOMAIN f -> NodeSet]
    OBVIOUS
  <1> QED
    BY <1>1 DEF NodeMaps

LEMMA NodeFields ==
    ASSUME NEW n \in NodeSet
    PROVE  /\ n.label \in Labels /\ n.isGateway \in BOOLEAN /\ n.isPublic \in BOOLEAN
           /\ n.seen \in Nat /\ n.at \in Places
           /\ n \in NodeRecord /\ (n.isPublic => n.isGateway)
  BY DEF NodeSet, NodeRecord

LEMMA AddressedType ==
    ASSUME NEW a \in Addresses
    PROVE  Addressed(a) \in Ids
  <1>1. None \in Text
    BY EmptySeq DEF None, Text
  <1> HIDE DEF None, Text
  <1>2. NoLabel \in [name : Text, publisher : Publishers \cup {NoPublisher}]
    BY <1>1 DEF NoLabel
  <1> QED
    BY <1>2 DEF Addressed, Ids

LEMMA GatewayFields ==
    ASSUME NEW g \in GatewaySet
    PROVE  /\ g.seen \in Nat /\ g.peers \in Seq(PeerReport) /\ g.label \in Names
           /\ g.label.name \in Text /\ g.label.publisher \in Publishers
           /\ GatewayId(g) \in Ids
  <1>1. /\ g.seen \in Nat /\ g.peers \in Seq(PeerReport) /\ g.label \in Names
        /\ g.address \in Addresses \cup {NoAddress}
    BY DEF GatewaySet
  <1>2. g.label.name \in Text /\ g.label.publisher \in Publishers
    BY <1>1 DEF Names
  <1>3. g.label \in [name : Text, publisher : Publishers \cup {NoPublisher}]
    BY <1>1 DEF Names
  <1>4. CASE g.address = NoAddress
    <2> DEFINE L == [name : Text, publisher : Publishers \cup {NoPublisher}]
    <2>1. Ids = [address : Addresses \cup {NoAddress}, label : L]
      BY DEF Ids
    <2>2. g.label \in L
      BY <1>3
    <2>3. GatewayId(g) = [address |-> NoAddress, label |-> g.label]
      BY <1>4 DEF GatewayId
    <2> HIDE DEF L
    <2>4. GatewayId(g) \in Ids
      BY <2>1, <2>2, <2>3
    <2> QED
      BY <1>1, <1>2, <2>4
  <1>5. CASE g.address # NoAddress
    <2>1. GatewayId(g) = Addressed(g.address)
      BY <1>5 DEF GatewayId
    <2>2. g.address \in Addresses
      BY <1>1, <1>5
    <2>3. GatewayId(g) \in Ids
      BY <2>1, <2>2, AddressedType
    <2> QED
      BY <1>1, <1>2, <2>3
  <1> QED
    BY <1>1, <1>2, <1>4, <1>5

LEMMA GatewayPartType ==
    ASSUME NEW g \in GatewaySet
    PROVE  GatewayPart(g.label) \in PartSet
  <1> HIDE DEF Text
  <1> QED
    BY GatewayFields DEF GatewayPart, Part, PartSet

LEMMA AddressPartType ==
    ASSUME NEW a \in Addresses
    PROVE  AddressPart(a) \in PartSet
  <1>1. None \in Text
    BY EmptySeq DEF None, Text
  <1> QED
    BY <1>1 DEF AddressPart, Part, PartSet

LEMMA KnownPartType ==
    ASSUME NEW kn \in KnownNode
    PROVE  KnownPart(kn) \in PartSet
  BY DEF KnownNode, KnownPart, Part, PartSet

LEMMA OnePart ==
    ASSUME NEW part \in PartSet
    PROVE  <<part>> \in Labels
  <1> HIDE DEF PartSet
  <1>1. <<part>> \in Seq(PartSet) /\ Len(<<part>>) = 1 /\ Len(<<>>) = 0
    OBVIOUS
  <1> QED
    BY <1>1 DEF Labels

LEMMA NewNodeType ==
    ASSUME NEW part \in PartSet, NEW b \in BOOLEAN
    PROVE  /\ NewNode(part, b) \in NodeSet
           /\ NewNode(part, b).isGateway = b
  BY OnePart DEF NewNode, NodeSet, NodeRecord, Places

-----------------------------------------------------------------------------
(***************************************************************************)
(* What a sync may do to the nodes there are: it moves none, makes none    *)
(* older and none less of a gateway.                                       *)
(***************************************************************************)
Follows(n, m) == m.at = n.at /\ n.seen <= m.seen /\ (n.isGateway => m.isGateway)

Grows(f, h) ==
    /\ h \in NodeMaps
    /\ DOMAIN f \subseteq DOMAIN h
    /\ \A id \in DOMAIN f : Follows(f[id], h[id])

LEMMA GrowsRefl ==
    ASSUME NEW f \in NodeMaps
    PROVE  Grows(f, f)
  <1>1. \A id \in DOMAIN f : f[id].seen \in Nat
    BY MapFields, NodeFields
  <1> QED
    BY <1>1 DEF Grows, Follows

LEMMA GrowsTrans ==
    ASSUME NEW f \in NodeMaps, NEW h, NEW k, Grows(f, h), Grows(h, k)
    PROVE  Grows(f, k)
  <1>1. \A id \in DOMAIN f : /\ f[id].seen \in Nat /\ h[id].seen \in Nat /\ k[id].seen \in Nat
                             /\ Follows(f[id], h[id]) /\ Follows(h[id], k[id])
    BY MapFields, NodeFields DEF Grows
  <1>2. \A id \in DOMAIN f : Follows(f[id], k[id])
    BY <1>1 DEF Follows
  <1> QED
    BY <1>2 DEF Grows

MayReplace(f, id, old) == id \in DOMAIN f => old \in NodeSet /\ Follows(f[id], old)

Upserted(f, h, id, old, new) ==
    /\ Grows(f, h)
    /\ DOMAIN h = DOMAIN f \cup {id}
    /\ h[id] = IF id \in DOMAIN f THEN old ELSE new

LEMMA UpsertGrows ==
    ASSUME NEW f \in NodeMaps, NEW id \in Ids, NEW old, NEW new \in NodeSet,
           MayReplace(f, id, old)
    PROVE  Upserted(f, Upsert(f, id, old, new), id, old, new)
  <1> DEFINE h == Upsert(f, id, old, new)
  <1>1. /\ DOMAIN h = DOMAIN f \cup {id}
        /\ h = [i \in DOMAIN h |-> h[i]]
        /\ \A i \in DOMAIN h : h[i] = IF i # id THEN f[i]
                                      ELSE IF id \in DOMAIN f THEN old ELSE new
    BY DEF Upsert
  <1>0. id \in DOMAIN f => old \in NodeSet /\ Follows(f[id], old)
    BY DEF MayReplace
  <1> HIDE DEF h
  <1>2. DOMAIN f \subseteq Ids /\ \A i \in DOMAIN f : f[i] \in NodeSet /\ f[i].seen \in Nat
    BY MapFields, NodeFields
  <1>3. \A i \in DOMAIN h : h[i] \in NodeSet
    BY <1>0, <1>1, <1>2
  <1>4. h \in NodeMaps
    BY <1>1, <1>2, <1>3, MapIntro
  <1>5. \A i \in DOMAIN f : Follows(f[i], h[i])
    <2> SUFFICES ASSUME NEW i \in DOMAIN f
                 PROVE  Follows(f[i], h[i])
      OBVIOUS
    <2>1. CASE i = id
      BY <1>0, <1>1, <2>1
    <2>2. CASE i # id
      BY <1>1, <1>2, <2>2 DEF Follows
    <2> QED
      BY <2>1, <2>2
  <1> QED
    BY <1>1, <1>4, <1>5 DEF Grows, Upserted, h

-----------------------------------------------------------------------------
(***************************************************************************)
(* The three steps of sync's loops.                                        *)
(***************************************************************************)
LEMMA OwnStep ==
    ASSUME NEW f \in NodeMaps, NEW g \in GatewaySet
    PROVE  /\ Grows(f, SyncOwn(f, g))
           /\ DOMAIN SyncOwn(f, g) = DOMAIN f \cup {GatewayId(g)}
           /\ SyncOwn(f, g)[GatewayId(g)].isGateway
           /\ g.seen <= SyncOwn(f, g)[GatewayId(g)].seen
  <1> DEFINE id == GatewayId(g)
             n == f[id]
             part == GatewayPart(g.label)
             label == IF ShowsGateway(n, g.label) THEN n.label ELSE Append(n.label, part)
             old == [n EXCEPT !.isGateway = TRUE, !.seen = Max({n.seen, g.seen}), !.label = label]
             first == NewNode(part, TRUE)
             new == [first EXCEPT !.seen = g.seen]
  <1>1. SyncOwn(f, g) = Upsert(f, id, old, new)
    BY DEF SyncOwn
  <1>2. id \in Ids /\ g.seen \in Nat /\ part \in PartSet
    BY GatewayFields, GatewayPartType
  <1>3. new \in NodeSet /\ new.isGateway /\ new.seen = g.seen
    <2>1. first \in NodeRecord /\ first.isGateway = TRUE
      BY <1>2, NewNodeType, NodeFields
    <2> HIDE DEF first
    <2>2. new \in NodeRecord /\ new.isGateway = TRUE /\ new.seen = g.seen
      BY <1>2, <2>1 DEF NodeRecord
    <2> QED
      BY <2>2 DEF NodeSet
  <1>4. ASSUME id \in DOMAIN f
        PROVE  /\ old \in NodeSet /\ Follows(n, old)
               /\ old.isGateway /\ g.seen <= old.seen
    <2>1. n \in NodeSet
      BY <1>4, MapFields
    <2>2. n.label \in Labels /\ n.seen \in Nat /\ n \in NodeRecord
      BY <2>1, NodeFields
    <2>3. label \in Labels
      <3>1. Append(n.label, part) \in Labels
        <4> HIDE DEF part
        <4>1. n.label \in Seq(PartSet)
          BY <2>2 DEF Labels
        <4>2. Append(n.label, part) \in Seq(PartSet) /\ Append(n.label, part) # <<>>
          BY <1>2, <4>1, AppendProperties
        <4> QED
          BY <4>2 DEF Labels
      <3> QED
        BY <2>2, <3>1
    <2> DEFINE seen == Max({n.seen, g.seen})
    <2>4. seen \in Nat /\ n.seen <= seen /\ g.seen <= seen
      BY <1>2, <2>2, MaxOfTwo
    <2>5. old = [n EXCEPT !.isGateway = TRUE, !.seen = seen, !.label = label]
      OBVIOUS
    <2> HIDE DEF label, seen, old, n
    <2>6. old \in NodeRecord /\ old.isGateway = TRUE /\ old.seen = seen /\ old.at = n.at
      BY <2>2, <2>3, <2>4, <2>5 DEF NodeRecord
    <2>7. old \in NodeSet
      BY <2>6 DEF NodeSet
    <2> QED
      BY <2>4, <2>6, <2>7 DEF Follows
  <1> HIDE DEF id, old, new
  <1>5. Upserted(f, Upsert(f, id, old, new), id, old, new)
    <2>1. MayReplace(f, id, old)
      BY <1>4 DEF MayReplace
    <2>2. id \in Ids /\ new \in NodeSet
      BY <1>2, <1>3
    <2> QED
      BY <2>1, <2>2, UpsertGrows
  <1>6. SyncOwn(f, g)[id].isGateway /\ g.seen <= SyncOwn(f, g)[id].seen
    BY <1>1, <1>2, <1>3, <1>4, <1>5 DEF Upserted
  <1> QED
    BY <1>1, <1>5, <1>6 DEF Upserted, id

LEMMA PeerStep ==
    ASSUME NEW f \in NodeMaps, NEW peer \in PeerReport
    PROVE  /\ Grows(f, SyncPeer(f, peer))
           /\ DOMAIN SyncPeer(f, peer) = DOMAIN f \cup {Addressed(peer.address)}
           /\ peer.isGateway => SyncPeer(f, peer)[Addressed(peer.address)].isGateway
  <1> DEFINE id == Addressed(peer.address)
             n == f[id]
             old == [n EXCEPT !.isGateway = n.isGateway \/ peer.isGateway]
             new == NewNode(AddressPart(peer.address), peer.isGateway)
  <1>1. SyncPeer(f, peer) = Upsert(f, id, old, new)
    BY DEF SyncPeer
  <1>2. peer.address \in Addresses /\ peer.isGateway \in BOOLEAN
    BY DEF PeerReport
  <1>3. id \in Ids
    BY <1>2, AddressedType
  <1>4. new \in NodeSet /\ new.isGateway = peer.isGateway
    BY <1>2, AddressPartType, NewNodeType
  <1>5. ASSUME id \in DOMAIN f
        PROVE  /\ old \in NodeSet /\ Follows(n, old)
               /\ peer.isGateway => old.isGateway
    <2>1. n \in NodeSet
      BY <1>5, MapFields
    <2>2. /\ n.isGateway \in BOOLEAN /\ n.seen \in Nat
          /\ n \in NodeRecord /\ (n.isPublic => n.isGateway)
      BY <2>1, NodeFields
    <2> DEFINE either == n.isGateway \/ peer.isGateway
    <2>3. either \in BOOLEAN
      OBVIOUS
    <2>4. old = [n EXCEPT !.isGateway = either]
      OBVIOUS
    <2> HIDE DEF either, old, n
    <2>5. /\ old \in NodeRecord /\ old.isGateway = either /\ old.seen = n.seen /\ old.at = n.at
          /\ old.isPublic = n.isPublic
      BY <2>2, <2>3, <2>4 DEF NodeRecord
    <2>6. n.isGateway => old.isGateway
      BY <2>5 DEF either
    <2>7. peer.isGateway => old.isGateway
      BY <2>5 DEF either
    <2>8. old \in NodeSet
      BY <2>2, <2>5, <2>6 DEF NodeSet
    <2> QED
      BY <2>2, <2>5, <2>6, <2>7, <2>8 DEF Follows
  <1> HIDE DEF id, old, new
  <1>6. Upserted(f, Upsert(f, id, old, new), id, old, new)
    <2>1. MayReplace(f, id, old)
      BY <1>5 DEF MayReplace
    <2>2. new \in NodeSet
      BY <1>4
    <2> QED
      BY <1>3, <2>1, <2>2, UpsertGrows
  <1>7. peer.isGateway => SyncPeer(f, peer)[id].isGateway
    BY <1>1, <1>4, <1>5, <1>6 DEF Upserted
  <1> QED
    BY <1>1, <1>6, <1>7 DEF Upserted, id

LEMMA KnownStep ==
    ASSUME NEW f \in NodeMaps, NEW kn \in KnownNode
    PROVE  /\ Grows(f, SyncKnown(f, kn))
           /\ DOMAIN SyncKnown(f, kn) = DOMAIN f \cup {Addressed(kn.address)}
           /\ SyncKnown(f, kn)[Addressed(kn.address)].isGateway
  <1> DEFINE id == Addressed(kn.address)
             n == f[id]
             label == IF ShowsName(n, kn.name) THEN n.label ELSE <<KnownPart(kn)>>
             old == [n EXCEPT !.isGateway = TRUE, !.isPublic = TRUE, !.label = label]
             first == NewNode(KnownPart(kn), TRUE)
             new == [first EXCEPT !.isPublic = TRUE]
  <1>1. SyncKnown(f, kn) = Upsert(f, id, old, new)
    BY DEF SyncKnown
  <1>2. id \in Ids
    BY AddressedType DEF KnownNode
  <1>3. new \in NodeSet /\ new.isGateway
    <2>1. first \in NodeRecord /\ first.isGateway = TRUE
      BY KnownPartType, NewNodeType, NodeFields
    <2> HIDE DEF first
    <2>2. new \in NodeRecord /\ new.isGateway = TRUE
      BY <2>1 DEF NodeRecord
    <2> QED
      BY <2>2 DEF NodeSet
  <1>4. ASSUME id \in DOMAIN f
        PROVE  old \in NodeSet /\ Follows(n, old) /\ old.isGateway
    <2>1. n \in NodeSet
      BY <1>4, MapFields
    <2>2. n.label \in Labels /\ n.seen \in Nat /\ n \in NodeRecord
      BY <2>1, NodeFields
    <2>3. label \in Labels
      BY <2>2, KnownPartType, OnePart
    <2>4. old = [n EXCEPT !.isGateway = TRUE, !.isPublic = TRUE, !.label = label]
      OBVIOUS
    <2> HIDE DEF label, old, n
    <2>5. old \in NodeRecord /\ old.isGateway = TRUE /\ old.seen = n.seen /\ old.at = n.at
      BY <2>2, <2>3, <2>4 DEF NodeRecord
    <2>6. old \in NodeSet
      BY <2>5 DEF NodeSet
    <2> QED
      BY <2>2, <2>5, <2>6 DEF Follows
  <1> HIDE DEF id, old, new
  <1>5. Upserted(f, Upsert(f, id, old, new), id, old, new)
    <2>1. MayReplace(f, id, old)
      BY <1>4 DEF MayReplace
    <2>2. id \in Ids /\ new \in NodeSet
      BY <1>2, <1>3
    <2> QED
      BY <2>1, <2>2, UpsertGrows
  <1>6. SyncKnown(f, kn)[id].isGateway
    BY <1>1, <1>3, <1>4, <1>5 DEF Upserted
  <1> QED
    BY <1>1, <1>5, <1>6 DEF Upserted, id

-----------------------------------------------------------------------------
(***************************************************************************)
(* The loops: what a gateway's report brings is there, and stays while the *)
(* rest is taken.                                                          *)
(***************************************************************************)
Reports(g) == {GatewayId(g)} \cup PeerIds(g)

ShowsPeers(g, h, k) ==
    \A j \in 1 .. k : g.peers[j].isGateway => h[Addressed(g.peers[j].address)].isGateway

ShowsReport(g, h) ==
    /\ h[GatewayId(g)].isGateway
    /\ g.seen <= h[GatewayId(g)].seen
    /\ ShowsPeers(g, h, Len(g.peers))

LEMMA PeerFields ==
    ASSUME NEW g \in GatewaySet
    PROVE  /\ Len(g.peers) \in Nat /\ DOMAIN g.peers = 1 .. Len(g.peers)
           /\ \A i \in 1 .. Len(g.peers) : /\ g.peers[i] \in PeerReport
                                          /\ Addressed(g.peers[i].address) \in PeerIds(g)
  <1>1. g.peers \in Seq(PeerReport)
    BY GatewayFields
  <1> HIDE DEF PeerReport
  <1>2. Len(g.peers) \in Nat /\ DOMAIN g.peers = 1 .. Len(g.peers)
    BY <1>1
  <1>3. \A i \in 1 .. Len(g.peers) : g.peers[i] \in PeerReport
    BY <1>1
  <1> QED
    BY <1>2, <1>3 DEF PeerIds

LEMMA GatewayStep ==
    ASSUME NEW f \in NodeMaps, NEW g \in GatewaySet
    PROVE  /\ Grows(f, SyncGateway(f, g))
           /\ DOMAIN SyncGateway(f, g) = DOMAIN f \cup Reports(g)
           /\ ShowsReport(g, SyncGateway(f, g))
  <1> DEFINE own == SyncOwn(f, g)
             n == Len(g.peers)
             upTo[i \in 0 .. n] == IF i = 0 THEN own ELSE SyncPeer(upTo[i - 1], g.peers[i])
             step == [i \in 1 .. n |-> [h \in NodeMaps |-> SyncPeer(h, g.peers[i])]]
  <1>1. SyncGateway(f, g) = upTo[n]
    BY DEF SyncGateway
  <1>2. n \in Nat /\ DOMAIN g.peers = 1 .. n /\ \A i \in 1 .. n : g.peers[i] \in PeerReport
    BY PeerFields
  <1>3. own \in NodeMaps /\ Grows(f, own)
    BY OwnStep DEF Grows
  <1> HIDE DEF own, n
  <1>4. \E u \in [0 .. n -> NodeMaps] : u[0] = own /\ \A i \in 1 .. n : u[i] = step[i][u[i - 1]]
    <2>1. Rounds(step, n, NodeMaps)
      BY <1>2, PeerStep DEF Rounds, Grows
    <2>2. n \in Nat /\ own \in NodeMaps
      BY <1>2, <1>3
    <2> HIDE DEF step, upTo
    <2> QED
      BY <2>1, <2>2, Iterates
  <1>5. PICK u \in [0 .. n -> NodeMaps] : u[0] = own /\ \A i \in 1 .. n : u[i] = step[i][u[i - 1]]
    BY <1>4
  <1>6. \A i \in 1 .. n : u[i] = SyncPeer(u[i - 1], g.peers[i])
    <2> SUFFICES ASSUME NEW i \in 1 .. n
                 PROVE  u[i] = SyncPeer(u[i - 1], g.peers[i])
      OBVIOUS
    <2>1. u[i - 1] \in NodeMaps
      BY <1>2
    <2> QED
      BY <1>5, <2>1
  <1>7. u = [i \in 0 .. n |-> IF i = 0 THEN own ELSE SyncPeer(u[i - 1], g.peers[i])]
    BY <1>2, <1>5, <1>6
  <1>8. upTo = [i \in 0 .. n |-> IF i = 0 THEN own ELSE SyncPeer(upTo[i - 1], g.peers[i])]
    BY <1>7
  <1> HIDE DEF upTo
  <1> DEFINE ids(k) == {Addressed(g.peers[j].address) : j \in 1 .. k}
             done == {k \in 0 .. n : /\ Grows(own, upTo[k])
                                     /\ DOMAIN upTo[k] = DOMAIN own \cup ids(k)
                                     /\ ShowsPeers(g, upTo[k], k)}
  <1>9. 0 \in done
    <2>1. upTo[0] = own
      BY <1>2, <1>8
    <2>2. ids(0) = {} /\ ShowsPeers(g, own, 0)
      BY DEF ShowsPeers
    <2> HIDE DEF ids
    <2> QED
      BY <1>2, <1>3, <2>1, <2>2, GrowsRefl
  <1>10. ASSUME NEW k \in Nat, k < n, k \in done
         PROVE  k + 1 \in done
    <2> DEFINE now == upTo[k]
               next == upTo[k + 1]
               peer == g.peers[k + 1]
               id == Addressed(peer.address)
    <2>1. k + 1 \in 1 .. n /\ peer \in PeerReport
      BY <1>2, <1>10
    <2>2. next = SyncPeer(now, peer)
      BY <1>2, <1>8, <1>10
    <2>3. Grows(own, now) /\ DOMAIN now = DOMAIN own \cup ids(k) /\ ShowsPeers(g, now, k)
      BY <1>10
    <2>4. now \in NodeMaps
      BY <2>3 DEF Grows
    <2>5. /\ Grows(now, next) /\ DOMAIN next = DOMAIN now \cup {id}
          /\ peer.isGateway => next[id].isGateway
      BY <2>1, <2>2, <2>4, PeerStep
    <2>6. Grows(own, next)
      BY <1>3, <2>3, <2>5, GrowsTrans
    <2>7. ids(k + 1) = ids(k) \cup {id}
      OBVIOUS
    <2>8. ShowsPeers(g, next, k + 1)
      <3> SUFFICES ASSUME NEW j \in 1 .. k + 1, g.peers[j].isGateway
                   PROVE  next[Addressed(g.peers[j].address)].isGateway
        BY DEF ShowsPeers
      <3>1. CASE j = k + 1
        BY <2>5, <3>1
      <3>2. CASE j # k + 1
        <4>1. j \in 1 .. k
          BY <3>2
        <4>2. now[Addressed(g.peers[j].address)].isGateway
          BY <2>3, <4>1 DEF ShowsPeers
        <4>3. Addressed(g.peers[j].address) \in DOMAIN now
          BY <2>3, <4>1
        <4> QED
          BY <2>5, <4>2, <4>3 DEF Grows, Follows
      <3> QED
        BY <3>1, <3>2
    <2>9. DOMAIN next = DOMAIN own \cup ids(k + 1)
      BY <2>3, <2>5, <2>7
    <2> HIDE DEF ids
    <2> QED
      BY <1>2, <2>1, <2>6, <2>8, <2>9
  <1>11. n \in done
    <2>1. \A k \in Nat : k < n /\ k \in done => k + 1 \in done
      BY <1>10
    <2>2. n \in Nat /\ n \in 0 .. n
      BY <1>2
    <2> HIDE DEF done
    <2>3. \A k \in 0 .. n : k \in done
      BY <1>9, <2>1, <2>2, RoundInduction
    <2> QED
      BY <2>2, <2>3
  <1>12. ids(n) = PeerIds(g)
    BY <1>2 DEF PeerIds
  <1> DEFINE h == upTo[n]
  <1>13. Grows(own, h) /\ DOMAIN h = DOMAIN own \cup PeerIds(g) /\ ShowsPeers(g, h, n)
    BY <1>11, <1>12
  <1> HIDE DEF done, ids, h
  <1>14. Grows(f, h)
    BY <1>3, <1>13, GrowsTrans
  <1>15. /\ DOMAIN own = DOMAIN f \cup {GatewayId(g)}
         /\ own[GatewayId(g)].isGateway /\ g.seen <= own[GatewayId(g)].seen
    BY OwnStep DEF own
  <1>16. h[GatewayId(g)].isGateway /\ g.seen <= h[GatewayId(g)].seen
    <2>1. Follows(own[GatewayId(g)], h[GatewayId(g)]) /\ GatewayId(g) \in DOMAIN h
      BY <1>13, <1>15 DEF Grows
    <2>2. own[GatewayId(g)].seen \in Nat /\ h[GatewayId(g)].seen \in Nat /\ g.seen \in Nat
      BY <1>3, <1>13, <1>15, <2>1, MapFields, NodeFields, GatewayFields DEF Grows
    <2> QED
      BY <1>15, <2>1, <2>2 DEF Follows
  <1> QED
    BY <1>1, <1>13, <1>14, <1>15, <1>16 DEF h, n, Reports, ShowsReport

LEMMA ReportStays ==
    ASSUME NEW g \in GatewaySet, NEW h \in NodeMaps, NEW k, Grows(h, k),
           Reports(g) \subseteq DOMAIN h, ShowsReport(g, h)
    PROVE  ShowsReport(g, k)
  <1>1. \A id \in Reports(g) : Follows(h[id], k[id]) /\ h[id].seen \in Nat /\ k[id].seen \in Nat
    BY MapFields, NodeFields DEF Grows
  <1>2. GatewayId(g) \in Reports(g) /\ g.seen \in Nat
    BY GatewayFields DEF Reports
  <1>3. k[GatewayId(g)].isGateway /\ g.seen <= k[GatewayId(g)].seen
    BY <1>1, <1>2 DEF ShowsReport, Follows
  <1>4. ShowsPeers(g, k, Len(g.peers))
    <2> SUFFICES ASSUME NEW j \in 1 .. Len(g.peers), g.peers[j].isGateway
                 PROVE  k[Addressed(g.peers[j].address)].isGateway
      BY DEF ShowsPeers
    <2>1. h[Addressed(g.peers[j].address)].isGateway
      BY DEF ShowsReport, ShowsPeers
    <2>2. Addressed(g.peers[j].address) \in Reports(g)
      BY PeerFields DEF Reports
    <2> QED
      BY <1>1, <2>1, <2>2 DEF Follows
  <1> QED
    BY <1>3, <1>4 DEF ShowsReport

LEMMA GatewayList ==
    ASSUME InputOk
    PROVE  /\ Len(gateways) \in Nat /\ DOMAIN gateways = 1 .. Len(gateways)
           /\ \A i \in DOMAIN gateways : gateways[i] \in GatewaySet
  <1>1. gateways \in Seq(GatewaySet)
    BY DEF InputOk
  <1> HIDE DEF GatewaySet
  <1> QED
    BY <1>1

LEMMA KnownList ==
    ASSUME InputOk
    PROVE  /\ Len(known) \in Nat /\ DOMAIN known = 1 .. Len(known)
           /\ \A i \in DOMAIN known : known[i] \in KnownNode
  <1>1. known \in Seq(KnownNode)
    BY DEF InputOk
  <1> HIDE DEF KnownNode
  <1> QED
    BY <1>1

LEMMA GatewaysLoop ==
    ASSUME InputOk, NEW f \in NodeMaps
    PROVE  /\ Grows(f, SyncGateways(f))
           /\ DOMAIN SyncGateways(f) = DOMAIN f \cup UNION {Reports(g) : g \in Gateways}
           /\ \A g \in Gateways : ShowsReport(g, SyncGateways(f))
  <1> DEFINE n == Len(gateways)
             upTo[i \in 0 .. n] == IF i = 0 THEN f ELSE SyncGateway(upTo[i - 1], gateways[i])
             step == [i \in 1 .. n |-> [h \in NodeMaps |-> SyncGateway(h, gateways[i])]]
  <1>1. SyncGateways(f) = upTo[n]
    BY DEF SyncGateways
  <1>2. n \in Nat /\ DOMAIN gateways = 1 .. n /\ \A i \in 1 .. n : gateways[i] \in GatewaySet
    BY GatewayList
  <1> HIDE DEF n
  <1>4. \E u \in [0 .. n -> NodeMaps] : u[0] = f /\ \A i \in 1 .. n : u[i] = step[i][u[i - 1]]
    <2>1. Rounds(step, n, NodeMaps)
      BY <1>2, GatewayStep DEF Rounds, Grows
    <2>2. n \in Nat
      BY <1>2
    <2> HIDE DEF step, upTo
    <2> QED
      BY <2>1, <2>2, Iterates
  <1>5. PICK u \in [0 .. n -> NodeMaps] : u[0] = f /\ \A i \in 1 .. n : u[i] = step[i][u[i - 1]]
    BY <1>4
  <1>6. \A i \in 1 .. n : u[i] = SyncGateway(u[i - 1], gateways[i])
    <2> SUFFICES ASSUME NEW i \in 1 .. n
                 PROVE  u[i] = SyncGateway(u[i - 1], gateways[i])
      OBVIOUS
    <2>1. u[i - 1] \in NodeMaps
      BY <1>2
    <2> QED
      BY <1>5, <2>1
  <1>7. u = [i \in 0 .. n |-> IF i = 0 THEN f ELSE SyncGateway(u[i - 1], gateways[i])]
    BY <1>2, <1>5, <1>6
  <1>8. upTo = [i \in 0 .. n |-> IF i = 0 THEN f ELSE SyncGateway(upTo[i - 1], gateways[i])]
    BY <1>7
  <1> HIDE DEF upTo
  <1> DEFINE ids(k) == UNION {Reports(gateways[j]) : j \in 1 .. k}
             shows(k) == \A j \in 1 .. k : ShowsReport(gateways[j], upTo[k])
             done == {k \in 0 .. n : /\ Grows(f, upTo[k])
                                     /\ DOMAIN upTo[k] = DOMAIN f \cup ids(k)
                                     /\ shows(k)}
  <1>9. 0 \in done
    <2>1. upTo[0] = f
      BY <1>2, <1>8
    <2>2. ids(0) = {} /\ shows(0)
      OBVIOUS
    <2> HIDE DEF ids, shows
    <2> QED
      BY <1>2, <2>1, <2>2, GrowsRefl
  <1>10. ASSUME NEW k \in Nat, k < n, k \in done
         PROVE  k + 1 \in done
    <2> DEFINE now == upTo[k]
               next == upTo[k + 1]
               g == gateways[k + 1]
    <2>1. k + 1 \in 1 .. n /\ g \in GatewaySet
      BY <1>2, <1>10
    <2>2. next = SyncGateway(now, g)
      BY <1>2, <1>8, <1>10
    <2>3. Grows(f, now) /\ DOMAIN now = DOMAIN f \cup ids(k) /\ shows(k)
      BY <1>10
    <2>4. now \in NodeMaps
      BY <2>3 DEF Grows
    <2>5. /\ Grows(now, next) /\ DOMAIN next = DOMAIN now \cup Reports(g)
          /\ ShowsReport(g, next)
      BY <2>1, <2>2, <2>4, GatewayStep
    <2>6. Grows(f, next)
      BY <2>3, <2>5, GrowsTrans
    <2>7. ids(k + 1) = ids(k) \cup Reports(g)
      OBVIOUS
    <2>8. shows(k + 1)
      <3> SUFFICES ASSUME NEW j \in 1 .. k + 1
                   PROVE  ShowsReport(gateways[j], next)
        OBVIOUS
      <3>1. CASE j = k + 1
        BY <2>5, <3>1
      <3>2. CASE j # k + 1
        <4>1. j \in 1 .. k /\ j \in 1 .. n
          BY <1>2, <1>10, <3>2
        <4>2. ShowsReport(gateways[j], now) /\ Reports(gateways[j]) \subseteq DOMAIN now
          BY <2>3, <4>1
        <4>3. gateways[j] \in GatewaySet
          BY <1>2, <4>1
        <4> QED
          BY <2>4, <2>5, <4>2, <4>3, ReportStays
      <3> QED
        BY <3>1, <3>2
    <2>9. DOMAIN next = DOMAIN f \cup ids(k + 1)
      BY <2>3, <2>5, <2>7
    <2> HIDE DEF ids, shows
    <2> QED
      BY <1>2, <2>1, <2>6, <2>8, <2>9
  <1>11. n \in done
    <2>1. \A k \in Nat : k < n /\ k \in done => k + 1 \in done
      BY <1>10
    <2>2. n \in Nat /\ n \in 0 .. n
      BY <1>2
    <2> HIDE DEF done
    <2>3. \A k \in 0 .. n : k \in done
      BY <1>9, <2>1, <2>2, RoundInduction
    <2> QED
      BY <2>2, <2>3
  <1>12. Gateways = {gateways[j] : j \in 1 .. n}
    BY <1>2 DEF Gateways
  <1>13. ids(n) = UNION {Reports(g) : g \in Gateways}
    BY <1>12
  <1>14. /\ Grows(f, upTo[n]) /\ DOMAIN upTo[n] = DOMAIN f \cup ids(n)
         /\ \A j \in 1 .. n : ShowsReport(gateways[j], upTo[n])
    BY <1>11
  <1> HIDE DEF ids, done, shows
  <1> QED
    BY <1>1, <1>12, <1>13, <1>14

LEMMA KnownLoop ==
    ASSUME InputOk, NEW f \in NodeMaps
    PROVE  /\ Grows(f, SyncAllKnown(f))
           /\ DOMAIN SyncAllKnown(f) = DOMAIN f \cup KnownIds
           /\ \A id \in KnownIds : SyncAllKnown(f)[id].isGateway
  <1> DEFINE n == Len(known)
             upTo[i \in 0 .. n] == IF i = 0 THEN f ELSE SyncKnown(upTo[i - 1], known[i])
             step == [i \in 1 .. n |-> [h \in NodeMaps |-> SyncKnown(h, known[i])]]
  <1>1. SyncAllKnown(f) = upTo[n]
    BY DEF SyncAllKnown
  <1>2. n \in Nat /\ DOMAIN known = 1 .. n /\ \A i \in 1 .. n : known[i] \in KnownNode
    BY KnownList
  <1> HIDE DEF n
  <1>4. \E u \in [0 .. n -> NodeMaps] : u[0] = f /\ \A i \in 1 .. n : u[i] = step[i][u[i - 1]]
    <2>1. Rounds(step, n, NodeMaps)
      BY <1>2, KnownStep DEF Rounds, Grows
    <2>2. n \in Nat
      BY <1>2
    <2> HIDE DEF step, upTo
    <2> QED
      BY <2>1, <2>2, Iterates
  <1>5. PICK u \in [0 .. n -> NodeMaps] : u[0] = f /\ \A i \in 1 .. n : u[i] = step[i][u[i - 1]]
    BY <1>4
  <1>6. \A i \in 1 .. n : u[i] = SyncKnown(u[i - 1], known[i])
    <2> SUFFICES ASSUME NEW i \in 1 .. n
                 PROVE  u[i] = SyncKnown(u[i - 1], known[i])
      OBVIOUS
    <2>1. u[i - 1] \in NodeMaps
      BY <1>2
    <2> QED
      BY <1>5, <2>1
  <1>7. u = [i \in 0 .. n |-> IF i = 0 THEN f ELSE SyncKnown(u[i - 1], known[i])]
    BY <1>2, <1>5, <1>6
  <1>8. upTo = [i \in 0 .. n |-> IF i = 0 THEN f ELSE SyncKnown(upTo[i - 1], known[i])]
    BY <1>7
  <1> HIDE DEF upTo
  <1> DEFINE ids(k) == {Addressed(known[j].address) : j \in 1 .. k}
             gateway(k) == \A id \in ids(k) : upTo[k][id].isGateway
             done == {k \in 0 .. n : /\ Grows(f, upTo[k])
                                     /\ DOMAIN upTo[k] = DOMAIN f \cup ids(k)
                                     /\ gateway(k)}
  <1>9. 0 \in done
    <2>1. upTo[0] = f
      BY <1>2, <1>8
    <2>2. ids(0) = {} /\ gateway(0)
      OBVIOUS
    <2> HIDE DEF ids, gateway
    <2> QED
      BY <1>2, <2>1, <2>2, GrowsRefl
  <1>10. ASSUME NEW k \in Nat, k < n, k \in done
         PROVE  k + 1 \in done
    <2> DEFINE now == upTo[k]
               next == upTo[k + 1]
               kn == known[k + 1]
    <2>1. k + 1 \in 1 .. n /\ kn \in KnownNode
      BY <1>2, <1>10
    <2>2. next = SyncKnown(now, kn)
      BY <1>2, <1>8, <1>10
    <2>3. Grows(f, now) /\ DOMAIN now = DOMAIN f \cup ids(k) /\ gateway(k)
      BY <1>10
    <2>4. now \in NodeMaps
      BY <2>3 DEF Grows
    <2>5. /\ Grows(now, next) /\ DOMAIN next = DOMAIN now \cup {Addressed(kn.address)}
          /\ next[Addressed(kn.address)].isGateway
      BY <2>1, <2>2, <2>4, KnownStep
    <2>6. Grows(f, next)
      BY <2>3, <2>5, GrowsTrans
    <2>7. ids(k + 1) = ids(k) \cup {Addressed(kn.address)}
      OBVIOUS
    <2>8. gateway(k + 1)
      <3> SUFFICES ASSUME NEW id \in ids(k + 1)
                   PROVE  next[id].isGateway
        OBVIOUS
      <3>1. CASE id = Addressed(kn.address)
        BY <2>5, <3>1
      <3>2. CASE id \in ids(k)
        BY <2>3, <2>5, <3>2 DEF Grows, Follows
      <3> HIDE DEF ids
      <3> QED
        BY <2>7, <3>1, <3>2
    <2>9. DOMAIN next = DOMAIN f \cup ids(k + 1)
      BY <2>3, <2>5, <2>7
    <2> HIDE DEF ids, gateway
    <2> QED
      BY <1>2, <2>1, <2>6, <2>8, <2>9
  <1>11. n \in done
    <2>1. \A k \in Nat : k < n /\ k \in done => k + 1 \in done
      BY <1>10
    <2>2. n \in Nat /\ n \in 0 .. n
      BY <1>2
    <2> HIDE DEF done
    <2>3. \A k \in 0 .. n : k \in done
      BY <1>9, <2>1, <2>2, RoundInduction
    <2> QED
      BY <2>2, <2>3
  <1>12. ids(n) = KnownIds
    BY <1>2 DEF KnownIds
  <1>13. /\ Grows(f, upTo[n]) /\ DOMAIN upTo[n] = DOMAIN f \cup ids(n)
         /\ \A id \in ids(n) : upTo[n][id].isGateway
    BY <1>11
  <1> HIDE DEF ids, done, gateway
  <1> QED
    BY <1>1, <1>12, <1>13

-----------------------------------------------------------------------------
(***************************************************************************)
(* The whole sync.                                                         *)
(***************************************************************************)
LEMMA FlatSeen ==
    ASSUME InputOk, NEW id, NEW b \in Nat,
           \A g \in Gateways : GatewayId(g) = id => g.seen <= b
    PROVE  FlatNode(id).seen <= b
  <1> DEFINE here == {g \in Gateways : GatewayId(g) = id}
             dates == {0} \cup {g.seen : g \in here}
  <1>1. FlatNode(id).seen = Max(dates)
    BY DEF FlatNode
  <1>2. \A g \in here : g.seen \in 0 .. b
    <2> SUFFICES ASSUME NEW g \in here
                 PROVE  g.seen \in 0 .. b
      OBVIOUS
    <2>1. g \in GatewaySet
      BY GatewayList DEF Gateways
    <2>2. g.seen \in Nat /\ g.seen <= b
      BY <2>1, GatewayFields
    <2> QED
      BY <2>2
  <1>3. dates \in SUBSET (0 .. b) /\ dates # {}
    BY <1>2
  <1> HIDE DEF dates
  <1>4. Max(dates) \in 0 .. b
    BY <1>3, MaxOfNumbers
  <1> QED
    BY <1>1, <1>4

(* sync comes across the ids that the list has.                            *)
LEMMA SameIds == NewIds = NodeIds
  <1>1. \A g : {Addressed(peer.address) : peer \in Range(g.peers)} = PeerIds(g)
    BY DEF Range, PeerIds
  <1>2. {Addressed(kn.address) : kn \in Range(known)} = KnownIds
    BY DEF Range, KnownIds
  <1>3. NewIds = KnownIds \cup UNION {{GatewayId(g)} \cup PeerIds(g) : g \in Gateways}
    BY <1>1, <1>2 DEF NewIds
  <1> QED
    BY <1>3 DEF NodeIds

LEMMA SyncedMatches ==
    ASSUME InputOk, NEW f \in NodeMaps
    PROVE  /\ Synced(f) \in NodeMaps
           /\ DOMAIN Synced(f) = NodeIds
           /\ \A id \in DOMAIN f \cap NodeIds : Follows(f[id], Synced(f)[id])
           /\ \A id \in NodeIds :
                 /\ FlatNode(id).isGateway => Synced(f)[id].isGateway
                 /\ FlatNode(id).seen <= Synced(f)[id].seen
  <1> DEFINE a == SyncGateways(f)
             r == SyncAllKnown(a)
             h == Synced(f)
  <1>1. /\ Grows(f, a) /\ DOMAIN a = DOMAIN f \cup UNION {Reports(g) : g \in Gateways}
        /\ \A g \in Gateways : ShowsReport(g, a)
    BY GatewaysLoop
  <1>2. a \in NodeMaps
    BY <1>1 DEF Grows
  <1>3. /\ Grows(a, r) /\ DOMAIN r = DOMAIN a \cup KnownIds
        /\ \A id \in KnownIds : r[id].isGateway
    BY <1>2, KnownLoop
  <1>4. \A g \in Gateways : g \in GatewaySet
    BY GatewayList DEF Gateways
  <1>5. \A g \in Gateways : ShowsReport(g, r)
    BY <1>1, <1>2, <1>3, <1>4, ReportStays
  <1>6. NodeIds = KnownIds \cup UNION {Reports(g) : g \in Gateways}
    BY DEF NodeIds, Reports
  <1>7. NodeIds \subseteq DOMAIN r /\ r \in NodeMaps
    BY <1>1, <1>3, <1>6 DEF Grows
  <1>8. Grows(f, r)
    BY <1>1, <1>3, GrowsTrans
  <1>9. h = [id \in NodeIds |-> r[id]]
    BY <1>7, SameIds DEF Synced, Retain
  <1> HIDE DEF a, r, h
  <1>10. DOMAIN h = NodeIds /\ \A id \in NodeIds : h[id] = r[id]
    BY <1>9
  <1>11. h \in NodeMaps
    <2>1. DOMAIN h \subseteq Ids /\ \A id \in DOMAIN h : h[id] \in NodeSet
      BY <1>7, <1>10, MapFields
    <2>2. h = [id \in DOMAIN h |-> h[id]]
      BY <1>9
    <2> QED
      BY <2>1, <2>2, MapIntro
  <1>12. \A id \in DOMAIN f \cap NodeIds : Follows(f[id], h[id])
    BY <1>8, <1>10 DEF Grows
  <1>13. ASSUME NEW id \in NodeIds, FlatNode(id).isGateway
         PROVE  r[id].isGateway
    <2>1. \/ \E g \in Gateways : GatewayId(g) = id
          \/ id \in KnownIds
          \/ \E g \in Gateways : \E i \in DOMAIN g.peers :
                 Addressed(g.peers[i].address) = id /\ g.peers[i].isGateway
      BY <1>13 DEF FlatNode
    <2>2. ASSUME NEW g \in Gateways, NEW i \in DOMAIN g.peers,
                 Addressed(g.peers[i].address) = id, g.peers[i].isGateway
          PROVE  r[id].isGateway
      <3>1. i \in 1 .. Len(g.peers)
        BY <1>4, PeerFields
      <3> QED
        BY <1>5, <2>2, <3>1 DEF ShowsReport, ShowsPeers
    <2>3. (\E g \in Gateways : GatewayId(g) = id) => r[id].isGateway
      BY <1>5 DEF ShowsReport
    <2> QED
      BY <1>3, <2>1, <2>2, <2>3
  <1>14. ASSUME NEW id \in NodeIds
         PROVE  FlatNode(id).seen <= r[id].seen
    <2>1. r[id].seen \in Nat
      BY <1>7, MapFields, NodeFields
    <2>2. \A g \in Gateways : GatewayId(g) = id => g.seen <= r[id].seen
      BY <1>5 DEF ShowsReport
    <2> QED
      BY <2>1, <2>2, FlatSeen
  <1> QED
    BY <1>10, <1>11, <1>12, <1>13, <1>14 DEF h

LEMMA LinkedEnds ==
    ASSUME NEW e \in Linked
    PROVE  e \subseteq NodeIds
  <1>1. PICK g \in Gateways : \E id \in PeerIds(g) : e = {GatewayId(g), id}
    BY DEF Linked
  <1> QED
    BY <1>1 DEF NodeIds

-----------------------------------------------------------------------------
(***************************************************************************)
(* What the renders read.                                                  *)
(***************************************************************************)
LEMMA TrimType ==
    ASSUME NEW S, NEW text \in Seq(S)
    PROVE  Trim(text) \in Seq(S)
  <1> DEFINE solid == {i \in DOMAIN text : text[i] # Space}
  <1>1. Len(text) \in Nat /\ DOMAIN text = 1 .. Len(text) /\ \A i \in 1 .. Len(text) : text[i] \in S
    OBVIOUS
  <1>2. CASE solid = {}
    <2>1. Trim(text) = <<>>
      BY <1>2 DEF Trim, None
    <2> QED
      BY <2>1, EmptySeq
  <1>3. CASE solid # {}
    <2>1. Trim(text) = SubSeq(text, Min(solid), Max(solid))
      BY <1>3 DEF Trim
    <2>2. solid \in SUBSET (1 .. Len(text))
      BY <1>1
    <2> HIDE DEF solid
    <2>3. Min(solid) \in 1 .. Len(text) /\ Max(solid) \in 1 .. Len(text)
      BY <1>1, <1>3, <2>2, MinOfPositions, MaxOfPositions
    <2>4. \A i \in Min(solid) .. Max(solid) : text[i] \in S
      BY <1>1, <2>3
    <2>5. SubSeq(text, Min(solid), Max(solid)) \in Seq(S)
      BY <2>3, <2>4, SubSeqProperties
    <2> QED
      BY <2>1, <2>5
  <1> QED
    BY <1>2, <1>3

LEMMA ViewType ==
    ASSUME NEW p \in Publishers, NEW e, Sound(e)
    PROVE  GatewayView(p, e) \in GatewaySet
  <1>1. e.name \in Text /\ e.time \in Nat /\ e.neighbors \in Seq(PeerReport)
        /\ e.address \in Addresses \cup {NoAddress}
        /\ \A i \in DOMAIN e.contracts : e.contracts[i].key \in Keys
    BY DEF Sound
  <1>2. Trim(e.name) \in Text
    BY <1>1, TrimType DEF Text
  <1>3. Label(p, e) \in Names
    BY <1>2 DEF Label, Names
  <1>4. {e.contracts[i].key : i \in DOMAIN e.contracts} \in SUBSET Keys
    BY <1>1
  <1> QED
    BY <1>1, <1>3, <1>4 DEF GatewayView, GatewaySet

LEMMA PublishedSound ==
    ASSUME NEW entries \in EntryPool
    PROVE  /\ DOMAIN Published(entries) = DOMAIN entries
           /\ DOMAIN entries \subseteq Publishers
           /\ \A p \in DOMAIN entries : Sound(Published(entries)[p])
  <1>1. DOMAIN entries \subseteq Publishers /\ \A p \in DOMAIN entries : entries[p] \in NodeReport
    BY PoolAssumption
  <1>2. ASSUME NEW p \in DOMAIN entries
        PROVE  Sound(Published(entries)[p])
    <2> DEFINE e == entries[p]
               w == [i \in DOMAIN e.contracts |-> Dialect(e.dialect, Encode(e.contracts[i]))]
               out == [e EXCEPT !.contracts = w]
    <2>1. Published(entries)[p] = out
      BY DEF Published
    <2>2. e \in NodeReport
      BY <1>1
    <2>3. \A i \in DOMAIN e.contracts : e.contracts[i] \in ContractReport
      <3>1. e.contracts \in Seq(ContractReport)
        BY <2>2 DEF NodeReport
      <3> HIDE DEF ContractReport
      <3> QED
        BY <3>1
    <2>4. \A i \in DOMAIN e.contracts : e.contracts[i].key \in Keys
      BY <2>3 DEF ContractReport
    <2>5. \A d, r : Dialect(d, Encode(r)).key = r.key
      BY DEF Dialect, Encode
    <2>6. DOMAIN w = DOMAIN e.contracts /\ \A i \in DOMAIN w : w[i].key \in Keys
      BY <2>4, <2>5
    <2>7. /\ e.name \in Text /\ e.time \in Nat /\ e.neighbors \in Seq(PeerReport)
          /\ e.address \in Addresses \cup {NoAddress}
      BY <2>2 DEF NodeReport
    <2> HIDE DEF w, e
    <2>8. /\ out.name = e.name /\ out.time = e.time /\ out.neighbors = e.neighbors
          /\ out.address = e.address /\ out.contracts = w
      BY <2>2 DEF NodeReport
    <2> QED
      BY <2>1, <2>6, <2>7, <2>8 DEF Sound
  <1> QED
    BY <1>1, <1>2 DEF Published

-----------------------------------------------------------------------------
(***************************************************************************)
(* The steps.                                                              *)
(***************************************************************************)
LEMMA SameList ==
    ASSUME UNCHANGED <<gateways, known>>
    PROVE  NodeIds' = NodeIds /\ \A id : FlatNode(id)' = FlatNode(id)
  <1>1. Gateways' = Gateways /\ KnownIds' = KnownIds
    BY DEF Gateways, KnownIds
  <1> QED
    BY <1>1 DEF NodeIds, FlatNode

LEMMA InitInv == Init => IInv
  <1> SUFFICES ASSUME Init
               PROVE  IInv
    OBVIOUS
  <1>1. PICK nodeList \in KnownPool : RenderInit(<<>>, nodeList)
    BY DEF Init
  <1>2. /\ stage = "build" /\ remote = <<>> /\ known = nodeList
        /\ todo = DOMAIN remote /\ gateways = <<>>
    BY <1>1 DEF RenderInit
  <1>3. known \in Seq(KnownNode)
    BY <1>2, PoolAssumption
  <1>4. gateways \in Seq(GatewaySet)
    BY <1>2, EmptySeq
  <1>5. InputOk
    BY <1>2, <1>3, <1>4 DEF InputOk
  <1>6. /\ nodes = <<>> /\ edges = {} /\ shown = {}
        /\ pinned = NoPin /\ panning = FALSE /\ button = FALSE
    BY DEF Init, LayoutInit
  <1>7. nodes \in NodeMaps
    <2>1. nodes \in [{} -> NodeSet]
      BY <1>6
    <2> QED
      BY <2>1 DEF NodeMaps
  <1>8. GraphOk /\ OneGesture
    BY <1>6, <1>7 DEF GraphOk, OneGesture
  <1>9. GraphMatchesList
    BY <1>2 DEF GraphMatchesList
  <1> QED
    BY <1>5, <1>8, <1>9 DEF IInv

LEMMA RenderInv ==
    ASSUME IInv, Render
    PROVE  IInv'
  <1>1. UNCHANGED <<remote, known, nodes, edges, pinned, panning, button, shown>>
    BY DEF Render, RenderNext, TakeEntry, DecodeContract, BuildDone, GroupContract, ListRows,
           input, layoutVars, mouse
  <1>2. stage' # "synced" /\ (stage' = "build" => stage = "build" /\ todo' \subseteq todo)
    BY DEF Render, RenderNext, TakeEntry, DecodeContract, BuildDone, GroupContract, ListRows
  <1>3. gateways' \in Seq(GatewaySet)
    <2>1. CASE TakeEntry
      <3>1. PICK p \in todo : gateways' = Append(gateways, GatewayView(p, remote[p]))
        BY <2>1 DEF TakeEntry
      <3>2. p \in DOMAIN remote /\ p \in Publishers /\ Sound(remote[p])
        BY <2>1 DEF TakeEntry, IInv, InputOk
      <3>3. GatewayView(p, remote[p]) \in GatewaySet
        BY <3>2, ViewType
      <3>4. gateways \in Seq(GatewaySet)
        BY DEF IInv, InputOk
      <3> HIDE DEF GatewaySet
      <3> QED
        BY <3>1, <3>3, <3>4, AppendProperties
    <2>2. CASE DecodeContract \/ BuildDone \/ GroupContract \/ ListRows
      BY <2>2 DEF IInv, InputOk, DecodeContract, BuildDone, GroupContract, ListRows, build
    <2> QED
      BY <2>1, <2>2 DEF Render, RenderNext
  <1>4. InputOk'
    BY <1>1, <1>2, <1>3 DEF IInv, InputOk
  <1>5. GraphOk' /\ OneGesture'
    BY <1>1 DEF IInv, GraphOk, OneGesture
  <1>6. GraphMatchesList'
    BY <1>2 DEF GraphMatchesList
  <1> QED
    BY <1>4, <1>5, <1>6 DEF IInv

(* The sync keeps the whole inductive invariant, and moves no node.        *)
LEMMA SyncInv ==
    ASSUME IInv, SyncEffect
    PROVE  /\ IInv'
           /\ \A id \in DOMAIN nodes \cap DOMAIN nodes' : nodes'[id].at = nodes[id].at
  <1>1. /\ nodes' = Synced(nodes) /\ edges' = Linked /\ shown' = DOMAIN nodes
        /\ pinned' = pinned \/ pinned' = NoPin
        /\ UNCHANGED <<panning, button, remote, known, gateways, todo>>
        /\ stage' = "synced"
    BY DEF SyncEffect, Sync, input, build
  <1>2. nodes \in NodeMaps /\ InputOk
    BY DEF IInv, GraphOk
  <1>3. /\ nodes' \in NodeMaps /\ DOMAIN nodes' = NodeIds
        /\ \A id \in DOMAIN nodes \cap NodeIds : Follows(nodes[id], nodes'[id])
        /\ \A id \in NodeIds : /\ FlatNode(id).isGateway => nodes'[id].isGateway
                               /\ FlatNode(id).seen <= nodes'[id].seen
    BY <1>1, <1>2, SyncedMatches
  <1>4. NodeIds' = NodeIds /\ \A id : FlatNode(id)' = FlatNode(id)
    BY <1>1, SameList
  <1>7. \A e \in edges' : e \subseteq DOMAIN nodes'
    BY <1>1, <1>3, LinkedEnds
  <1>8. GraphMatchesList'
    BY <1>3, <1>4, <1>7 DEF GraphMatchesList
  <1>9. InputOk'
    BY <1>1, <1>2 DEF InputOk
  <1>10. shown' \subseteq Ids
    BY <1>1, <1>2, MapFields
  <1>11. GraphOk' /\ OneGesture'
    <2>1. edges' \subseteq SUBSET Ids
      BY <1>3, <1>7, MapFields
    <2> QED
      BY <1>1, <1>3, <1>10, <2>1 DEF IInv, GraphOk, OneGesture
  <1>12. \A id \in DOMAIN nodes \cap DOMAIN nodes' : nodes'[id].at = nodes[id].at
    BY <1>3 DEF Follows
  <1> QED
    BY <1>8, <1>9, <1>11, <1>12 DEF IInv

LEMMA StartsOver ==
    ASSUME IInv, NEW entries, NEW nodeList \in Seq(KnownNode),
           DOMAIN entries \subseteq Publishers, \A p \in DOMAIN entries : Sound(entries[p]),
           StartRender(entries, nodeList), UNCHANGED layoutVars
    PROVE  IInv'
  <1>1. /\ remote' = entries /\ known' = nodeList /\ stage' = "build"
        /\ todo' = DOMAIN entries /\ gateways' = <<>>
    BY DEF StartRender
  <1>2. gateways' \in Seq(GatewaySet)
    BY <1>1, EmptySeq
  <1>3. InputOk'
    BY <1>1, <1>2 DEF InputOk
  <1>4. GraphOk' /\ OneGesture'
    BY DEF IInv, GraphOk, OneGesture, layoutVars, mouse
  <1>5. GraphMatchesList'
    BY <1>1 DEF GraphMatchesList
  <1> QED
    BY <1>3, <1>4, <1>5 DEF IInv

LEMMA NewsInv ==
    ASSUME IInv, News
    PROVE  IInv'
  <1>1. PICK entries \in EntryPool : StartRender(Published(entries), known)
    BY DEF News
  <1>2. known \in Seq(KnownNode) /\ UNCHANGED layoutVars
    BY DEF News, IInv, InputOk
  <1>3. /\ DOMAIN Published(entries) \subseteq Publishers
        /\ \A p \in DOMAIN Published(entries) : Sound(Published(entries)[p])
    BY PublishedSound
  <1> QED
    BY <1>1, <1>2, <1>3, StartsOver

LEMMA ResetKnownInv ==
    ASSUME IInv, ResetKnown
    PROVE  IInv'
  <1>1. StartRender(remote, DefaultKnown) /\ UNCHANGED layoutVars
    BY DEF ResetKnown
  <1>2. DOMAIN remote \subseteq Publishers /\ \A p \in DOMAIN remote : Sound(remote[p])
    BY DEF IInv, InputOk
  <1>3. DefaultKnown \in Seq(KnownNode)
    BY PoolAssumption
  <1> QED
    BY <1>1, <1>2, <1>3, StartsOver

(* A step of the layout moves nodes and does nothing else to them.         *)
LEMMA TickInv ==
    ASSUME IInv, Tick, stage = "synced", UNCHANGED viewVars
    PROVE  IInv'
  <1>1. UNCHANGED <<remote, known, gateways, stage, todo>>
    BY DEF viewVars, input, build
  <1>2. UNCHANGED <<edges, pinned, panning, button>> /\ shown' = DOMAIN nodes
    BY DEF Tick, mouse
  <1>3. nodes \in NodeMaps /\ (pinned = NoPin \/ pinned \in PinSet)
    BY DEF IInv, GraphOk
  <1> DEFINE at(spot, id) == IF pinned # NoPin /\ pinned.id = id THEN pinned.cursor ELSE spot[id]
  <1>4. PICK spot \in [DOMAIN nodes -> Spots] :
           nodes' = [id \in DOMAIN nodes |-> [nodes[id] EXCEPT !.at = at(spot, id)]]
    BY DEF Tick
  <1>5. ASSUME NEW id \in DOMAIN nodes
        PROVE  /\ nodes'[id] \in NodeSet
               /\ nodes'[id].isGateway = nodes[id].isGateway
               /\ nodes'[id].seen = nodes[id].seen
    <2> DEFINE n == nodes[id]
               place == at(spot, id)
               m == [n EXCEPT !.at = place]
    <2>1. nodes'[id] = m
      BY <1>4
    <2>2. place \in Places
      BY <1>3 DEF PinSet, Places
    <2>3. n \in NodeRecord /\ (n.isPublic => n.isGateway)
      BY <1>3, MapFields, NodeFields
    <2> HIDE DEF n, place, at
    <2>4. /\ m \in NodeRecord /\ m.isGateway = n.isGateway /\ m.isPublic = n.isPublic
          /\ m.seen = n.seen
      BY <2>2, <2>3 DEF NodeRecord
    <2>5. m \in NodeSet
      BY <2>3, <2>4 DEF NodeSet
    <2> QED
      BY <2>1, <2>4, <2>5 DEF n
  <1>6. nodes' \in NodeMaps
    <2>1. DOMAIN nodes' \subseteq Ids /\ \A id \in DOMAIN nodes' : nodes'[id] \in NodeSet
      BY <1>3, <1>4, <1>5, MapFields
    <2> QED
      BY <1>4, <2>1, MapIntro
  <1>7. NodeIds' = NodeIds /\ \A id : FlatNode(id)' = FlatNode(id)
    BY <1>1, SameList
  <1>10. GraphMatchesList'
    BY <1>2, <1>4, <1>5, <1>7 DEF IInv, GraphMatchesList
  <1>11. InputOk'
    BY <1>1 DEF IInv, InputOk
  <1>12. shown' \subseteq Ids
    BY <1>2, <1>3, MapFields
  <1>13. GraphOk' /\ OneGesture'
    BY <1>2, <1>6, <1>12 DEF IInv, GraphOk, OneGesture
  <1> QED
    BY <1>10, <1>11, <1>13 DEF IInv

LEMMA GestureInv ==
    ASSUME IInv, Gesture, UNCHANGED viewVars
    PROVE  IInv'
  <1>1. UNCHANGED <<remote, known, gateways, stage, todo, nodes, edges, shown>>
    BY DEF viewVars, input, build, Gesture, PressNode, PressBackground, Move, Release
  <1>2. ASSUME NEW id \in shown, NEW c \in Cursors, PressNode(id, c)
        PROVE  OneGesture' /\ pinned' \in PinSet /\ panning' \in BOOLEAN /\ button' \in BOOLEAN
    BY <1>2 DEF IInv, OneGesture, GraphOk, PressNode, PinSet
  <1>3. ASSUME PressBackground
        PROVE  /\ OneGesture' /\ panning' \in BOOLEAN /\ button' \in BOOLEAN
               /\ pinned' = pinned
    BY <1>3 DEF IInv, OneGesture, PressBackground
  <1>4. ASSUME NEW c \in Cursors, Move(c)
        PROVE  OneGesture' /\ pinned' \in PinSet /\ panning' \in BOOLEAN /\ button' \in BOOLEAN
    <2>1. pinned \in PinSet /\ pinned # NoPin /\ UNCHANGED <<panning, button>>
      BY <1>4 DEF IInv, GraphOk, Move
    <2>2. pinned' \in PinSet
      BY <1>4, <2>1 DEF Move, PinSet
    <2> QED
      BY <2>1, <2>2 DEF IInv, OneGesture, GraphOk
  <1>5. ASSUME Release
        PROVE  /\ OneGesture' /\ panning' \in BOOLEAN /\ button' \in BOOLEAN
               /\ pinned' = NoPin
    BY <1>5 DEF OneGesture, Release
  <1>6. /\ OneGesture' /\ panning' \in BOOLEAN /\ button' \in BOOLEAN
        /\ pinned' = NoPin \/ pinned' \in PinSet
    BY <1>2, <1>3, <1>4, <1>5 DEF Gesture, IInv, GraphOk
  <1>7. GraphOk'
    BY <1>1, <1>6 DEF IInv, GraphOk
  <1>8. InputOk'
    BY <1>1 DEF IInv, InputOk
  <1>9. GraphMatchesList'
    BY <1>1, SameList DEF IInv, GraphMatchesList
  <1> QED
    BY <1>6, <1>7, <1>8, <1>9 DEF IInv

LEMMA NextInv == IInv /\ [Next]_vars => IInv'
  <1> SUFFICES ASSUME IInv, [Next]_vars
               PROVE  IInv'
    OBVIOUS
  <1>1. CASE OnGraph
    BY <1>1, TickInv, GestureInv DEF OnGraph
  <1>2. CASE UNCHANGED vars
    <2>1. UNCHANGED <<remote, known, gateways, stage, todo, nodes, edges, pinned, panning,
                      button, shown>>
      BY <1>2 DEF vars, viewVars, layoutVars, input, build, mouse
    <2>2. InputOk' /\ GraphOk' /\ OneGesture'
      BY <2>1 DEF IInv, InputOk, GraphOk, OneGesture
    <2>3. GraphMatchesList'
      BY <2>1, SameList DEF IInv, GraphMatchesList
    <2> QED
      BY <2>2, <2>3 DEF IInv
  <1> QED
    BY <1>1, <1>2, RenderInv, SyncInv, NewsInv, ResetKnownInv DEF Next

LEMMA Inductive == Spec => []IInv
  BY InitInv, NextInv, PTL DEF Spec

(***************************************************************************)
(* The graph, kept over renders and updated in place by nested loops over  *)
(* gateways, their peers and the known nodes, has exactly the nodes of the *)
(* list, which is made anew; edges have both ends; and no node is less a   *)
(* gateway or older than the list says.                                    *)
(***************************************************************************)
THEOREM GraphShowsList == Spec => []GraphMatchesList
  <1>1. IInv => GraphMatchesList
    BY DEF IInv
  <1> QED
    BY <1>1, Inductive, PTL

(***************************************************************************)
(* "either pan OR drag a node, not both", and either ends with the button, *)
(* also when the node under the cursor is gone.                            *)
(***************************************************************************)
THEOREM PanOrDrag == Spec => []OneGesture
  <1>1. IInv => OneGesture
    BY DEF IInv
  <1> QED
    BY <1>1, Inductive, PTL

(***************************************************************************)
(* New entries move no node that stays: neither one that is held, nor one  *)
(* the forces have taken from where it started.                            *)
(***************************************************************************)
THEOREM SyncMovesNothing == Spec => KeepsPlace
  <1>1. IInv /\ [Next]_vars =>
          [SyncEffect => \A id \in DOMAIN nodes \cap DOMAIN nodes' :
                            nodes'[id].at = nodes[id].at]_vars
    BY SyncInv
  <1> QED
    BY <1>1, Inductive, PTL DEF Spec, KeepsPlace

-----------------------------------------------------------------------------
(***************************************************************************)
(* What goes over the wire and what is read from it: bytes, segments, and  *)
(* reports of a contract. The loops of the codec are iterated like those   *)
(* of the graph.                                                           *)
(***************************************************************************)
Byte == 0 .. 255

SegmentSet == [tag : {"w", "d", "t", "c", "x"}, text : Text, hash : Hashes \cup {NoHash}]

WireEntry == [key : Keys, segments : Seq(SegmentSet)]

LEMMA TextIsBytes == Text = Seq(Byte)
  BY DEF Text, Byte

LEMMA NoneType == None \in Text /\ None \in Title
  BY EmptySeq DEF None, Text, Title, IsUtf8

LEMMA TextFields ==
    ASSUME NEW s \in Text
    PROVE  Len(s) \in Nat /\ DOMAIN s = 1 .. Len(s) /\ \A i \in 1 .. Len(s) : s[i] \in Byte
  <1> HIDE DEF Byte
  <1> QED
    BY TextIsBytes

LEMMA HexRange ==
    ASSUME NEW b \in Byte
    PROVE  HexValue(b) \in -1 .. 15
  BY DEF HexValue, Byte

LEMMA Digits ==
    ASSUME NEW b \in Byte
    PROVE  b \div 16 \in 0 .. 15 /\ b % 16 \in 0 .. 15
  BY DEF Byte

LEMMA HexBytes ==
    ASSUME NEW n \in 0 .. 15
    PROVE  HexDigit(n) \in Byte
  BY DEF HexDigit, Byte

DecoderSet == [out : Text, next : Nat]

LEMMA PctStepType ==
    ASSUME NEW s \in Text, NEW i \in 1 .. Len(s), NEW d \in DecoderSet
    PROVE  PctStep(s, i, d) \in DecoderSet
  <1>1. d.out \in Text /\ d.next \in Nat /\ i \in Nat
    BY TextFields DEF DecoderSet
  <1>2. ASSUME NEW b \in Byte, NEW n \in Nat
        PROVE  [out |-> Append(d.out, b), next |-> n] \in DecoderSet
    <2>1. Append(d.out, b) \in Text
      <3> HIDE DEF Byte
      <3> QED
        BY <1>1, TextIsBytes, AppendProperties
    <2> QED
      BY <2>1 DEF DecoderSet
  <1>3. CASE i < d.next
    BY <1>3 DEF PctStep
  <1>4. CASE ~(i < d.next) /\ AtEscape(s, i)
    <2> DEFINE h == HexValue(s[i + 1])  l == HexValue(s[i + 2])
    <2>1. i + 1 \in 1 .. Len(s) /\ i + 2 \in 1 .. Len(s) /\ h >= 0 /\ l >= 0
      BY <1>1, <1>4, TextFields DEF AtEscape
    <2>2. h \in -1 .. 15 /\ l \in -1 .. 15
      BY <2>1, TextFields, HexRange
    <2> HIDE DEF h, l
    <2>3. 16 * h + l \in Byte
      BY <2>1, <2>2 DEF Byte
    <2>4. PctStep(s, i, d) = [out |-> Append(d.out, 16 * h + l), next |-> i + 3]
      BY <1>4 DEF PctStep, h, l
    <2> QED
      BY <1>1, <1>2, <2>3, <2>4
  <1>5. CASE ~(i < d.next) /\ ~AtEscape(s, i)
    <2> DEFINE b == IF s[i] = Plus THEN Space ELSE s[i]
    <2>1. b \in Byte
      <3>1. s[i] \in Byte
        BY TextFields
      <3> QED
        BY <3>1 DEF Byte, Space
    <2> HIDE DEF b
    <2>2. PctStep(s, i, d) = [out |-> Append(d.out, b), next |-> i + 1]
      BY <1>5 DEF PctStep, b
    <2> QED
      BY <1>1, <1>2, <2>1, <2>2
  <1> QED
    BY <1>3, <1>4, <1>5

(* The rounds of pct_decode.                                               *)
Decoded(s, u) ==
    /\ u \in [0 .. Len(s) -> DecoderSet]
    /\ u[0] = [out |-> <<>>, next |-> 1]
    /\ \A i \in 1 .. Len(s) : u[i] = PctStep(s, i, u[i - 1])
    /\ PctDecode(s) = FromUtf8(u[Len(s)].out)

LEMMA PctDecodeLoop ==
    ASSUME NEW s \in Text
    PROVE  \E u : Decoded(s, u)
  <1> DEFINE n == Len(s)
             first == [out |-> <<>>, next |-> 1]
             upTo[i \in 0 .. n] == IF i = 0 THEN first ELSE PctStep(s, i, upTo[i - 1])
             step == [i \in 1 .. n |-> [d \in DecoderSet |-> PctStep(s, i, d)]]
  <1>1. n \in Nat
    BY TextFields
  <1>2. first \in DecoderSet
    BY NoneType DEF DecoderSet, None
  <1>3. PctDecode(s) = FromUtf8(upTo[n].out)
    BY DEF PctDecode
  <1>4. Rounds(step, n, DecoderSet)
    BY PctStepType DEF Rounds
  <1> HIDE DEF n, first
  <1>5. PICK u \in [0 .. n -> DecoderSet] : u[0] = first /\ \A i \in 1 .. n : u[i] = step[i][u[i - 1]]
    <2> HIDE DEF step, upTo
    <2> QED
      BY <1>1, <1>2, <1>4, Iterates
  <1>6. \A i \in 1 .. n : u[i] = PctStep(s, i, u[i - 1])
    <2> SUFFICES ASSUME NEW i \in 1 .. n
                 PROVE  u[i] = PctStep(s, i, u[i - 1])
      OBVIOUS
    <2>1. u[i - 1] \in DecoderSet
      BY <1>1
    <2> QED
      BY <1>5, <2>1
  <1>7. u = [i \in 0 .. n |-> IF i = 0 THEN first ELSE PctStep(s, i, u[i - 1])]
    BY <1>1, <1>5, <1>6
  <1>8. upTo = [i \in 0 .. n |-> IF i = 0 THEN first ELSE PctStep(s, i, upTo[i - 1])]
    BY <1>7
  <1> HIDE DEF upTo
  <1>9. /\ upTo[0] = first /\ \A i \in 1 .. n : upTo[i] = PctStep(s, i, upTo[i - 1])
    BY <1>1, <1>8
  <1>10. \A k \in 0 .. n : upTo[k] \in DecoderSet
    <2> DEFINE done == {k \in 0 .. n : upTo[k] \in DecoderSet}
    <2>1. 0 \in done
      BY <1>1, <1>2, <1>9
    <2>2. ASSUME NEW k \in Nat, k < n, k \in done
          PROVE  k + 1 \in done
      <3>1. k + 1 \in 1 .. n /\ upTo[k + 1] = PctStep(s, k + 1, upTo[k])
        BY <1>1, <1>9, <2>2
      <3> QED
        BY <1>1, <2>2, <3>1, PctStepType DEF n
    <2> HIDE DEF done
    <2>3. \A k \in 0 .. n : k \in done
      BY <1>1, <2>1, <2>2, RoundInduction
    <2> QED
      BY <2>3 DEF done
  <1>11. upTo \in [0 .. n -> DecoderSet]
    BY <1>8, <1>10
  <1> QED
    BY <1>3, <1>9, <1>11 DEF Decoded, n, first

LEMMA Utf8Type ==
    ASSUME NEW s \in Text
    PROVE  FromUtf8(s) \in Title
  BY NoneType DEF FromUtf8, Title, IsUtf8, None

LEMMA PctDecodeType ==
    ASSUME NEW s \in Text
    PROVE  PctDecode(s) \in Title
  <1>1. PICK u : Decoded(s, u)
    BY PctDecodeLoop
  <1>2. Len(s) \in 0 .. Len(s)
    BY TextFields
  <1>3. u[Len(s)].out \in Text
    BY <1>1, <1>2 DEF Decoded, DecoderSet
  <1> QED
    BY <1>1, <1>3, Utf8Type DEF Decoded

LEMMA PctByteType ==
    ASSUME NEW b \in Byte
    PROVE  PctByte(b) \in Seq(Byte)
  <1>1. b \div 16 \in 0 .. 15 /\ b % 16 \in 0 .. 15
    BY Digits
  <1>2. HexDigit(b \div 16) \in Byte /\ HexDigit(b % 16) \in Byte
    BY <1>1, HexBytes
  <1>3. Percent \in Byte /\ Plus \in Byte
    BY DEF Percent, Plus, Byte
  <1> HIDE DEF Byte
  <1> QED
    BY <1>2, <1>3 DEF PctByte

(* FlattenSeq as a loop.                                                   *)
Flattened(seqs, u) ==
    /\ DOMAIN u = 0 .. Len(seqs) /\ u[0] = <<>>
    /\ \A i \in 1 .. Len(seqs) : u[i] = u[i - 1] \o seqs[i]
    /\ FlattenSeq(seqs) = u[Len(seqs)]

LEMMA FlattenLoop ==
    ASSUME NEW S, NEW seqs \in Seq(Seq(S))
    PROVE  \E u \in [0 .. Len(seqs) -> Seq(S)] : Flattened(seqs, u)
  <1> DEFINE n == Len(seqs)
             T == Seq(S)
             step == [i \in 1 .. n |-> [t \in T |-> t \o seqs[i]]]
             flatten[i \in 1 .. n] == IF i = 1 THEN seqs[i] ELSE flatten[i - 1] \o seqs[i]
  <1>1. n \in Nat /\ DOMAIN seqs = 1 .. n /\ \A i \in 1 .. n : seqs[i] \in T
    OBVIOUS
  <1>2. \A i \in 1 .. n : \A t \in T : t \o seqs[i] \in T
    BY <1>1, ConcatProperties
  <1>3. Rounds(step, n, T)
    BY <1>2 DEF Rounds
  <1>4. <<>> \in T
    BY EmptySeq
  <1>0. FlattenSeq(seqs) = IF n = 0 THEN seqs ELSE flatten[n]
    BY DEF FlattenSeq
  <1> HIDE DEF n
  <1>5. PICK u \in [0 .. n -> T] : u[0] = <<>> /\ \A i \in 1 .. n : u[i] = step[i][u[i - 1]]
    <2>1. n \in Nat
      BY <1>1
    <2> HIDE DEF step, T
    <2> QED
      BY <1>3, <1>4, <2>1, Iterates
  <1>6. ASSUME NEW i \in 1 .. n
        PROVE  u[i] = u[i - 1] \o seqs[i]
    <2>1. u[i - 1] \in T
      BY <1>1
    <2> HIDE DEF T
    <2> QED
      BY <1>5, <2>1
  <1>7. u[1] = seqs[1] \/ n = 0
    <2> SUFFICES ASSUME n # 0
                 PROVE  u[1] = seqs[1]
      OBVIOUS
    <2>1. 1 \in 1 .. n
      BY <1>1
    <2>2. u[1] = u[0] \o seqs[1]
      <3>1. 1 - 1 = 0
        OBVIOUS
      <3> QED
        BY <1>6, <2>1, <3>1
    <2>3. u[1] = <<>> \o seqs[1] /\ seqs[1] \in Seq(S)
      BY <1>1, <1>5, <2>1, <2>2
    <2> QED
      BY <2>3
  <1> DEFINE w == [i \in 1 .. n |-> u[i]]
  <1>8. w = [i \in 1 .. n |-> IF i = 1 THEN seqs[i] ELSE w[i - 1] \o seqs[i]]
    <2> SUFFICES ASSUME NEW i \in 1 .. n
                 PROVE  u[i] = IF i = 1 THEN seqs[i] ELSE w[i - 1] \o seqs[i]
      OBVIOUS
    <2>1. CASE i = 1
      BY <1>1, <1>7, <2>1
    <2>2. CASE i # 1
      <3>1. i - 1 \in 1 .. n
        BY <1>1, <2>2
      <3> QED
        BY <1>6, <2>2, <3>1
    <2> QED
      BY <2>1, <2>2
  <1> HIDE DEF w
  <1>9. flatten = [i \in 1 .. n |-> IF i = 1 THEN seqs[i] ELSE flatten[i - 1] \o seqs[i]]
    BY <1>8
  <1> HIDE DEF flatten
  <1>10. \A k \in 1 .. n : flatten[k] = u[k]
    <2> DEFINE done == {k \in 0 .. n : k = 0 \/ flatten[k] = u[k]}
    <2>1. 0 \in done
      BY <1>1
    <2>2. ASSUME NEW k \in Nat, k < n, k \in done
          PROVE  k + 1 \in done
      <3>1. k + 1 \in 1 .. n
        BY <1>1, <2>2
      <3>2. CASE k = 0
        BY <1>1, <1>7, <1>9, <3>1, <3>2
      <3>3. CASE k # 0
        <4>1. flatten[k] = u[k] /\ (k + 1) - 1 = k
          BY <2>2, <3>3
        <4>2. flatten[k + 1] = flatten[k] \o seqs[k + 1]
          <5>1. k + 1 # 1
            BY <2>2, <3>3
          <5>2. flatten[k + 1] = flatten[(k + 1) - 1] \o seqs[k + 1]
            BY <1>9, <3>1, <5>1
          <5> QED
            BY <4>1, <5>2
        <4>3. u[k + 1] = u[k] \o seqs[k + 1]
          BY <1>6, <3>1, <4>1
        <4>4. flatten[k + 1] = u[k + 1]
          BY <4>1, <4>2, <4>3
        <4> QED
          BY <1>1, <3>1, <4>4
      <3> QED
        BY <3>2, <3>3
    <2> HIDE DEF done
    <2>3. \A k \in 0 .. n : k \in done
      BY <1>1, <2>1, <2>2, RoundInduction
    <2> QED
      BY <1>1, <2>3 DEF done
  <1>11. FlattenSeq(seqs) = u[n]
    <2>1. CASE n = 0
      BY <1>0, <1>5, <2>1 DEF n
    <2>2. CASE n # 0
      BY <1>0, <1>1, <1>10, <2>2
    <2> QED
      BY <2>1, <2>2
  <1> QED
    BY <1>5, <1>6, <1>11 DEF Flattened, n

LEMMA PctEncodeType ==
    ASSUME NEW t \in Text
    PROVE  PctEncode(t) \in Text
  <1> DEFINE bytes == [i \in DOMAIN t |-> PctByte(t[i])]
  <1>1. Len(t) \in Nat /\ DOMAIN t = 1 .. Len(t) /\ \A i \in 1 .. Len(t) : PctByte(t[i]) \in Seq(Byte)
    BY TextFields, PctByteType
  <1>2. bytes \in Seq(Seq(Byte))
    <2> HIDE DEF Byte
    <2> QED
      BY <1>1
  <1> HIDE DEF bytes, Byte
  <1>3. PICK u \in [0 .. Len(bytes) -> Seq(Byte)] : Flattened(bytes, u)
    BY <1>2, FlattenLoop
  <1>4. Len(bytes) \in 0 .. Len(bytes)
    BY <1>2
  <1>5. FlattenSeq(bytes) \in Seq(Byte)
    BY <1>3, <1>4 DEF Flattened
  <1> QED
    BY <1>5, TextIsBytes DEF PctEncode, bytes

LEMMA SegmentType ==
    ASSUME NEW tag \in {"w", "d", "t", "c", "x"}, NEW text \in Text,
           NEW hash \in Hashes \cup {NoHash}
    PROVE  <<Segment(tag, text, hash)>> \in Seq(SegmentSet)
  <1>1. Segment(tag, text, hash) \in SegmentSet
    BY DEF Segment, SegmentSet
  <1> HIDE DEF SegmentSet
  <1> QED
    BY <1>1

LEMMA EncodeType ==
    ASSUME NEW r \in ContractReport
    PROVE  Encode(r) \in WireEntry
  <1> DEFINE code == IF r.hash = NoHash THEN <<>> ELSE <<Segment("c", None, r.hash)>>
             name == IF Trim(r.title) = None THEN <<>>
                     ELSE <<Segment("t", PctEncode(Trim(r.title)), NoHash)>>
             kind == CASE r.web = "yes" -> <<Segment("w", None, NoHash)>> \o name
                       [] r.web = "no" -> <<Segment("d", None, NoHash)>>
                       [] OTHER -> <<>>
             S == Seq(SegmentSet)
  <1>1. r.key \in Keys /\ r.title \in Text /\ r.hash \in Hashes \cup {NoHash}
    BY DEF ContractReport, Title
  <1>2. Trim(r.title) \in Text
    BY <1>1, TrimType DEF Text
  <1>3. PctEncode(Trim(r.title)) \in Text
    BY <1>2, PctEncodeType
  <1>4. <<>> \in S
    BY EmptySeq
  <1>5. code \in S
    BY <1>1, <1>4, NoneType, SegmentType
  <1>6. name \in S
    BY <1>3, <1>4, SegmentType
  <1>7. <<Segment("w", None, NoHash)>> \in S /\ <<Segment("d", None, NoHash)>> \in S
    BY NoneType, SegmentType
  <1>8. Encode(r) = [key |-> r.key, segments |-> code \o kind]
    BY DEF Encode
  <1> HIDE DEF code, name, SegmentSet
  <1>9. kind \in S
    <2>1. <<Segment("w", None, NoHash)>> \o name \in S
      BY <1>6, <1>7, ConcatProperties
    <2> QED
      BY <1>4, <1>7, <2>1
  <1> HIDE DEF kind
  <1>10. code \o kind \in S
    BY <1>5, <1>9, ConcatProperties
  <1> QED
    BY <1>1, <1>8, <1>10 DEF WireEntry

LEMMA ReverseType ==
    ASSUME NEW S, NEW s \in Seq(S)
    PROVE  Reverse(s) \in Seq(S)
  BY DEF Reverse

LEMMA DialectType ==
    ASSUME NEW raw \in WireEntry, NEW d
    PROVE  Dialect(d, raw) \in WireEntry
  <1> DEFINE S == Seq(SegmentSet)
             more == <<Segment("x", None, NoHash)>> \o Reverse(raw.segments)
  <1>1. raw.segments \in S
    BY DEF WireEntry
  <1>2. <<Segment("x", None, NoHash)>> \in S
    BY NoneType, SegmentType
  <1> HIDE DEF SegmentSet
  <1>3. Reverse(raw.segments) \in S
    BY <1>1, ReverseType
  <1>4. more \in S
    BY <1>2, <1>3, ConcatProperties
  <1>5. Dialect(d, raw) = IF d = "foreign" THEN [raw EXCEPT !.segments = more] ELSE raw
    BY DEF Dialect
  <1> HIDE DEF more, S
  <1>6. WireEntry = [key : Keys, segments : S]
    BY DEF WireEntry, S
  <1>7. [raw EXCEPT !.segments = more] \in WireEntry
    BY <1>4, <1>6
  <1> QED
    BY <1>5, <1>7

LEMMA ReadSegmentType ==
    ASSUME NEW r \in ContractReport, NEW s \in SegmentSet
    PROVE  ReadSegment(r, s) \in ContractReport /\ ReadSegment(r, s).key = r.key
  <1>1. s.tag \in {"w", "d", "t", "c", "x"} /\ s.text \in Text /\ s.hash \in Hashes \cup {NoHash}
    BY DEF SegmentSet
  <1>2. PctDecode(s.text) \in Title
    BY <1>1, PctDecodeType
  <1> DEFINE Ok(x) == x \in ContractReport /\ x.key = r.key
  <1>3. /\ Ok([r EXCEPT !.web = "yes"]) /\ Ok([r EXCEPT !.web = "no"])
        /\ Ok([r EXCEPT !.title = PctDecode(s.text)]) /\ Ok([r EXCEPT !.hash = s.hash])
    BY <1>1, <1>2 DEF ContractReport
  <1>4. Ok(r)
    OBVIOUS
  <1> HIDE DEF Ok
  <1>5. Ok(ReadSegment(r, s))
    BY <1>3, <1>4 DEF ReadSegment
  <1> QED
    BY <1>5 DEF Ok

(* The rounds of decode_contract_entry.                                    *)
NothingRead(raw) == [key |-> raw.key, web |-> "none", title |-> None, hash |-> NoHash]

Reads(raw, u) ==
    /\ u \in [0 .. Len(raw.segments) -> ContractReport]
    /\ u[0] = NothingRead(raw)
    /\ \A i \in 1 .. Len(raw.segments) : u[i] = ReadSegment(u[i - 1], raw.segments[i])
    /\ Decode(raw) = u[Len(raw.segments)]

LEMMA DecodeLoop ==
    ASSUME NEW raw \in WireEntry
    PROVE  \E u : Reads(raw, u)
  <1> DEFINE segs == raw.segments
             n == Len(segs)
             first == NothingRead(raw)
             C == ContractReport
             upTo[i \in 0 .. n] == IF i = 0 THEN first ELSE ReadSegment(upTo[i - 1], segs[i])
             step == [i \in 1 .. n |-> [r \in C |-> ReadSegment(r, segs[i])]]
  <1>1. n \in Nat /\ \A i \in 1 .. n : segs[i] \in SegmentSet
    <2>1. segs \in Seq(SegmentSet)
      BY DEF WireEntry
    <2> HIDE DEF SegmentSet
    <2> QED
      BY <2>1
  <1>2. first \in C
    BY NoneType DEF NothingRead, ContractReport, WireEntry
  <1>3. Decode(raw) = upTo[n]
    BY DEF Decode, NothingRead
  <1>4. Rounds(step, n, C)
    BY <1>1, ReadSegmentType DEF Rounds
  <1> HIDE DEF n, first, C, segs
  <1>5. PICK u \in [0 .. n -> C] : u[0] = first /\ \A i \in 1 .. n : u[i] = step[i][u[i - 1]]
    <2> HIDE DEF step, upTo
    <2> QED
      BY <1>1, <1>2, <1>4, Iterates
  <1>6. \A i \in 1 .. n : u[i] = ReadSegment(u[i - 1], segs[i])
    <2> SUFFICES ASSUME NEW i \in 1 .. n
                 PROVE  u[i] = ReadSegment(u[i - 1], segs[i])
      OBVIOUS
    <2>1. u[i - 1] \in C
      BY <1>1
    <2> QED
      BY <1>5, <2>1
  <1>7. u = [i \in 0 .. n |-> IF i = 0 THEN first ELSE ReadSegment(u[i - 1], segs[i])]
    BY <1>1, <1>5, <1>6
  <1>8. upTo = [i \in 0 .. n |-> IF i = 0 THEN first ELSE ReadSegment(upTo[i - 1], segs[i])]
    BY <1>7
  <1> HIDE DEF upTo
  <1>9. upTo[0] = first /\ \A i \in 1 .. n : upTo[i] = ReadSegment(upTo[i - 1], segs[i])
    BY <1>1, <1>8
  <1>10. \A k \in 0 .. n : upTo[k] \in C
    <2> DEFINE done == {k \in 0 .. n : upTo[k] \in C}
    <2>1. 0 \in done
      BY <1>1, <1>2, <1>9
    <2>2. ASSUME NEW k \in Nat, k < n, k \in done
          PROVE  k + 1 \in done
      <3>1. k + 1 \in 1 .. n /\ upTo[k + 1] = ReadSegment(upTo[k], segs[k + 1])
        BY <1>1, <1>9, <2>2
      <3>2. upTo[k] \in ContractReport /\ segs[k + 1] \in SegmentSet
        BY <1>1, <2>2, <3>1 DEF C
      <3>3. upTo[k + 1] \in C
        BY <3>1, <3>2, ReadSegmentType DEF C
      <3> QED
        BY <1>1, <3>1, <3>3
    <2> HIDE DEF done
    <2>3. \A k \in 0 .. n : k \in done
      BY <1>1, <2>1, <2>2, RoundInduction
    <2> QED
      BY <2>3 DEF done
  <1>11. upTo \in [0 .. n -> C]
    BY <1>8, <1>10
  <1> QED
    BY <1>3, <1>9, <1>11 DEF Reads, n, first, segs, C

LEMMA DecodeType ==
    ASSUME NEW raw \in WireEntry
    PROVE  Decode(raw) \in ContractReport /\ Decode(raw).key = raw.key
  <1> DEFINE n == Len(raw.segments)
  <1>1. PICK u : Reads(raw, u)
    BY DecodeLoop
  <1>2. n \in Nat /\ \A i \in 1 .. n : raw.segments[i] \in SegmentSet
    <2>1. raw.segments \in Seq(SegmentSet)
      BY DEF WireEntry
    <2> HIDE DEF SegmentSet
    <2> QED
      BY <2>1
  <1> HIDE DEF n
  <1>3. u \in [0 .. n -> ContractReport] /\ Decode(raw) = u[n]
    BY <1>1 DEF Reads, n
  <1> DEFINE done == {k \in 0 .. n : u[k].key = raw.key}
  <1>4. 0 \in done
    BY <1>1, <1>2 DEF Reads, NothingRead
  <1>5. ASSUME NEW k \in Nat, k < n, k \in done
        PROVE  k + 1 \in done
    <2>1. k + 1 \in 1 .. n /\ k \in 0 .. n /\ (k + 1) - 1 = k
      BY <1>2, <1>5
    <2>2. u[k + 1] = ReadSegment(u[k], raw.segments[k + 1])
      <3>1. u[k + 1] = ReadSegment(u[(k + 1) - 1], raw.segments[k + 1])
        BY <1>1, <2>1 DEF Reads, n
      <3> QED
        BY <2>1, <3>1
    <2>3. u[k] \in ContractReport /\ raw.segments[k + 1] \in SegmentSet
      BY <1>2, <1>3, <2>1
    <2>4. u[k + 1].key = u[k].key
      BY <2>2, <2>3, ReadSegmentType
    <2> QED
      BY <1>2, <1>5, <2>1, <2>4
  <1> HIDE DEF done
  <1>6. \A k \in 0 .. n : k \in done
    BY <1>2, <1>4, <1>5, RoundInduction
  <1>7. n \in done /\ n \in 0 .. n
    BY <1>2, <1>6
  <1> QED
    BY <1>3, <1>7 DEF done

-----------------------------------------------------------------------------
(***************************************************************************)
(* A title comes through the codec as it went in, but for the spaces       *)
(* around it.                                                              *)
(***************************************************************************)
(* What trim keeps: from the first byte that is no space to the last.      *)
Cut(t, a, b) ==
    /\ a \in 1 .. Len(t) /\ b \in a .. Len(t) /\ t[a] # Space /\ t[b] # Space
    /\ \A i \in 1 .. Len(t) : i < a \/ i > b => t[i] = Space
    /\ Len(Trim(t)) = b - a + 1
    /\ \A k \in 1 .. b - a + 1 : Trim(t)[k] = t[a + k - 1]

LEMMA TrimCuts ==
    ASSUME NEW t \in Text, Trim(t) # None
    PROVE  \E a, b : Cut(t, a, b)
  <1> DEFINE solid == {i \in DOMAIN t : t[i] # Space}
             a == Min(solid)
             b == Max(solid)
  <1>1. Len(t) \in Nat /\ DOMAIN t = 1 .. Len(t) /\ \A i \in 1 .. Len(t) : t[i] \in Byte
    BY TextFields
  <1>2. solid # {} /\ Trim(t) = SubSeq(t, a, b)
    BY DEF Trim
  <1>3. solid \in SUBSET (1 .. Len(t))
    BY <1>1
  <1>4. \A i \in 1 .. Len(t) : i \in solid <=> t[i] # Space
    BY <1>1
  <1> HIDE DEF solid
  <1>5. a \in solid /\ b \in solid /\ \A k \in solid : a <= k /\ b >= k
    BY <1>1, <1>2, <1>3, MinOfPositions, MaxOfPositions
  <1> HIDE DEF a, b
  <1>6. a \in 1 .. Len(t) /\ b \in a .. Len(t) /\ t[a] # Space /\ t[b] # Space
    <2>1. a \in 1 .. Len(t) /\ b \in 1 .. Len(t) /\ a <= b
      BY <1>3, <1>5
    <2>2. t[a] # Space /\ t[b] # Space
      BY <1>4, <1>5, <2>1
    <2> QED
      BY <1>1, <2>1, <2>2
  <1>7. ASSUME NEW i \in 1 .. Len(t), i < a \/ i > b
        PROVE  t[i] = Space
    <2>1. i \notin solid
      BY <1>1, <1>5, <1>6, <1>7
    <2> QED
      BY <1>4, <2>1
  <1>8. \A i \in a .. b : t[i] \in Byte
    BY <1>1, <1>6
  <1>9. a \in Int /\ b \in Int /\ a <= b
    BY <1>1, <1>6
  <1>10. Len(Trim(t)) = b - a + 1 /\ \A k \in 1 .. b - a + 1 : Trim(t)[k] = t[a + k - 1]
    BY <1>2, <1>8, <1>9, SubSeqProperties
  <1>11. Cut(t, a, b)
    BY <1>6, <1>7, <1>10 DEF Cut
  <1> QED
    BY <1>11

LEMMA TrimTwice ==
    ASSUME NEW t \in Text
    PROVE  Trim(Trim(t)) = Trim(t)
  <1> DEFINE s == Trim(t)
  <1>1. CASE s = None
    <2>1. Trim(None) = None
      BY DEF Trim, None
    <2> QED
      BY <1>1, <2>1
  <1>2. CASE s # None
    <2>1. s \in Text /\ s \in Seq(Byte)
      BY TrimType, TextIsBytes DEF Text
    <2>2. PICK a, b : Cut(t, a, b)
      BY <1>2, TrimCuts
    <2>3. Len(t) \in Nat
      BY TextFields
    <2> DEFINE n == Len(s)
    <2>4. n \in Nat /\ n >= 1 /\ s[1] # Space /\ s[n] # Space /\ DOMAIN s = 1 .. n
      <3>1. a \in Nat /\ b \in Nat /\ a <= b /\ n = b - a + 1 /\ t[a] # Space /\ t[b] # Space
            /\ \A k \in 1 .. b - a + 1 : s[k] = t[a + k - 1]
        BY <2>2, <2>3 DEF Cut
      <3>2. DOMAIN s = 1 .. n
        BY <2>1, TextFields
      <3> HIDE DEF s
      <3>3. 1 \in 1 .. b - a + 1 /\ n \in 1 .. b - a + 1 /\ a + 1 - 1 = a /\ a + n - 1 = b
        BY <3>1
      <3>4. s[1] = t[a] /\ s[n] = t[b]
        BY <3>1, <3>3
      <3> QED
        BY <3>1, <3>2, <3>4
    <2> DEFINE solid == {i \in DOMAIN s : s[i] # Space}
    <2>5. 1 \in solid /\ n \in solid /\ solid \in SUBSET (1 .. n)
      BY <2>4
    <2>6. Trim(s) = SubSeq(s, Min(solid), Max(solid))
      BY <2>5 DEF Trim
    <2> HIDE DEF solid, s
    <2>7. Min(solid) = 1 /\ Max(solid) = n
      <3>1. /\ Min(solid) \in solid /\ Min(solid) <= 1
            /\ Max(solid) \in solid /\ Max(solid) >= n
        BY <2>4, <2>5, MinOfPositions, MaxOfPositions
      <3>2. Min(solid) \in 1 .. n /\ Max(solid) \in 1 .. n
        BY <2>5, <3>1
      <3> QED
        BY <2>4, <3>1, <3>2
    <2> QED
      BY <2>1, <2>6, <2>7, SubSeqFull DEF s
  <1> QED
    BY <1>1, <1>2

(* The bytes of a character stay together.                                 *)
LEMMA TrimTitle ==
    ASSUME NEW t \in Title
    PROVE  Trim(t) \in Title
  <1> DEFINE s == Trim(t)
  <1>1. t \in Text /\ IsUtf8(t)
    BY DEF Title
  <1>2. CASE s = None
    BY <1>2, NoneType
  <1>3. CASE s # None
    <2>1. s \in Text
      BY <1>1, TrimType DEF Text
    <2>2. PICK a, b : Cut(t, a, b)
      BY <1>1, <1>3, TrimCuts
    <2> DEFINE n == Len(s)
    <2>3. Len(t) \in Nat /\ DOMAIN t = 1 .. Len(t) /\ DOMAIN s = 1 .. n
      BY <1>1, <2>1, TextFields
    <2>4. /\ a \in 1 .. Len(t) /\ b \in a .. Len(t) /\ t[a] # Space /\ t[b] # Space
          /\ \A i \in 1 .. Len(t) : i < a \/ i > b => t[i] = Space
          /\ n = b - a + 1 /\ \A k \in 1 .. n : s[k] = t[a + k - 1]
      BY <2>2 DEF Cut
    <2> HIDE DEF s, n
    <2>5. CharWidth(Space) = 1 /\ \A i : \A x \in Seconds(i) \cup (128 .. 191) : x # Space
      BY DEF CharWidth, Seconds, Space
    <2>6. \A x : CharWidth(x) \in 0 .. 4
      BY DEF CharWidth
    <2>7. ASSUME NEW k \in 1 .. n
          PROVE  \E j \in 0 .. 3 : CharAt(s, k - j) /\ j < CharWidth(s[k - j])
      <3> DEFINE i == a + k - 1
      <3>1. i \in 1 .. Len(t) /\ i >= a /\ i <= b
        BY <2>3, <2>4
      <3>2. PICK j \in 0 .. 3 : CharAt(t, i - j) /\ j < CharWidth(t[i - j])
        BY <1>1, <2>3, <3>1 DEF IsUtf8
      <3> DEFINE w == CharWidth(t[i - j])
      <3>3. /\ i - j \in 1 .. Len(t) /\ w > 0 /\ w \in 0 .. 4
            /\ \A m \in 1 .. w - 1 :
                  /\ i - j + m \in 1 .. Len(t)
                  /\ t[i - j + m] \in IF m = 1 THEN Seconds(t[i - j]) ELSE 128 .. 191
        BY <2>3, <2>6, <3>2 DEF CharAt
      <3>4. j < w
        BY <3>2
      <3>5. i - j >= a
        <4> SUFFICES ASSUME i - j < a
                     PROVE  FALSE
          BY <2>3, <2>4, <3>1, <3>3
        <4>1. t[i - j] = Space
          BY <2>4, <3>3
        <4>2. w = 1
          BY <2>5, <4>1
        <4> HIDE DEF w
        <4> QED
          BY <2>3, <2>4, <3>1, <3>4, <4>2
      <3>6. ASSUME NEW m \in 1 .. w - 1
            PROVE  i - j + m <= b
        <4> SUFFICES ASSUME i - j + m > b
                     PROVE  FALSE
          BY <2>3, <2>4, <3>1, <3>3, <3>6
        <4>1. t[i - j + m] = Space
          BY <2>4, <3>3, <3>6
        <4>2. t[i - j + m] # Space
          <5>1. t[i - j + m] \in IF m = 1 THEN Seconds(t[i - j]) ELSE 128 .. 191
            BY <3>3, <3>6
          <5> QED
            BY <2>5, <5>1
        <4> QED
          BY <4>1, <4>2
      <3>7. k - j \in 1 .. n /\ s[k - j] = t[i - j]
        <4>1. k - j \in 1 .. n
          BY <2>3, <2>4, <3>5
        <4>2. a + (k - j) - 1 = i - j
          BY <2>3, <2>4
        <4> QED
          BY <2>4, <4>1, <4>2
      <3>8. ASSUME NEW m \in 1 .. w - 1
            PROVE  k - j + m \in 1 .. n /\ s[k - j + m] = t[i - j + m]
        <4>1. i - j + m <= b /\ i - j >= a /\ w \in Int
          BY <3>3, <3>5, <3>6, <3>8
        <4> HIDE DEF w
        <4>2. k - j + m \in 1 .. n
          <5>1. a \in Int /\ b \in Int /\ k \in Int /\ j \in Int /\ m \in Int /\ m >= 1
            BY <2>3, <2>4, <3>8, <4>1
          <5>2. n = b - a + 1 /\ (a + k - 1) - j + m <= b /\ k - j >= 1
            BY <2>4, <3>7, <4>1
          <5> HIDE DEF n, i
          <5> QED
            BY <5>1, <5>2
        <4>3. a + (k - j + m) - 1 = i - j + m
          <5>1. a \in Int /\ k \in Int /\ j \in Int /\ m \in Int
            BY <2>3, <2>4, <3>8, <4>1
          <5> QED
            BY <5>1
        <4> QED
          BY <2>4, <4>2, <4>3
      <3>9. CharAt(s, k - j)
        <4>1. w = CharWidth(s[k - j]) /\ Seconds(s[k - j]) = Seconds(t[i - j])
          BY <3>7
        <4>2. \A m \in 1 .. w - 1 :
                 /\ k - j + m \in DOMAIN s
                 /\ s[k - j + m] \in IF m = 1 THEN Seconds(s[k - j]) ELSE 128 .. 191
          BY <2>3, <3>3, <3>8, <4>1
        <4> HIDE DEF w
        <4> QED
          BY <2>3, <3>3, <3>7, <4>1, <4>2 DEF CharAt
      <3> QED
        BY <3>4, <3>7, <3>9
    <2>8. IsUtf8(s)
      BY <2>3, <2>7 DEF IsUtf8
    <2> QED
      BY <2>1, <2>8 DEF Title, s
  <1> QED
    BY <1>2, <1>3

LEMMA HexReads ==
    ASSUME NEW n \in 0 .. 15
    PROVE  HexValue(HexDigit(n)) = n
  BY DEF HexValue, HexDigit

(* How pct_decode tells what pct_encode made of a byte: one byte that is   *)
(* no percent sign, or an escape.                                          *)
Literal(e, b) ==
    Len(e) = 1 /\ e[1] # Percent /\ b = IF e[1] = Plus THEN Space ELSE e[1]

Escape(e, b) ==
    /\ Len(e) = 3 /\ e[1] = Percent
    /\ HexValue(e[2]) >= 0 /\ HexValue(e[3]) >= 0
    /\ b = 16 * HexValue(e[2]) + HexValue(e[3])

LEMMA PctByteReads ==
    ASSUME NEW b \in Byte
    PROVE  Literal(PctByte(b), b) \/ Escape(PctByte(b), b)
  <1>1. CASE b \in Unreserved
    <2>1. b # Percent /\ b # Plus
      BY <1>1 DEF Unreserved, Percent, Plus
    <2>2. PctByte(b) = <<b>>
      BY <1>1 DEF PctByte
    <2> QED
      BY <2>1, <2>2 DEF Literal
  <1>2. CASE b \notin Unreserved /\ b = Space
    <2>1. PctByte(b) = <<Plus>>
      BY <1>2 DEF PctByte
    <2> QED
      BY <1>2, <2>1 DEF Literal, Plus, Percent
  <1>3. CASE b \notin Unreserved /\ b # Space
    <2> DEFINE h == b \div 16  l == b % 16
    <2>1. h \in 0 .. 15 /\ l \in 0 .. 15
      BY Digits
    <2>2. b = 16 * h + l
      BY DEF Byte
    <2>3. PctByte(b) = <<Percent, HexDigit(h), HexDigit(l)>>
      BY <1>3 DEF PctByte
    <2> HIDE DEF h, l
    <2>4. HexValue(HexDigit(h)) = h /\ HexValue(HexDigit(l)) = l
      BY <2>1, HexReads
    <2> DEFINE x == HexDigit(h)  y == HexDigit(l)
    <2> HIDE DEF x, y
    <2>5. PctByte(b) = <<Percent, x, y>> /\ HexValue(x) = h /\ HexValue(y) = l
      BY <2>3, <2>4 DEF x, y
    <2> DEFINE e == PctByte(b)
    <2>6. Len(e) = 3 /\ e[1] = Percent /\ e[2] = x /\ e[3] = y
      BY <2>5
    <2> HIDE DEF e
    <2>7. Escape(e, b)
      BY <2>1, <2>2, <2>5, <2>6 DEF Escape
    <2> QED
      BY <2>7 DEF e
  <1> QED
    BY <1>1, <1>2, <1>3

LEMMA ConcatParts ==
    ASSUME NEW S, NEW v \in Seq(S), NEW w \in Seq(S)
    PROVE  /\ Len(v) \in Nat /\ Len(w) \in Nat /\ Len(v \o w) = Len(v) + Len(w)
           /\ \A i \in 1 .. Len(v) : (v \o w)[i] = v[i]
           /\ \A j \in 1 .. Len(w) : (v \o w)[Len(v) + j] = w[j]
  <1>1. Len(v) \in Nat /\ Len(w) \in Nat
    OBVIOUS
  <1> DEFINE c == v \o w
             m == Len(v)
             n == Len(w)
  <1>2. Len(c) = m + n /\ \A i \in 1 .. m + n : c[i] = IF i <= m THEN v[i] ELSE w[i - m]
    BY ConcatProperties
  <1>3. m \in Nat /\ n \in Nat
    BY <1>1
  <1> HIDE DEF c, m, n
  <1>4. \A i \in 1 .. m : c[i] = v[i]
    BY <1>2, <1>3
  <1>5. ASSUME NEW j \in 1 .. n
        PROVE  c[m + j] = w[j]
    <2>1. m + j \in 1 .. m + n /\ ~(m + j <= m) /\ (m + j) - m = j
      BY <1>3
    <2> QED
      BY <1>2, <2>1
  <1> QED
    BY <1>2, <1>3, <1>4, <1>5 DEF c, m, n

(* Where the parts of a flattened sequence are.                            *)
PartsAt(seqs, u, all) ==
    /\ \A k \in 0 .. Len(seqs) : Len(u[k]) \in Nat
    /\ \A k \in 1 .. Len(seqs) :
          /\ Len(u[k]) = Len(u[k - 1]) + Len(seqs[k])
          /\ Len(u[k]) <= Len(all)
          /\ \A j \in 1 .. Len(seqs[k]) : all[Len(u[k - 1]) + j] = seqs[k][j]

LEMMA FlattenedParts ==
    ASSUME NEW S, NEW seqs \in Seq(Seq(S)), NEW u \in [0 .. Len(seqs) -> Seq(S)],
           Flattened(seqs, u)
    PROVE  PartsAt(seqs, u, FlattenSeq(seqs))
  <1> DEFINE n == Len(seqs)
             T == Seq(S)
             Begins(a, b) == Len(a) <= Len(b) /\ \A i \in 1 .. Len(a) : b[i] = a[i]
  <1>1. n \in Nat /\ \A k \in 1 .. n : seqs[k] \in T
    OBVIOUS
  <1>2. \A k \in 1 .. n : u[k] = u[k - 1] \o seqs[k]
    BY DEF Flattened
  <1>3. FlattenSeq(seqs) = u[n]
    BY DEF Flattened
  <1>4. \A k \in 0 .. n : u[k] \in T
    OBVIOUS
  <1>5. \A a \in T : Len(a) \in Nat
    BY LenProperties
  <1> HIDE DEF n
  <1>6. ASSUME NEW k \in 1 .. n
        PROVE  /\ Len(u[k - 1]) \in Nat /\ Len(seqs[k]) \in Nat
               /\ Len(u[k]) = Len(u[k - 1]) + Len(seqs[k])
               /\ \A i \in 1 .. Len(u[k - 1]) : u[k][i] = u[k - 1][i]
               /\ \A j \in 1 .. Len(seqs[k]) : u[k][Len(u[k - 1]) + j] = seqs[k][j]
    <2>1. k - 1 \in 0 .. n
      BY <1>1
    <2>2. u[k - 1] \in Seq(S) /\ seqs[k] \in Seq(S)
      BY <1>1, <1>4, <2>1
    <2> DEFINE v == u[k - 1]
               w == seqs[k]
    <2> HIDE DEF v, w
    <2>3. v \in Seq(S) /\ w \in Seq(S)
      BY <2>2 DEF v, w
    <2>4. /\ Len(v) \in Nat /\ Len(w) \in Nat /\ Len(v \o w) = Len(v) + Len(w)
          /\ \A i \in 1 .. Len(v) : (v \o w)[i] = v[i]
          /\ \A j \in 1 .. Len(w) : (v \o w)[Len(v) + j] = w[j]
      BY <2>3, ConcatParts
    <2>5. u[k] = v \o w
      BY <1>2 DEF v, w
    <2> QED
      BY <2>4, <2>5 DEF v, w
  <1> HIDE DEF T
  <1>7. ASSUME NEW k \in 1 .. n
        PROVE  Begins(u[k - 1], u[k])
    <2> DEFINE l == Len(u[k - 1])
               m == Len(seqs[k])
    <2>1. l \in Nat /\ m \in Nat /\ Len(u[k]) = l + m /\ \A i \in 1 .. l : u[k][i] = u[k - 1][i]
      BY <1>6
    <2> HIDE DEF l, m
    <2>2. l <= Len(u[k])
      BY <2>1
    <2> QED
      BY <2>1, <2>2 DEF l
  <1> DEFINE done == {m \in 0 .. n : \A k \in 0 .. m : Begins(u[k], u[m])}
  <1>8. 0 \in done
    <2>1. Len(u[0]) \in Nat
      BY <1>1, <1>4, <1>5
    <2> QED
      BY <1>1, <2>1
  <1>9. ASSUME NEW m \in Nat, m < n, m \in done
        PROVE  m + 1 \in done
    <2>1. m + 1 \in 1 .. n /\ m \in 0 .. n /\ (m + 1) - 1 = m
      BY <1>1, <1>9
    <2>2. Begins(u[m], u[m + 1])
      <3>1. Begins(u[(m + 1) - 1], u[m + 1])
        BY <1>7, <2>1
      <3> QED
        BY <2>1, <3>1
    <2>3. Len(u[m]) \in Nat /\ Len(u[m + 1]) \in Nat
      BY <1>1, <1>4, <1>5, <2>1
    <2>4. ASSUME NEW k \in 0 .. m + 1
          PROVE  Begins(u[k], u[m + 1])
      <3>1. Len(u[k]) \in Nat
        BY <1>1, <1>4, <1>5, <2>1
      <3>2. CASE k = m + 1
        BY <2>3, <3>2
      <3>3. CASE k # m + 1
        <4> DEFINE x == u[k]  y == u[m]  z == u[m + 1]
        <4> SUFFICES Begins(x, z)
          OBVIOUS
        <4>1. Begins(x, y)
          BY <1>9, <3>3
        <4>2. Begins(y, z)
          BY <2>2
        <4>3. Len(x) \in Nat /\ Len(y) \in Nat /\ Len(z) \in Nat
          BY <2>3, <3>1
        <4> HIDE DEF x, y, z
        <4> QED
          BY <4>1, <4>2, <4>3
      <3> QED
        BY <3>2, <3>3
    <2> HIDE DEF Begins
    <2> QED
      BY <2>1, <2>4
  <1> HIDE DEF done
  <1>10. \A m \in 0 .. n : m \in done
    BY <1>1, <1>8, <1>9, RoundInduction
  <1>11. \A k \in 0 .. n : Begins(u[k], u[n])
    BY <1>1, <1>10 DEF done
  <1>12. ASSUME NEW k \in 1 .. n
         PROVE  /\ Len(u[k]) <= Len(u[n])
                /\ \A j \in 1 .. Len(seqs[k]) : u[n][Len(u[k - 1]) + j] = seqs[k][j]
    <2> HIDE DEF Begins
    <2>1. Begins(u[k], u[n])
      <3>1. k \in 0 .. n
        BY <1>1
      <3> QED
        BY <1>11, <3>1
    <2> DEFINE l == Len(u[k - 1])
    <2>2. l \in Nat /\ Len(seqs[k]) \in Nat /\ Len(u[k]) = l + Len(seqs[k])
          /\ \A j \in 1 .. Len(seqs[k]) : u[k][l + j] = seqs[k][j]
      BY <1>6
    <2> HIDE DEF l
    <2>3. ASSUME NEW j \in 1 .. Len(seqs[k])
          PROVE  u[n][l + j] = seqs[k][j]
      <3>1. l + j \in 1 .. Len(u[k])
        BY <2>2
      <3>2. u[n][l + j] = u[k][l + j]
        BY <2>1, <3>1 DEF Begins
      <3> QED
        BY <2>2, <3>2
    <2> QED
      BY <2>1, <2>3 DEF l, Begins
  <1> QED
    BY <1>3, <1>4, <1>5, <1>6, <1>12 DEF n, PartsAt

(* pct_decode reads what pct_encode made of a byte as that byte.           *)
StandsAt(s, l, e) == l + Len(e) <= Len(s) /\ \A j \in 1 .. Len(e) : s[l + j] = e[j]

LEMMA ReadsByte ==
    ASSUME NEW s \in Text, NEW d, Decoded(s, d), NEW l \in Nat, l <= Len(s), d[l].next = l + 1,
           NEW b \in Byte, StandsAt(s, l, PctByte(b))
    PROVE  d[l + Len(PctByte(b))] =
              [out |-> Append(d[l].out, b), next |-> l + Len(PctByte(b)) + 1]
  <1> DEFINE e == PctByte(b)
  <1> SUFFICES d[l + Len(e)] = [out |-> Append(d[l].out, b), next |-> l + Len(e) + 1]
    OBVIOUS
  <1>0. l + Len(e) <= Len(s) /\ \A j \in 1 .. Len(e) : s[l + j] = e[j]
    BY DEF StandsAt
  <1>5. Literal(e, b) \/ Escape(e, b)
    BY PctByteReads
  <1> HIDE DEF e
  <1>1. Len(s) \in Nat
    BY TextFields
  <1>2. \A i \in 1 .. Len(s) : d[i] = PctStep(s, i, d[i - 1])
    BY DEF Decoded
  <1>3. CASE Literal(e, b)
    <2>1. Len(e) = 1 /\ e[1] # Percent /\ b = IF e[1] = Plus THEN Space ELSE e[1]
      BY <1>3 DEF Literal
    <2>2. s[l + 1] = e[1] /\ l + 1 \in 1 .. Len(s) /\ (l + 1) - 1 = l
      BY <1>0, <1>1, <2>1
    <2>3. d[l + 1] = PctStep(s, l + 1, d[l])
      <3>1. d[l + 1] = PctStep(s, l + 1, d[(l + 1) - 1])
        BY <1>2, <2>2
      <3> QED
        BY <2>2, <3>1
    <2>4. ~(l + 1 < d[l].next) /\ ~AtEscape(s, l + 1)
      <3>1. s[l + 1] # Percent
        BY <2>1, <2>2
      <3>2. ~AtEscape(s, l + 1)
        BY <3>1 DEF AtEscape
      <3>3. ~(l + 1 < d[l].next)
        OBVIOUS
      <3> QED
        BY <3>2, <3>3
    <2>5. PctStep(s, l + 1, d[l]) = [out |-> Append(d[l].out, b), next |-> (l + 1) + 1]
      BY <2>1, <2>2, <2>4 DEF PctStep
    <2> QED
      BY <2>1, <2>3, <2>5
  <1>4. CASE Escape(e, b)
    <2>1. /\ Len(e) = 3 /\ e[1] = Percent
          /\ HexValue(e[2]) >= 0 /\ HexValue(e[3]) >= 0
          /\ b = 16 * HexValue(e[2]) + HexValue(e[3])
      BY <1>4 DEF Escape
    <2>2. s[l + 1] = e[1] /\ s[l + 2] = e[2] /\ s[l + 3] = e[3] /\ l + 3 <= Len(s)
      BY <1>0, <2>1
    <2>3. /\ l + 1 \in 1 .. Len(s) /\ l + 2 \in 1 .. Len(s) /\ l + 3 \in 1 .. Len(s)
          /\ (l + 1) - 1 = l /\ (l + 2) - 1 = l + 1 /\ (l + 3) - 1 = l + 2
          /\ (l + 1) + 1 = l + 2 /\ (l + 1) + 2 = l + 3 /\ (l + 1) + 3 = l + 4
      BY <1>1, <2>2
    <2> DEFINE out == [out |-> Append(d[l].out, b), next |-> l + 4]
    <2>4. d[l + 1] = out
      <3>1. d[l + 1] = PctStep(s, l + 1, d[(l + 1) - 1])
        BY <1>2, <2>3
      <3>2. d[l + 1] = PctStep(s, l + 1, d[l])
        BY <2>3, <3>1
      <3>3. ~(l + 1 < d[l].next)
        OBVIOUS
      <3>4. AtEscape(s, l + 1)
        BY <2>1, <2>2, <2>3 DEF AtEscape
      <3>5. PctStep(s, l + 1, d[l]) =
               [out |-> Append(d[l].out, 16 * HexValue(s[(l + 1) + 1]) + HexValue(s[(l + 1) + 2])),
                next |-> (l + 1) + 3]
        BY <3>3, <3>4 DEF PctStep
      <3>6. 16 * HexValue(s[(l + 1) + 1]) + HexValue(s[(l + 1) + 2]) = b
        BY <2>1, <2>2, <2>3
      <3> QED
        BY <2>3, <3>2, <3>5, <3>6
    <2>5. out.next = l + 4
      OBVIOUS
    <2>6. d[l + 2] = out
      <3>1. d[l + 2] = PctStep(s, l + 2, d[(l + 2) - 1])
        BY <1>2, <2>3
      <3>2. d[l + 2] = PctStep(s, l + 2, out)
        BY <2>3, <2>4, <3>1
      <3>3. l + 2 < out.next
        BY <2>5
      <3> HIDE DEF out
      <3> QED
        BY <3>2, <3>3 DEF PctStep
    <2>7. d[l + 3] = out
      <3>1. d[l + 3] = PctStep(s, l + 3, d[(l + 3) - 1])
        BY <1>2, <2>3
      <3>2. d[l + 3] = PctStep(s, l + 3, out)
        BY <2>3, <2>6, <3>1
      <3>3. l + 3 < out.next
        BY <2>5
      <3> HIDE DEF out
      <3> QED
        BY <3>2, <3>3 DEF PctStep
    <2>8. l + Len(e) = l + 3 /\ l + Len(e) + 1 = l + 4
      BY <2>1
    <2> QED
      BY <2>7, <2>8
  <1> QED
    BY <1>3, <1>4, <1>5

LEMMA PctRoundTrip ==
    ASSUME NEW t \in Text
    PROVE  PctDecode(PctEncode(t)) = FromUtf8(t)
  <1> DEFINE seqs == [i \in DOMAIN t |-> PctByte(t[i])]
             n == Len(t)
             s == PctEncode(t)
  <1>1. n \in Nat /\ DOMAIN t = 1 .. n /\ \A i \in 1 .. n : t[i] \in Byte
    BY TextFields
  <1>2. \A i \in 1 .. n : PctByte(t[i]) \in Seq(Byte)
    BY <1>1, PctByteType
  <1> HIDE DEF n
  <1>3. seqs \in Seq(Seq(Byte)) /\ Len(seqs) = n /\ \A i \in 1 .. n : seqs[i] = PctByte(t[i])
    <2> HIDE DEF Byte
    <2> QED
      BY <1>1, <1>2
  <1>4. s = FlattenSeq(seqs) /\ s \in Text
    BY PctEncodeType DEF PctEncode
  <1> HIDE DEF seqs, s
  <1>5. PICK u \in [0 .. Len(seqs) -> Seq(Byte)] : Flattened(seqs, u)
    BY <1>3, FlattenLoop
  <1> DEFINE L(k) == Len(u[k])
  <1>6. /\ \A k \in 0 .. n : L(k) \in Nat
        /\ \A k \in 1 .. n : /\ L(k) = L(k - 1) + Len(seqs[k]) /\ L(k) <= Len(s)
                             /\ \A j \in 1 .. Len(seqs[k]) : s[L(k - 1) + j] = seqs[k][j]
    <2>1. PartsAt(seqs, u, FlattenSeq(seqs))
      <3> HIDE DEF Byte
      <3> QED
        BY <1>3, <1>5, FlattenedParts
    <2>2. s = FlattenSeq(seqs) /\ Len(seqs) = n
      BY <1>3, <1>4
    <2> QED
      BY <2>1, <2>2 DEF PartsAt
  <1>7. L(0) = 0 /\ L(n) = Len(s)
    BY <1>3, <1>4, <1>5 DEF Flattened
  <1> HIDE DEF L
  <1>8. PICK d : Decoded(s, d)
    BY <1>4, PctDecodeLoop
  <1>9. Len(s) \in Nat
    BY <1>4, TextFields
  <1> DEFINE Q(k) == /\ L(k) <= Len(s) /\ d[L(k)].next = L(k) + 1
                     /\ d[L(k)].out \in Seq(Byte) /\ Len(d[L(k)].out) = k
                     /\ \A i \in 1 .. k : d[L(k)].out[i] = t[i]
             done == {k \in 0 .. n : Q(k)}
  <1>10. 0 \in done
    <2>1. d[0].out = <<>> /\ d[0].next = 1
      BY <1>8 DEF Decoded
    <2>2. <<>> \in Seq(Byte) /\ Len(<<>>) = 0
      BY EmptySeq
    <2>3. d[L(0)].out = <<>> /\ d[L(0)].next = L(0) + 1 /\ L(0) <= Len(s)
      BY <1>7, <1>9, <2>1
    <2>4. Q(0)
      BY <2>2, <2>3
    <2> HIDE DEF Q
    <2> QED
      BY <1>1, <2>4
  <1>11. ASSUME NEW k \in Nat, k < n, k \in done
         PROVE  k + 1 \in done
    <2>1. k + 1 \in 1 .. n /\ k \in 0 .. n /\ (k + 1) - 1 = k
      BY <1>1, <1>11
    <2> DEFINE b == t[k + 1]
               e == PctByte(b)
               l == L(k)
    <2>2. Q(k)
      BY <1>11
    <2>3. b \in Byte /\ seqs[k + 1] = e
      BY <1>1, <1>3, <2>1
    <2>4. l \in Nat /\ L(k + 1) = l + Len(e) /\ L(k + 1) <= Len(s)
          /\ \A j \in 1 .. Len(e) : s[l + j] = e[j]
      <3>1. /\ L(k + 1) = L((k + 1) - 1) + Len(seqs[k + 1]) /\ L(k + 1) <= Len(s)
            /\ \A j \in 1 .. Len(seqs[k + 1]) : s[L((k + 1) - 1) + j] = seqs[k + 1][j]
        BY <1>6, <2>1
      <3> QED
        BY <1>6, <2>1, <2>3, <3>1
    <2> HIDE DEF e, l
    <2>5. l <= Len(s) /\ d[l].next = l + 1 /\ d[l].out \in Seq(Byte) /\ Len(d[l].out) = k
          /\ \A i \in 1 .. k : d[l].out[i] = t[i]
      BY <2>2 DEF l
    <2>6. d[l + Len(e)] = [out |-> Append(d[l].out, b), next |-> l + Len(e) + 1]
      <3>1. /\ b \in Byte /\ l \in Nat /\ l <= Len(s) /\ d[l].next = l + 1
            /\ s \in Text /\ Decoded(s, d)
        BY <1>4, <1>8, <2>3, <2>4, <2>5
      <3>2. StandsAt(s, l, PctByte(b))
        BY <2>4 DEF StandsAt, e
      <3> HIDE DEF b, Byte, Q, done
      <3>3. d[l + Len(PctByte(b))] =
               [out |-> Append(d[l].out, b), next |-> l + Len(PctByte(b)) + 1]
        BY <3>1, <3>2, ReadsByte
      <3> QED
        BY <3>3 DEF e
    <2> DEFINE o == Append(d[l].out, b)
    <2>7. o \in Seq(Byte) /\ Len(o) = k + 1 /\ (\A i \in 1 .. k : o[i] = t[i]) /\ o[k + 1] = b
      <3> HIDE DEF b, Byte
      <3> DEFINE q == d[l].out
      <3>0. b \in Byte /\ q \in Seq(Byte)
        BY <2>3, <2>5
      <3> HIDE DEF q
      <3>1. /\ Append(q, b) \in Seq(Byte) /\ Len(Append(q, b)) = Len(q) + 1
            /\ \A i \in 1 .. Len(q) : Append(q, b)[i] = q[i]
            /\ Append(q, b)[Len(q) + 1] = b
        BY <3>0, AppendProperties
      <3>2. Len(q) = k /\ \A i \in 1 .. k : q[i] = t[i]
        BY <2>5 DEF q
      <3> DEFINE w == Append(q, b)
      <3> HIDE DEF w
      <3>3. w \in Seq(Byte) /\ Len(w) = k + 1 /\ (\A i \in 1 .. k : w[i] = t[i]) /\ w[k + 1] = b
        BY <3>1, <3>2 DEF w
      <3>4. o = w
        BY DEF q, w
      <3> HIDE DEF o
      <3> QED
        BY <3>3, <3>4
    <2>8. d[L(k + 1)].out = o /\ d[L(k + 1)].next = L(k + 1) + 1
      BY <2>4, <2>6
    <2> HIDE DEF o
    <2>9. \A i \in 1 .. k + 1 : o[i] = t[i]
      BY <2>1, <2>7
    <2>10. Q(k + 1)
      BY <2>4, <2>7, <2>8, <2>9
    <2> HIDE DEF Q
    <2> QED
      BY <2>1, <2>10
  <1> HIDE DEF done
  <1>12. \A k \in 0 .. n : k \in done
    BY <1>1, <1>10, <1>11, RoundInduction
  <1>13. Q(n)
    BY <1>1, <1>12 DEF done
  <1> DEFINE out == d[Len(s)].out
  <1>14. out \in Seq(Byte) /\ Len(out) = n /\ \A i \in 1 .. n : out[i] = t[i]
    BY <1>7, <1>13
  <1>15. t \in Seq(Byte)
    BY TextIsBytes
  <1> HIDE DEF out
  <1>16. out = t
    BY <1>14, <1>15, SeqEqual DEF n
  <1> QED
    BY <1>8, <1>16 DEF Decoded, out, s

(* What segments tell of a report, in whatever order they come.            *)
Fits(s, d) ==
    /\ s.tag = "w" => d.web = "yes"
    /\ s.tag = "d" => d.web = "no"
    /\ s.tag = "t" => d.title = PctDecode(s.text)
    /\ s.tag = "c" => d.hash = s.hash

Tells(S, d) ==
    /\ \A s \in S : Fits(s, d)
    /\ d.web # "none" => \E s \in S : s.tag \in {"w", "d"}
    /\ d.title # None => \E s \in S : s.tag = "t"
    /\ d.hash # NoHash => \E s \in S : s.tag = "c"

(* As far as they have been read. *)
Learnt(r, S, d) ==
    /\ r \in ContractReport /\ r.key = d.key
    /\ r.web \in {"none", d.web} /\ r.title \in {None, d.title} /\ r.hash \in {NoHash, d.hash}
    /\ (\E s \in S : s.tag \in {"w", "d"}) => r.web = d.web
    /\ (\E s \in S : s.tag = "t") => r.title = d.title
    /\ (\E s \in S : s.tag = "c") => r.hash = d.hash

LEMMA ReadFields ==
    ASSUME NEW r \in ContractReport, NEW s \in SegmentSet
    PROVE  LET q == ReadSegment(r, s)
           IN  /\ q.web = IF s.tag = "w" THEN "yes" ELSE IF s.tag = "d" THEN "no" ELSE r.web
               /\ q.title = IF s.tag = "t" /\ PctDecode(s.text) # None THEN PctDecode(s.text)
                            ELSE r.title
               /\ q.hash = IF s.tag = "c" THEN s.hash ELSE r.hash
  <1> DEFINE t == PctDecode(s.text)
  <1> HIDE DEF t
  <1>1. ReadSegment(r, s) =
           CASE s.tag = "w" -> [r EXCEPT !.web = "yes"]
             [] s.tag = "d" -> [r EXCEPT !.web = "no"]
             [] s.tag = "t" /\ t # None -> [r EXCEPT !.title = t]
             [] s.tag = "c" -> [r EXCEPT !.hash = s.hash]
             [] OTHER -> r
    BY DEF ReadSegment, t
  <1>2. CASE s.tag = "w"
    BY <1>1, <1>2 DEF ContractReport, t
  <1>3. CASE s.tag = "d"
    BY <1>1, <1>3 DEF ContractReport, t
  <1>4. CASE s.tag = "t" /\ t # None
    BY <1>1, <1>4 DEF ContractReport, t
  <1>5. CASE s.tag = "c"
    BY <1>1, <1>5 DEF ContractReport, t
  <1>6. CASE s.tag = "x" \/ (s.tag = "t" /\ t = None)
    BY <1>1, <1>6 DEF t
  <1> QED
    BY <1>2, <1>3, <1>4, <1>5, <1>6 DEF SegmentSet

LEMMA ReadLearns ==
    ASSUME NEW d, NEW S, NEW r, Learnt(r, S, d), NEW s \in SegmentSet, Fits(s, d)
    PROVE  Learnt(ReadSegment(r, s), S \cup {s}, d)
  <1> DEFINE q == ReadSegment(r, s)
  <1>1. r \in ContractReport /\ q \in ContractReport /\ q.key = r.key
    BY ReadSegmentType DEF Learnt
  <1>2. /\ q.web = IF s.tag = "w" THEN "yes" ELSE IF s.tag = "d" THEN "no" ELSE r.web
        /\ q.title = IF s.tag = "t" /\ PctDecode(s.text) # None THEN PctDecode(s.text)
                     ELSE r.title
        /\ q.hash = IF s.tag = "c" THEN s.hash ELSE r.hash
    BY <1>1, ReadFields
  <1> HIDE DEF q
  <1>3. q.web \in {"none", d.web} /\ ((\E x \in S \cup {s} : x.tag \in {"w", "d"}) => q.web = d.web)
    BY <1>2 DEF Learnt, Fits
  <1>4. q.title \in {None, d.title} /\ ((\E x \in S \cup {s} : x.tag = "t") => q.title = d.title)
    BY <1>2 DEF Learnt, Fits
  <1>5. q.hash \in {NoHash, d.hash} /\ ((\E x \in S \cup {s} : x.tag = "c") => q.hash = d.hash)
    BY <1>2 DEF Learnt, Fits
  <1>6. q.key = d.key
    BY <1>1 DEF Learnt
  <1>7. Learnt(q, S \cup {s}, d)
    BY <1>1, <1>3, <1>4, <1>5, <1>6 DEF Learnt
  <1> QED
    BY <1>7 DEF q

LEMMA DecodeTells ==
    ASSUME NEW raw \in WireEntry, NEW d \in ContractReport, raw.key = d.key,
           Tells(Range(raw.segments), d)
    PROVE  Decode(raw) = d
  <1> DEFINE segs == raw.segments
             n == Len(segs)
             Upto(k) == {segs[i] : i \in 1 .. k}
  <1>1. n \in Nat /\ DOMAIN segs = 1 .. n /\ \A i \in 1 .. n : segs[i] \in SegmentSet
    <2>1. segs \in Seq(SegmentSet)
      BY DEF WireEntry
    <2> HIDE DEF SegmentSet
    <2> QED
      BY <2>1
  <1>2. PICK u : Reads(raw, u)
    BY DecodeLoop
  <1>3. /\ u[0] = NothingRead(raw) /\ Decode(raw) = u[n]
        /\ \A i \in 1 .. n : u[i] = ReadSegment(u[i - 1], segs[i])
    BY <1>2 DEF Reads
  <1>4. Range(segs) = Upto(n)
    BY <1>1 DEF Range
  <1> DEFINE done == {k \in 0 .. n : Learnt(u[k], Upto(k), d)}
  <1>5. 0 \in done
    <2>1. Upto(0) = {}
      OBVIOUS
    <2>2. NothingRead(raw) \in ContractReport
      BY NoneType DEF NothingRead, ContractReport, WireEntry
    <2>3. Learnt(NothingRead(raw), {}, d)
      <3> DEFINE r == NothingRead(raw)
      <3>1. r.key = d.key /\ r.web = "none" /\ r.title = None /\ r.hash = NoHash
        BY DEF NothingRead
      <3>2. r \in ContractReport
        BY <2>2
      <3> HIDE DEF r
      <3>3. Learnt(r, {}, d)
        BY <3>1, <3>2 DEF Learnt
      <3> QED
        BY <3>3 DEF r
    <2>4. Learnt(u[0], Upto(0), d)
      BY <1>3, <2>1, <2>3
    <2> HIDE DEF Upto, segs
    <2> QED
      BY <1>1, <2>4
  <1> HIDE DEF segs, n
  <1>6. ASSUME NEW k \in Nat, k < n, k \in done
        PROVE  k + 1 \in done
    <2>1. k + 1 \in 1 .. n /\ (k + 1) - 1 = k /\ Learnt(u[k], Upto(k), d)
      BY <1>1, <1>6
    <2>2. Upto(k + 1) = Upto(k) \cup {segs[k + 1]}
      <3>1. 1 .. k + 1 = (1 .. k) \cup {k + 1}
        BY <1>6
      <3> QED
        BY <3>1
    <2>3. u[k + 1] = ReadSegment(u[k], segs[k + 1])
      <3>1. u[k + 1] = ReadSegment(u[(k + 1) - 1], segs[k + 1])
        BY <1>3, <2>1
      <3> QED
        BY <2>1, <3>1
    <2>4. segs[k + 1] \in SegmentSet /\ Fits(segs[k + 1], d)
      <3>1. segs[k + 1] \in Upto(n)
        BY <2>1
      <3>2. Tells(Upto(n), d)
        BY <1>4 DEF segs
      <3> QED
        BY <1>1, <2>1, <3>1, <3>2 DEF Tells
    <2> HIDE DEF Upto
    <2>5. Learnt(u[k + 1], Upto(k + 1), d)
      BY <2>1, <2>2, <2>3, <2>4, ReadLearns
    <2> QED
      BY <2>1, <2>5
  <1> HIDE DEF done, Upto
  <1>7. \A k \in 0 .. n : k \in done
    BY <1>1, <1>5, <1>6, RoundInduction
  <1>8. Learnt(u[n], Range(segs), d)
    BY <1>1, <1>4, <1>7 DEF done
  <1>9. Tells(Range(segs), d)
    BY DEF segs
  <1> DEFINE q == u[n]
  <1> HIDE DEF q
  <1>10. q \in ContractReport /\ q.key = d.key /\ q.web = d.web /\ q.title = d.title /\ q.hash = d.hash
    BY <1>8, <1>9 DEF Learnt, Tells, q
  <1>11. q = d
    BY <1>10 DEF ContractReport
  <1> QED
    BY <1>3, <1>11 DEF q

LEMMA DeliveredType ==
    ASSUME NEW r \in ContractReport
    PROVE  /\ Delivered(r) \in ContractReport
           /\ Delivered(r).key = r.key /\ Delivered(r).web = r.web /\ Delivered(r).hash = r.hash
           /\ Delivered(r).title = IF r.web = "yes" THEN Trim(r.title) ELSE None
  <1> DEFINE t == IF r.web = "yes" THEN Trim(r.title) ELSE None
  <1>1. t \in Title
    BY TrimTitle, NoneType DEF ContractReport
  <1>2. Delivered(r) = [r EXCEPT !.title = t]
    BY DEF Delivered
  <1> HIDE DEF t
  <1>3. /\ Delivered(r) \in ContractReport
        /\ Delivered(r).key = r.key /\ Delivered(r).web = r.web /\ Delivered(r).hash = r.hash
        /\ Delivered(r).title = t
    BY <1>1, <1>2 DEF ContractReport
  <1> QED
    BY <1>3 DEF t

(* The segments of a report, as a set.                                     *)
Code(r) == IF r.hash = NoHash THEN {} ELSE {Segment("c", None, r.hash)}

NameOf(r) == IF Trim(r.title) = None THEN {} ELSE {Segment("t", PctEncode(Trim(r.title)), NoHash)}

Kind(r) ==
    CASE r.web = "yes" -> {Segment("w", None, NoHash)} \cup NameOf(r)
      [] r.web = "no" -> {Segment("d", None, NoHash)}
      [] OTHER -> {}

LEMMA RangeOfOne ==
    ASSUME NEW x
    PROVE  Range(<<x>>) = {x} /\ Range(<<>>) = {}
  BY DEF Range

LEMMA EncodedSegments ==
    ASSUME NEW r \in ContractReport
    PROVE  Range(Encode(r).segments) = Code(r) \cup Kind(r)
  <1> DEFINE code == IF r.hash = NoHash THEN <<>> ELSE <<Segment("c", None, r.hash)>>
             name == IF Trim(r.title) = None THEN <<>>
                     ELSE <<Segment("t", PctEncode(Trim(r.title)), NoHash)>>
             kind == CASE r.web = "yes" -> <<Segment("w", None, NoHash)>> \o name
                       [] r.web = "no" -> <<Segment("d", None, NoHash)>>
                       [] OTHER -> <<>>
             S == Seq(SegmentSet)
  <1>1. r.title \in Text /\ r.hash \in Hashes \cup {NoHash}
    BY DEF ContractReport, Title
  <1>2. PctEncode(Trim(r.title)) \in Text
    BY <1>1, TrimType, PctEncodeType DEF Text
  <1>3. code \in S /\ name \in S /\ <<Segment("w", None, NoHash)>> \in S
        /\ <<Segment("d", None, NoHash)>> \in S /\ <<>> \in S
    BY <1>1, <1>2, NoneType, SegmentType, EmptySeq
  <1>4. Range(code) = Code(r) /\ Range(name) = NameOf(r)
    BY RangeOfOne DEF Code, NameOf
  <1>5. Encode(r).segments = code \o kind
    BY DEF Encode
  <1> HIDE DEF code, name
  <1>6. /\ Range(<<Segment("w", None, NoHash)>> \o name) = {Segment("w", None, NoHash)} \cup NameOf(r)
        /\ <<Segment("w", None, NoHash)>> \o name \in S
    <2> DEFINE w == <<Segment("w", None, NoHash)>>
    <2>1. Range(w) = {Segment("w", None, NoHash)}
      BY RangeOfOne
    <2>2. w \in Seq(SegmentSet) /\ name \in Seq(SegmentSet)
      BY <1>3
    <2> HIDE DEF SegmentSet, w, S
    <2>3. Range(w \o name) = Range(w) \cup Range(name) /\ w \o name \in Seq(SegmentSet)
      BY <2>2, RangeConcatenation, ConcatProperties
    <2> QED
      BY <1>4, <2>1, <2>3 DEF S, w
  <1>7. kind \in S /\ Range(kind) = Kind(r)
    <2>1. CASE r.web = "yes"
      BY <1>6, <2>1 DEF Kind
    <2>2. CASE r.web = "no"
      BY <1>3, <2>2, RangeOfOne DEF Kind
    <2>3. CASE r.web # "yes" /\ r.web # "no"
      BY <1>3, <2>3, RangeOfOne DEF Kind
    <2> QED
      BY <2>1, <2>2, <2>3
  <1> HIDE DEF kind, SegmentSet
  <1>8. Range(code \o kind) = Range(code) \cup Range(kind)
    BY <1>3, <1>7, RangeConcatenation
  <1> QED
    BY <1>4, <1>5, <1>7, <1>8

LEMMA EncodeTells ==
    ASSUME NEW r \in ContractReport
    PROVE  Tells(Code(r) \cup Kind(r), Delivered(r))
  <1> DEFINE d == Delivered(r)
             t == Trim(r.title)
  <1>1. /\ d.web = r.web /\ d.hash = r.hash /\ d.title = IF r.web = "yes" THEN t ELSE None
    BY DeliveredType
  <1>2. r.web \in {"yes", "no", "none"} /\ r.title \in Title
    BY DEF ContractReport
  <1>3. PctDecode(PctEncode(t)) = t
    <2>1. t \in Title
      BY <1>2, TrimTitle
    <2>2. PctDecode(PctEncode(t)) = FromUtf8(t)
      BY <2>1, PctRoundTrip DEF Title
    <2> QED
      BY <2>1, <2>2 DEF FromUtf8, Title
  <1> HIDE DEF d, t
  <1>4. Code(r) = IF r.hash = NoHash THEN {} ELSE {Segment("c", None, r.hash)}
    BY DEF Code
  <1>5. NameOf(r) = IF t = None THEN {} ELSE {Segment("t", PctEncode(t), NoHash)}
    BY DEF NameOf, t
  <1>6. \A s \in Code(r) : s.tag = "c" /\ s.hash = r.hash
    BY <1>4 DEF Segment
  <1>7. \A s \in NameOf(r) : s.tag = "t" /\ PctDecode(s.text) = t
    BY <1>3, <1>5 DEF Segment
  <1>8. Segment("w", None, NoHash).tag = "w" /\ Segment("d", None, NoHash).tag = "d"
    BY DEF Segment
  <1>9. CASE r.web = "yes"
    <2>1. Kind(r) = {Segment("w", None, NoHash)} \cup NameOf(r)
      BY <1>9 DEF Kind
    <2>2. \A s \in Code(r) \cup Kind(r) : Fits(s, d)
      BY <1>1, <1>6, <1>7, <1>8, <1>9, <2>1 DEF Fits
    <2>3. t # None => \E s \in Kind(r) : s.tag = "t"
      BY <1>5, <1>7, <2>1
    <2>4. r.hash # NoHash => \E s \in Code(r) : s.tag = "c"
      BY <1>4, <1>6
    <2>5. Tells(Code(r) \cup Kind(r), d)
      BY <1>1, <1>8, <1>9, <2>1, <2>2, <2>3, <2>4 DEF Tells
    <2> QED
      BY <2>5 DEF d
  <1>10. CASE r.web # "yes"
    <2>1. Kind(r) = IF r.web = "no" THEN {Segment("d", None, NoHash)} ELSE {}
      BY <1>10 DEF Kind
    <2>2. \A s \in Code(r) \cup Kind(r) : Fits(s, d)
      BY <1>1, <1>6, <1>8, <1>10, <2>1 DEF Fits
    <2>3. r.hash # NoHash => \E s \in Code(r) : s.tag = "c"
      BY <1>4, <1>6
    <2>4. r.web # "none" => \E s \in Kind(r) : s.tag = "d"
      BY <1>2, <1>8, <1>10, <2>1
    <2>5. Tells(Code(r) \cup Kind(r), d)
      BY <1>1, <1>10, <2>2, <2>3, <2>4 DEF Tells
    <2> QED
      BY <2>5 DEF d
  <1> QED
    BY <1>9, <1>10

LEMMA ReverseRange ==
    ASSUME NEW S, NEW s \in Seq(S)
    PROVE  Range(Reverse(s)) = Range(s)
  <1>1. Len(s) \in Nat /\ DOMAIN s = 1 .. Len(s)
    OBVIOUS
  <1> DEFINE n == Len(s)
  <1>2. Reverse(s) = [i \in 1 .. n |-> s[n - i + 1]]
    BY DEF Reverse
  <1> HIDE DEF n
  <1>3. n \in Nat /\ DOMAIN s = 1 .. n
    BY <1>1 DEF n
  <1>4. \A i \in 1 .. n : n - i + 1 \in 1 .. n /\ n - (n - i + 1) + 1 = i
    BY <1>3
  <1> DEFINE r == Reverse(s)
  <1>5. DOMAIN r = 1 .. n /\ \A i \in 1 .. n : r[i] = s[n - i + 1]
    BY <1>2
  <1>6. \A i \in 1 .. n : r[n - i + 1] = s[i]
    <2> SUFFICES ASSUME NEW i \in 1 .. n
                 PROVE  r[n - i + 1] = s[i]
      OBVIOUS
    <2>1. r[n - i + 1] = s[n - (n - i + 1) + 1]
      BY <1>4, <1>5
    <2> QED
      BY <1>4, <2>1
  <1> HIDE DEF r
  <1>7. \A i \in DOMAIN r : \E j \in DOMAIN s : r[i] = s[j]
    BY <1>3, <1>4, <1>5
  <1>8. \A i \in DOMAIN s : \E j \in DOMAIN r : s[i] = r[j]
    BY <1>3, <1>4, <1>5, <1>6
  <1>9. Range(r) = Range(s)
    BY <1>7, <1>8 DEF Range
  <1> QED
    BY <1>9 DEF r

LEMMA DialectTells ==
    ASSUME NEW raw \in WireEntry, NEW d, NEW r, Tells(Range(raw.segments), r)
    PROVE  Tells(Range(Dialect(d, raw).segments), r) /\ Dialect(d, raw).key = raw.key
  <1> DEFINE x == Segment("x", None, NoHash)
             more == <<x>> \o Reverse(raw.segments)
  <1>1. raw.segments \in Seq(SegmentSet) /\ <<x>> \in Seq(SegmentSet)
    BY NoneType, SegmentType DEF WireEntry
  <1>2. x.tag = "x"
    BY DEF Segment
  <1> HIDE DEF x
  <1>3. Range(more) = {x} \cup Range(raw.segments)
    <2> HIDE DEF SegmentSet
    <2>1. Reverse(raw.segments) \in Seq(SegmentSet)
      BY <1>1, ReverseType
    <2> DEFINE a == <<x>>
               b == Reverse(raw.segments)
    <2>2. Range(more) = Range(a) \cup Range(b)
      <3>1. a \in Seq(SegmentSet) /\ b \in Seq(SegmentSet) /\ more = a \o b
        BY <1>1, <2>1
      <3> HIDE DEF a, b, more
      <3>2. Range(a \o b) = Range(a) \cup Range(b)
        BY <3>1, RangeConcatenation
      <3> QED
        BY <3>1, <3>2
    <2> QED
      BY <1>1, <2>2, RangeOfOne, ReverseRange
  <1>4. Dialect(d, raw) = IF d = "foreign" THEN [raw EXCEPT !.segments = more] ELSE raw
    BY DEF Dialect, x
  <1> HIDE DEF more
  <1>5. CASE d = "foreign"
    <2>1. Dialect(d, raw).segments = more /\ Dialect(d, raw).key = raw.key
      BY <1>4, <1>5 DEF WireEntry
    <2>2. Fits(x, r)
      BY <1>2 DEF Fits
    <2>3. Tells({x} \cup Range(raw.segments), r)
      BY <2>2 DEF Tells
    <2> QED
      BY <1>3, <2>1, <2>3
  <1>6. CASE d # "foreign"
    BY <1>4, <1>6
  <1> QED
    BY <1>5, <1>6

(***************************************************************************)
(* What is read of a report is what was said, its title trimmed, whatever  *)
(* order segments come in and though some of them are not known: for any   *)
(* title there is, bytes of which have a meaning in the wire format        *)
(* included.                                                               *)
(***************************************************************************)
THEOREM RoundTrip ==
    ASSUME NEW r \in ContractReport, NEW d
    PROVE  Decode(Dialect(d, Encode(r))) = Delivered(r)
  <1>1. Encode(r) \in WireEntry /\ Encode(r).key = r.key
    BY EncodeType DEF Encode
  <1>2. Tells(Range(Encode(r).segments), Delivered(r))
    BY EncodedSegments, EncodeTells
  <1>3. Dialect(d, Encode(r)) \in WireEntry
    BY <1>1, DialectType
  <1>4. Tells(Range(Dialect(d, Encode(r)).segments), Delivered(r))
        /\ Dialect(d, Encode(r)).key = r.key
    BY <1>1, <1>2, DialectTells
  <1> QED
    BY <1>3, <1>4, DecodeTells, DeliveredType

-----------------------------------------------------------------------------
(***************************************************************************)
(* What publishers said, and what it is on the wire.                       *)
(***************************************************************************)
ReportsOk(entries) ==
    DOMAIN entries \subseteq Publishers /\ \A p \in DOMAIN entries : entries[p] \in NodeReport

Carries(out, e) ==
    /\ out.name = e.name /\ out.time = e.time /\ out.neighbors = e.neighbors
    /\ out.address = e.address
    /\ out.contracts \in Seq(WireEntry)
    /\ DOMAIN out.contracts = DOMAIN e.contracts
    /\ \A i \in DOMAIN e.contracts : /\ out.contracts[i] = Dialect(e.dialect, Encode(e.contracts[i]))
                                     /\ out.contracts[i].key = e.contracts[i].key

LEMMA ReportFields ==
    ASSUME NEW e \in NodeReport
    PROVE  /\ e.name \in Text /\ e.time \in Nat /\ e.neighbors \in Seq(PeerReport)
           /\ e.address \in Addresses \cup {NoAddress}
           /\ Len(e.contracts) \in Nat /\ DOMAIN e.contracts = 1 .. Len(e.contracts)
           /\ \A i \in DOMAIN e.contracts : /\ e.contracts[i] \in ContractReport
                                            /\ e.contracts[i].key \in Keys
  <1>1. e.contracts \in Seq(ContractReport)
    BY DEF NodeReport
  <1>2. /\ e.name \in Text /\ e.time \in Nat /\ e.neighbors \in Seq(PeerReport)
        /\ e.address \in Addresses \cup {NoAddress}
    BY DEF NodeReport
  <1>3. \A r \in ContractReport : r.key \in Keys
    BY DEF ContractReport
  <1> HIDE DEF ContractReport
  <1>4. /\ Len(e.contracts) \in Nat /\ DOMAIN e.contracts = 1 .. Len(e.contracts)
        /\ \A i \in DOMAIN e.contracts : e.contracts[i] \in ContractReport
    BY <1>1
  <1> QED
    BY <1>2, <1>3, <1>4

LEMMA PublishedCarries ==
    ASSUME NEW entries, ReportsOk(entries), NEW p \in DOMAIN entries
    PROVE  Carries(Published(entries)[p], entries[p])
  <1> DEFINE e == entries[p]
             w == [i \in DOMAIN e.contracts |-> Dialect(e.dialect, Encode(e.contracts[i]))]
             out == [e EXCEPT !.contracts = w]
  <1>1. Published(entries)[p] = out
    BY DEF Published
  <1>2. e \in NodeReport
    BY DEF ReportsOk
  <1>3. \A d, r : Dialect(d, Encode(r)).key = r.key
    BY DEF Dialect, Encode
  <1>4. /\ Len(e.contracts) \in Nat /\ DOMAIN e.contracts = 1 .. Len(e.contracts)
        /\ \A i \in DOMAIN e.contracts : e.contracts[i] \in ContractReport
    BY <1>2, ReportFields
  <1>5. \A i \in DOMAIN e.contracts : w[i] \in WireEntry
    BY <1>4, EncodeType, DialectType
  <1>6. w \in Seq(WireEntry)
    <2>1. w \in [1 .. Len(e.contracts) -> WireEntry]
      BY <1>4, <1>5
    <2> HIDE DEF w
    <2> QED
      BY <1>4, <2>1
  <1>7. /\ DOMAIN w = DOMAIN e.contracts
        /\ \A i \in DOMAIN e.contracts : /\ w[i] = Dialect(e.dialect, Encode(e.contracts[i]))
                                         /\ w[i].key = e.contracts[i].key
    BY <1>3
  <1> HIDE DEF w, e
  <1>8. /\ out.name = e.name /\ out.time = e.time /\ out.neighbors = e.neighbors
        /\ out.address = e.address /\ out.contracts = w
    BY <1>2 DEF NodeReport
  <1> HIDE DEF out
  <1>9. Carries(out, e)
    BY <1>6, <1>7, <1>8 DEF Carries
  <1> QED
    BY <1>1, <1>9 DEF e

-----------------------------------------------------------------------------
(***************************************************************************)
(* The invariant of the loops of a render.                                 *)
(***************************************************************************)
SourceOk == ReportsOk(reported) /\ remote = Published(reported)

Untaken == IF stage = "build" THEN todo ELSE {}

MetaSet == [web : {"yes", "no"}, title : Text, hash : Hashes \cup {NoHash}, probed : Nat]

BuildOk ==
    /\ stage \in Stages
    /\ rest \in Seq(WireEntry) /\ (rest # <<>> => gateways # <<>>)
    /\ DOMAIN meta \subseteq Keys /\ \A k \in DOMAIN meta : meta[k] \in MetaSet
    /\ Gateways = {GatewayView(p, remote[p]) : p \in DOMAIN remote \ Untaken}

HostsAny(ks) == {g \in Gateways : g.contracts \cap ks # {}}

Latest(n, S) == n \in S /\ \A m \in S : m <= n

RowSet ==
    [instances : SUBSET Keys, seenBy : SUBSET Names, web : {"yes", "no", "none"}, title : Text,
     variants : SUBSET Text, hashes : SUBSET Hashes, seen : Nat]

RowIs(row) ==
    /\ row \in RowSet
    /\ row.instances # {} /\ IsFiniteSet(row.instances)
    /\ row.seenBy = {g.label : g \in HostsAny(row.instances)}
    /\ Latest(row.seen, {g.seen : g \in HostsAny(row.instances)})

Left == IF stage = "group" THEN todo ELSE {}

Disjoint(a, b) == a.instances \cap b.instances = {}

Apart ==
    /\ \A g, h \in DOMAIN groups : g # h => Disjoint(groups[g], groups[h])
    /\ \A g \in DOMAIN groups, s \in singles : Disjoint(groups[g], s)
    /\ \A s, t \in singles : s # t => Disjoint(s, t)

GroupOk ==
    /\ stage = "build" => groups = <<>> /\ singles = {}
    /\ stage = "group" => todo \subseteq Hosted
    /\ stage \in {"listed", "synced"} => todo = {}
    /\ \A row \in AllRows : RowIs(row) /\ row.instances \subseteq Hosted \ Left
    /\ stage # "build" => \A k \in Hosted \ Left : \E row \in AllRows : k \in row.instances
    /\ Apart

ListOk ==
    IF stage \in {"listed", "synced"}
    THEN rows \in Bijection(1 .. Cardinality(AllRows), AllRows) ELSE rows = <<>>

VInv == SourceOk /\ BuildOk /\ GroupOk /\ ListOk /\ (stage = "synced" => edges = Linked)

-----------------------------------------------------------------------------
(***************************************************************************)
(* Rows: what a contract starts with, and what two make together.          *)
(***************************************************************************)
LEMMA MetaFields ==
    ASSUME BuildOk, NEW k
    PROVE  /\ MetaOf(k).web \in {"yes", "no", "none"} /\ MetaOf(k).title \in Text
           /\ MetaOf(k).hash \in Hashes \cup {NoHash} /\ MetaOf(k).probed \in Nat
  <1>1. CASE k \in DOMAIN meta
    BY <1>1 DEF BuildOk, MetaOf, MetaSet
  <1>2. CASE k \notin DOMAIN meta
    BY <1>2, NoneType DEF MetaOf, NoMeta
  <1> QED
    BY <1>1, <1>2

(* All reports are dated before some time.                                 *)
LEMMA GatewayTimes ==
    ASSUME InputOk
    PROVE  \E b \in Nat : \A g \in Gateways : g.seen \in 0 .. b
  <1> DEFINE n == Len(gateways)
             done == {k \in 0 .. n : \E b \in Nat : \A j \in 1 .. k : gateways[j].seen \in 0 .. b}
  <1>1. n \in Nat /\ DOMAIN gateways = 1 .. n /\ \A i \in 1 .. n : gateways[i].seen \in Nat
    BY GatewayList, GatewayFields
  <1> HIDE DEF n
  <1>2. 0 \in done
    BY <1>1
  <1>3. ASSUME NEW k \in Nat, k < n, k \in done
        PROVE  k + 1 \in done
    <2>1. PICK b \in Nat : \A j \in 1 .. k : gateways[j].seen \in 0 .. b
      BY <1>3
    <2> DEFINE t == gateways[k + 1].seen
               c == IF t > b THEN t ELSE b
    <2>2. t \in Nat /\ c \in Nat /\ b <= c /\ t <= c
      BY <1>1, <1>3
    <2> HIDE DEF c
    <2>3. \A j \in 1 .. k + 1 : gateways[j].seen \in 0 .. c
      <3> SUFFICES ASSUME NEW j \in 1 .. k + 1
                   PROVE  gateways[j].seen \in 0 .. c
        OBVIOUS
      <3>1. CASE j = k + 1
        BY <2>2, <3>1
      <3>2. CASE j # k + 1
        <4>1. gateways[j].seen \in 0 .. b
          BY <2>1, <3>2
        <4> QED
          BY <2>2, <4>1
      <3> QED
        BY <3>1, <3>2
    <2>4. k + 1 \in 0 .. n
      BY <1>1, <1>3
    <2> QED
      BY <2>2, <2>3, <2>4
  <1> HIDE DEF done
  <1>4. \A k \in 0 .. n : k \in done
    BY <1>1, <1>2, <1>3, RoundInduction
  <1>5. n \in done
    BY <1>1, <1>4
  <1> QED
    BY <1>1, <1>5 DEF done, Gateways

LEMMA MaxIsLatest ==
    ASSUME NEW b \in Nat, NEW S \in SUBSET (0 .. b), S # {}
    PROVE  Latest(Max(S), S) /\ Max(S) \in Nat
  <1>1. Max(S) \in S /\ \A k \in S : Max(S) >= k
    BY MaxOfNumbers
  <1>2. \A k \in S : k \in Nat
    OBVIOUS
  <1>3. Max(S) \in Nat
    BY <1>1, <1>2
  <1> QED
    BY <1>1, <1>2, <1>3 DEF Latest

LEMMA RowOfIs ==
    ASSUME InputOk, BuildOk, NEW k \in Hosted
    PROVE  RowIs(RowOf(k)) /\ RowOf(k).instances = {k} /\ k \in Keys
  <1> DEFINE row == RowOf(k)
             m == MetaOf(k)
             dates == {g.seen : g \in Hosts(k)}
  <1>1. \A g \in Gateways : g \in GatewaySet
    BY GatewayList DEF Gateways
  <1>2. k \in Keys
    BY <1>1 DEF Hosted, GatewaySet
  <1>3. Hosts(k) # {} /\ Hosts(k) = HostsAny({k})
    BY DEF Hosted, Hosts, HostsAny
  <1>4. PICK b \in Nat : \A g \in Gateways : g.seen \in 0 .. b
    BY GatewayTimes
  <1>5. dates \in SUBSET (0 .. b) /\ dates # {}
    BY <1>3, <1>4 DEF Hosts
  <1> HIDE DEF dates
  <1>6. Latest(Max(dates), dates) /\ Max(dates) \in Nat
    BY <1>5, MaxIsLatest
  <1>7. row = [instances |-> {k}, seenBy |-> {g.label : g \in Hosts(k)}, web |-> m.web,
               title |-> m.title, variants |-> Single(m.title, None),
               hashes |-> Single(m.hash, NoHash), seen |-> Max(dates)]
    BY DEF RowOf, dates
  <1>8. /\ m.web \in {"yes", "no", "none"} /\ m.title \in Text
        /\ m.hash \in Hashes \cup {NoHash}
    BY MetaFields
  <1>9. Single(m.title, None) \subseteq Text /\ Single(m.hash, NoHash) \subseteq Hashes
    BY <1>8 DEF Single
  <1>10. {g.label : g \in Hosts(k)} \subseteq Names
    BY <1>1, GatewayFields DEF Hosts
  <1> HIDE DEF row, m
  <1>11. row \in RowSet
    BY <1>2, <1>6, <1>7, <1>8, <1>9, <1>10 DEF RowSet
  <1>12. row.instances = {k} /\ row.seenBy = {g.label : g \in Hosts(k)} /\ row.seen = Max(dates)
    BY <1>7
  <1>13. IsFiniteSet({k})
    BY FS_Singleton
  <1>14. RowIs(row)
    BY <1>3, <1>6, <1>11, <1>12, <1>13 DEF RowIs, dates
  <1> QED
    BY <1>2, <1>12, <1>14 DEF row

LEMMA RowFields ==
    ASSUME NEW row \in RowSet
    PROVE  /\ row.instances \in SUBSET Keys /\ row.seenBy \in SUBSET Names
           /\ row.web \in {"yes", "no", "none"} /\ row.title \in Text
           /\ row.variants \in SUBSET Text /\ row.hashes \in SUBSET Hashes /\ row.seen \in Nat
  BY DEF RowSet

LEMMA MergedIs ==
    ASSUME InputOk, NEW a, NEW b, RowIs(a), RowIs(b)
    PROVE  RowIs(MergeInto(a, b)) /\ MergeInto(a, b).instances = a.instances \cup b.instances
  <1> DEFINE I == a.instances \cup b.instances
             L == a.seenBy \cup b.seenBy
             V == a.variants \cup {t \in b.variants : Trim(t) # None}
             T == IF a.title = None THEN b.title ELSE a.title
             W == IF a.web = "yes" THEN a.web ELSE b.web
             H == a.hashes \cup b.hashes
             M == Max({a.seen, b.seen})
             c == MergeInto(a, b)
  <1>1. a \in RowSet /\ b \in RowSet
    BY DEF RowIs
  <1>2. c = [a EXCEPT !.instances = I, !.seenBy = L, !.variants = V, !.title = T, !.web = W,
                      !.hashes = H, !.seen = M]
    BY DEF MergeInto
  <1>3. a.seen \in Nat /\ b.seen \in Nat
    BY <1>1, RowFields
  <1>4. M \in {a.seen, b.seen} /\ M \in Nat /\ a.seen <= M /\ b.seen <= M
    <2>1. \E m \in {a.seen, b.seen} : \A k \in {a.seen, b.seen} : m >= k
      BY <1>3
    <2>2. M \in {a.seen, b.seen} /\ \A k \in {a.seen, b.seen} : M >= k
      BY <2>1 DEF Max
    <2> HIDE DEF M
    <2> QED
      BY <1>3, <2>2
  <1>5. /\ I \in SUBSET Keys /\ L \in SUBSET Names /\ V \in SUBSET Text /\ T \in Text
        /\ W \in {"yes", "no", "none"} /\ H \in SUBSET Hashes
    BY <1>1, RowFields
  <1>6. I # {} /\ IsFiniteSet(I)
    BY FS_Union DEF RowIs
  <1>7. HostsAny(I) = HostsAny(a.instances) \cup HostsAny(b.instances)
    BY DEF HostsAny
  <1>8. L = {g.label : g \in HostsAny(I)}
    BY <1>7 DEF RowIs
  <1>9. Latest(M, {g.seen : g \in HostsAny(I)})
    <2> DEFINE S == {g.seen : g \in HostsAny(a.instances)}
               R == {g.seen : g \in HostsAny(b.instances)}
    <2>1. {g.seen : g \in HostsAny(I)} = S \cup R
      BY <1>7
    <2>2. a.seen \in S /\ (\A m \in S : m <= a.seen) /\ b.seen \in R /\ (\A m \in R : m <= b.seen)
      BY DEF RowIs, Latest
    <2>3. \A m \in S \cup R : m \in Nat
      <3>1. \A g \in Gateways : g.seen \in Nat
        BY GatewayList, GatewayFields DEF Gateways
      <3> QED
        BY <3>1 DEF HostsAny
    <2> HIDE DEF S, R, M
    <2>4. M \in S \cup R /\ \A m \in S \cup R : m <= M
      BY <1>3, <1>4, <2>2, <2>3
    <2> QED
      BY <2>1, <2>4 DEF Latest
  <1> HIDE DEF I, L, V, T, W, H, M
  <1>10. /\ c \in RowSet /\ c.instances = I /\ c.seenBy = L /\ c.seen = M
    BY <1>1, <1>2, <1>4, <1>5 DEF RowSet
  <1>11. RowIs(c)
    BY <1>6, <1>8, <1>9, <1>10 DEF RowIs
  <1> QED
    BY <1>10, <1>11 DEF c, I

-----------------------------------------------------------------------------
(***************************************************************************)
(* The steps of a render keep the invariant of its loops.                  *)
(***************************************************************************)
LEMMA SameGateways ==
    ASSUME gateways' = gateways
    PROVE  /\ Gateways' = Gateways /\ Hosted' = Hosted
           /\ \A row : RowIs(row)' <=> RowIs(row)
  <1>1. Gateways' = Gateways /\ Hosted' = Hosted
    BY DEF Gateways, Hosted
  <1>2. \A ks : HostsAny(ks)' = HostsAny(ks)
    BY <1>1 DEF HostsAny
  <1>3. \A row : RowIs(row)' <=> RowIs(row)
    BY <1>2 DEF RowIs
  <1> QED
    BY <1>1, <1>3

LEMMA NothingGrouped ==
    ASSUME stage' = "build", groups' = <<>>, singles' = {}
    PROVE  GroupOk'
  <1>1. AllRows' = {}
    BY DEF AllRows
  <1>2. Apart'
    BY DEF Apart
  <1> QED
    BY <1>1, <1>2 DEF GroupOk

LEMMA TakeEntryView ==
    ASSUME IInv, VInv, TakeEntry
    PROVE  BuildOk' /\ GroupOk' /\ ListOk'
  <1>1. PICK p \in todo : /\ todo' = todo \ {p}
                          /\ gateways' = Append(gateways, GatewayView(p, remote[p]))
                          /\ rest' = remote[p].contracts
    BY DEF TakeEntry
  <1>2. /\ stage = "build" /\ stage' = stage
        /\ UNCHANGED <<remote, meta, groups, singles, rows>>
    BY DEF TakeEntry, input, table
  <1>3. p \in DOMAIN remote /\ p \in DOMAIN reported
    <2>1. p \in DOMAIN remote
      BY <1>2 DEF IInv, InputOk
    <2> QED
      BY <2>1 DEF VInv, SourceOk, Published
  <1>4. remote[p].contracts \in Seq(WireEntry)
    BY <1>3, PublishedCarries DEF VInv, SourceOk, Carries
  <1> DEFINE view == GatewayView(p, remote[p])
             view2(q) == GatewayView(q, remote[q])
  <1>5. /\ gateways' # <<>> /\ Gateways' = Gateways \cup {view}
    <2>1. Len(gateways) \in Nat /\ DOMAIN gateways = 1 .. Len(gateways)
      BY GatewayList DEF IInv
    <2>2. gateways \in Seq(GatewaySet)
      BY DEF IInv, InputOk
    <2> HIDE DEF view, GatewaySet
    <2>3. /\ Len(gateways') = Len(gateways) + 1 /\ DOMAIN gateways' = 1 .. Len(gateways) + 1
          /\ \A i \in 1 .. Len(gateways) : gateways'[i] = gateways[i]
          /\ gateways'[Len(gateways) + 1] = view
      <3>1. gateways' = Append(gateways, view)
        BY <1>1 DEF view
      <3> QED
        BY <2>1, <2>2, <3>1
    <2>4. Gateways' = {gateways'[i] : i \in 1 .. Len(gateways) + 1}
      BY <2>3 DEF Gateways
    <2>5. Gateways = {gateways[i] : i \in 1 .. Len(gateways)}
      BY <2>1 DEF Gateways
    <2>6. Gateways' = Gateways \cup {view}
      BY <2>1, <2>3, <2>4, <2>5
    <2> QED
      BY <2>1, <2>3, <2>6
  <1>6. Gateways' = {view2(q) : q \in DOMAIN remote \ todo'}
    <2>1. Gateways = {view2(q) : q \in DOMAIN remote \ todo}
      BY <1>2 DEF VInv, BuildOk, Untaken
    <2>2. DOMAIN remote \ todo' = (DOMAIN remote \ todo) \cup {p}
      BY <1>1, <1>3
    <2>3. view = view2(p)
      OBVIOUS
    <2> HIDE DEF view, view2
    <2> QED
      BY <1>5, <2>1, <2>2, <2>3
  <1>7. BuildOk'
    BY <1>1, <1>2, <1>4, <1>5, <1>6 DEF VInv, BuildOk, Untaken
  <1>8. groups' = <<>> /\ singles' = {}
    BY <1>2 DEF VInv, GroupOk
  <1>9. GroupOk'
    BY <1>2, <1>8, NothingGrouped
  <1>10. ListOk'
    BY <1>2 DEF VInv, ListOk
  <1> QED
    BY <1>7, <1>9, <1>10

LEMMA DecodeView ==
    ASSUME IInv, VInv, DecodeContract
    PROVE  BuildOk' /\ GroupOk' /\ ListOk'
  <1> DEFINE r == Decode(Head(rest))
             time == gateways[Len(gateways)].seen
  <1>1. /\ stage = "build" /\ rest # <<>> /\ rest' = Tail(rest)
        /\ UNCHANGED <<remote, stage, todo, gateways, groups, singles, rows>>
    BY DEF DecodeContract, input, table
  <1>2. meta' = IF Says(r) THEN [k \in DOMAIN meta \cup {r.key} |->
                                   IF k = r.key THEN Noted(r, time) ELSE meta[k]]
                ELSE meta
    BY DEF DecodeContract
  <1>3. Head(rest) \in WireEntry /\ rest' \in Seq(WireEntry)
    <2>1. rest \in Seq(WireEntry)
      BY DEF VInv, BuildOk
    <2> HIDE DEF WireEntry
    <2> QED
      BY <1>1, <2>1
  <1>4. r \in ContractReport
    BY <1>3, DecodeType
  <1>5. gateways # <<>> /\ time \in Nat
    <2>1. gateways # <<>>
      BY <1>1 DEF VInv, BuildOk
    <2>2. /\ Len(gateways) \in Nat /\ DOMAIN gateways = 1 .. Len(gateways)
          /\ \A i \in DOMAIN gateways : gateways[i] \in GatewaySet
      BY GatewayList DEF IInv
    <2>3. Len(gateways) # 0
      <3>1. gateways \in Seq(GatewaySet)
        BY DEF IInv, InputOk
      <3> HIDE DEF GatewaySet
      <3> QED
        BY <2>1, <3>1, EmptySeq
    <2>4. gateways[Len(gateways)] \in GatewaySet
      BY <2>2, <2>3
    <2> QED
      BY <2>1, <2>4, GatewayFields
  <1>6. /\ r.key \in Keys /\ r.title \in Text /\ r.hash \in Hashes \cup {NoHash}
    BY <1>4 DEF ContractReport, Title
  <1> HIDE DEF r, time
  <1>7. Noted(r, time) \in MetaSet
    <2> DEFINE m == MetaOf(r.key)
    <2>1. m.title \in Text /\ m.hash \in Hashes \cup {NoHash} /\ m.probed \in Nat
      BY MetaFields DEF VInv
    <2>2. Noted(r, time) =
            [web |-> IF r.web = "yes" \/ m.web = "yes" THEN "yes" ELSE "no",
             title |-> IF m.title = None THEN r.title ELSE m.title,
             hash |-> IF m.hash = NoHash THEN r.hash ELSE m.hash,
             probed |-> IF time > m.probed THEN time ELSE m.probed]
      BY DEF Noted
    <2> HIDE DEF m
    <2> QED
      BY <1>5, <1>6, <2>1, <2>2 DEF MetaSet
  <1>8. DOMAIN meta' \subseteq Keys /\ \A k \in DOMAIN meta' : meta'[k] \in MetaSet
    <2>1. DOMAIN meta \subseteq Keys /\ \A k \in DOMAIN meta : meta[k] \in MetaSet
      BY DEF VInv, BuildOk
    <2> HIDE DEF MetaSet
    <2> QED
      BY <1>2, <1>6, <1>7, <2>1
  <1>9. Gateways' = Gateways /\ Untaken' = Untaken
    BY <1>1, SameGateways DEF Untaken
  <1>10. BuildOk'
    BY <1>1, <1>3, <1>5, <1>8, <1>9 DEF VInv, BuildOk
  <1>11. GroupOk'
    BY <1>1, NothingGrouped DEF VInv, GroupOk
  <1>12. ListOk'
    BY <1>1 DEF VInv, ListOk
  <1> QED
    BY <1>10, <1>11, <1>12

LEMMA BuildDoneView ==
    ASSUME IInv, VInv, BuildDone
    PROVE  BuildOk' /\ GroupOk' /\ ListOk'
  <1>1. /\ stage = "build" /\ todo = {} /\ stage' = "group" /\ todo' = Hosted
        /\ UNCHANGED <<remote, rest, gateways, meta, groups, singles, rows>>
    BY DEF BuildDone, input, build, table
  <1>2. Gateways' = Gateways /\ Hosted' = Hosted /\ Untaken = {} /\ Untaken' = {}
    BY <1>1, SameGateways DEF Untaken
  <1>3. BuildOk'
    BY <1>1, <1>2 DEF VInv, BuildOk, Stages
  <1>4. groups' = <<>> /\ singles' = {}
    BY <1>1 DEF VInv, GroupOk
  <1>5. AllRows' = {} /\ Apart' /\ Hosted' \ Left' = {}
    BY <1>1, <1>2, <1>4 DEF AllRows, Apart, Left
  <1>6. GroupOk'
    BY <1>1, <1>2, <1>5 DEF GroupOk
  <1>7. ListOk'
    BY <1>1 DEF VInv, ListOk
  <1> QED
    BY <1>3, <1>6, <1>7

(* A contract joins the row of its group, or starts a row.                 *)
LEMMA GroupView ==
    ASSUME IInv, VInv, GroupContract
    PROVE  BuildOk' /\ GroupOk' /\ ListOk'
  <1>1. PICK k \in todo :
          LET row == RowOf(k)
              at == GroupKey(row)
          IN  /\ todo' = todo \ {k}
              /\ IF at = NoGroup
                 THEN singles' = singles \cup {row} /\ UNCHANGED groups
                 ELSE /\ groups' = [g \in DOMAIN groups \cup {at} |->
                                       IF g # at THEN groups[g]
                                       ELSE IF at \in DOMAIN groups
                                            THEN MergeInto(groups[at], row) ELSE row]
                      /\ UNCHANGED singles
    BY DEF GroupContract
  <1> DEFINE row == RowOf(k)
             at == GroupKey(row)
             new == IF at \in DOMAIN groups THEN MergeInto(groups[at], row) ELSE row
             old == IF at \in DOMAIN groups THEN groups[at].instances ELSE {}
  <1>2. /\ stage = "group" /\ UNCHANGED <<remote, stage, rest, gateways, meta, rows>>
    BY DEF GroupContract, input, build
  <1>3. /\ Gateways' = Gateways /\ Hosted' = Hosted /\ (\A x : RowIs(x)' <=> RowIs(x))
        /\ Untaken' = Untaken /\ Left = todo /\ Left' = todo \ {k}
    BY <1>1, <1>2, SameGateways DEF Untaken, Left
  <1>4. todo \subseteq Hosted /\ k \in Hosted
    BY <1>2 DEF VInv, GroupOk
  <1>5. RowIs(row) /\ row.instances = {k}
    BY <1>4, RowOfIs DEF IInv, VInv
  <1>6. \A x \in AllRows : RowIs(x) /\ x.instances \subseteq Hosted \ todo
    BY <1>3 DEF VInv, GroupOk
  <1>7. (\A g \in DOMAIN groups : groups[g] \in AllRows) /\ singles \subseteq AllRows
    BY DEF AllRows
  <1>8. RowIs(new) /\ new.instances = old \cup {k}
    <2>1. CASE at \in DOMAIN groups
      <3>1. RowIs(groups[at])
        BY <1>6, <1>7, <2>1
      <3>2. RowIs(MergeInto(groups[at], row))
            /\ MergeInto(groups[at], row).instances = groups[at].instances \cup row.instances
        BY <1>5, <3>1, MergedIs DEF IInv
      <3> QED
        BY <1>5, <2>1, <3>2
    <2>2. CASE at \notin DOMAIN groups
      BY <1>5, <2>2
    <2> QED
      BY <2>1, <2>2
  <1>9. Apart
    BY DEF VInv, GroupOk
  <1>10. \A x \in Hosted \ todo : \E r \in AllRows : x \in r.instances
    BY <1>2, <1>3 DEF VInv, GroupOk
  <1>11. BuildOk'
    BY <1>2, <1>3 DEF VInv, BuildOk
  <1>12. ListOk'
    BY <1>2 DEF VInv, ListOk
  <1>13. CASE at = NoGroup
    <2>1. singles' = singles \cup {row} /\ groups' = groups
      BY <1>1, <1>13
    <2>2. AllRows' = AllRows \cup {row}
      BY <2>1 DEF AllRows
    <2>3. Apart'
      BY <1>5, <1>6, <1>7, <1>9, <2>1 DEF Apart, Disjoint
    <2>4. \A x \in AllRows' : RowIs(x) /\ x.instances \subseteq Hosted \ (todo \ {k})
      BY <1>4, <1>5, <1>6, <2>2
    <2>5. \A x \in Hosted \ (todo \ {k}) : \E r \in AllRows' : x \in r.instances
      BY <1>5, <1>10, <2>2
    <2> HIDE DEF row, at, new, old
    <2> QED
      BY <1>1, <1>2, <1>3, <1>4, <1>11, <1>12, <2>3, <2>4, <2>5 DEF GroupOk
  <1>14. CASE at # NoGroup
    <2>1. singles' = singles
          /\ groups' = [g \in DOMAIN groups \cup {at} |-> IF g # at THEN groups[g] ELSE new]
      BY <1>1, <1>14
    <2> HIDE DEF row, at, new
    <2>2. /\ DOMAIN groups' = DOMAIN groups \cup {at} /\ groups'[at] = new
          /\ \A g \in DOMAIN groups \ {at} : groups'[g] = groups[g]
      BY <2>1
    <2>3. /\ at \in DOMAIN groups => old = groups[at].instances
          /\ at \notin DOMAIN groups => old = {}
      OBVIOUS
    <2> HIDE DEF old
    <2>4. \A g \in DOMAIN groups \ {at} : Disjoint(groups[g], new)
      BY <1>6, <1>7, <1>8, <1>9, <2>3 DEF Apart, Disjoint
    <2>5. \A s \in singles : Disjoint(new, s)
      BY <1>6, <1>7, <1>8, <1>9, <2>3 DEF Apart, Disjoint
    <2>6. Apart'
      <3>1. \A g, h \in DOMAIN groups' : g # h => Disjoint(groups'[g], groups'[h])
        <4> SUFFICES ASSUME NEW g \in DOMAIN groups', NEW h \in DOMAIN groups', g # h
                     PROVE  Disjoint(groups'[g], groups'[h])
          OBVIOUS
        <4>1. CASE g = at
          BY <2>2, <2>4, <4>1 DEF Disjoint
        <4>2. CASE h = at
          BY <2>2, <2>4, <4>2
        <4>3. CASE g # at /\ h # at
          BY <1>9, <2>2, <4>3 DEF Apart
        <4> QED
          BY <4>1, <4>2, <4>3
      <3>2. \A g \in DOMAIN groups', s \in singles' : Disjoint(groups'[g], s)
        <4> SUFFICES ASSUME NEW g \in DOMAIN groups', NEW s \in singles
                     PROVE  Disjoint(groups'[g], s)
          BY <2>1
        <4>1. CASE g = at
          BY <2>2, <2>5, <4>1
        <4>2. CASE g # at
          BY <1>9, <2>2, <4>2 DEF Apart
        <4> QED
          BY <4>1, <4>2
      <3>3. \A s, t \in singles' : s # t => Disjoint(s, t)
        BY <1>9, <2>1 DEF Apart
      <3> QED
        BY <3>1, <3>2, <3>3 DEF Apart
    <2>7. \A x \in AllRows' : x = new \/ x \in AllRows
      <3> SUFFICES ASSUME NEW x \in AllRows', x # new
                   PROVE  x \in AllRows
        OBVIOUS
      <3>1. x \in singles \/ \E g \in DOMAIN groups' : x = groups'[g]
        BY <2>1 DEF AllRows
      <3>2. ASSUME NEW g \in DOMAIN groups', x = groups'[g]
            PROVE  x \in AllRows
        BY <1>7, <2>2, <3>2
      <3> QED
        BY <1>7, <3>1, <3>2
    <2>8. new \in AllRows'
      BY <2>2 DEF AllRows
    <2>9. \A x \in AllRows' : RowIs(x) /\ x.instances \subseteq Hosted \ (todo \ {k})
      <3>1. old \subseteq Hosted \ todo
        BY <1>6, <1>7, <2>3
      <3>2. new.instances \subseteq Hosted \ (todo \ {k})
        BY <1>4, <1>8, <3>1
      <3> QED
        BY <1>6, <1>8, <2>7, <3>2
    <2>10. ASSUME NEW x \in Hosted \ (todo \ {k})
           PROVE  \E r \in AllRows' : x \in r.instances
      <3>1. CASE x \in new.instances
        BY <2>8, <3>1
      <3>2. CASE x \notin new.instances
        <4>1. x \notin todo /\ x \notin old
          BY <1>8, <3>2
        <4>2. PICK r \in AllRows : x \in r.instances
          BY <1>10, <4>1
        <4>3. r \in singles \/ \E g \in DOMAIN groups : r = groups[g]
          BY DEF AllRows
        <4>4. CASE r \in singles
          BY <2>1, <4>2, <4>4 DEF AllRows
        <4>5. ASSUME NEW g \in DOMAIN groups, r = groups[g]
              PROVE  r \in AllRows'
          <5>1. g # at
            BY <2>3, <4>1, <4>2, <4>5
          <5>2. g \in DOMAIN groups' /\ groups'[g] = r
            BY <2>2, <4>5, <5>1
          <5> QED
            BY <5>2 DEF AllRows
        <4> QED
          BY <4>2, <4>3, <4>4, <4>5
      <3> QED
        BY <3>1, <3>2
    <2> QED
      BY <1>1, <1>2, <1>3, <1>4, <1>11, <1>12, <2>6, <2>9, <2>10 DEF GroupOk
  <1> QED
    BY <1>13, <1>14

LEMMA ListRowsView ==
    ASSUME IInv, VInv, ListRows
    PROVE  BuildOk' /\ GroupOk' /\ ListOk'
  <1>1. /\ stage = "group" /\ todo = {} /\ stage' = "listed"
        /\ UNCHANGED <<remote, todo, rest, gateways, meta, groups, singles>>
    BY DEF ListRows, input, build
  <1>2. /\ Gateways' = Gateways /\ Hosted' = Hosted /\ (\A x : RowIs(x)' <=> RowIs(x))
        /\ Untaken' = Untaken /\ Left = {} /\ Left' = {}
    BY <1>1, SameGateways DEF Untaken, Left
  <1>3. AllRows' = AllRows /\ (Apart' <=> Apart)
    BY <1>1 DEF AllRows, Apart
  <1>4. BuildOk'
    BY <1>1, <1>2 DEF VInv, BuildOk, Stages
  <1>5. GroupOk'
    BY <1>1, <1>2, <1>3 DEF VInv, GroupOk
  <1>6. rows' \in Bijection(1 .. Cardinality(AllRows), AllRows)
    BY DEF ListRows, Listings
  <1>7. ListOk'
    BY <1>1, <1>3, <1>6 DEF ListOk
  <1> QED
    BY <1>4, <1>5, <1>7

LEMMA SyncView ==
    ASSUME IInv, VInv, SyncEffect
    PROVE  BuildOk' /\ GroupOk' /\ ListOk' /\ edges' = Linked'
  <1>1. /\ stage = "listed" /\ stage' = "synced" /\ edges' = Linked
        /\ UNCHANGED <<remote, known, todo, rest, gateways, meta, groups, singles, rows>>
    BY DEF SyncEffect, Sync, input, build, table
  <1>2. /\ Gateways' = Gateways /\ Hosted' = Hosted /\ (\A x : RowIs(x)' <=> RowIs(x))
        /\ Untaken' = Untaken /\ Left = {} /\ Left' = {}
    BY <1>1, SameGateways DEF Untaken, Left
  <1>3. AllRows' = AllRows /\ (Apart' <=> Apart)
    BY <1>1 DEF AllRows, Apart
  <1>4. BuildOk'
    BY <1>1, <1>2 DEF VInv, BuildOk, Stages
  <1>5. GroupOk'
    BY <1>1, <1>2, <1>3 DEF VInv, GroupOk
  <1>6. ListOk'
    BY <1>1, <1>3 DEF VInv, ListOk
  <1>7. Linked' = Linked
    BY <1>1, SameList DEF Linked, Edges, Gateways, GatewayId, PeerIds, NodeIds, KnownIds
  <1> QED
    BY <1>1, <1>4, <1>5, <1>6, <1>7

LEMMA StartView ==
    ASSUME NEW entries, NEW nodeList, StartRender(entries, nodeList)
    PROVE  BuildOk' /\ GroupOk' /\ ListOk' /\ stage' # "synced"
  <1>1. /\ stage' = "build" /\ remote' = entries /\ todo' = DOMAIN entries
        /\ rest' = <<>> /\ gateways' = <<>> /\ meta' = <<>>
        /\ groups' = <<>> /\ singles' = {} /\ rows' = <<>>
    BY DEF StartRender
  <1>2. Untaken' = DOMAIN entries
    BY <1>1 DEF Untaken
  <1>3. Gateways' = {}
    BY <1>1 DEF Gateways
  <1>4. rest' \in Seq(WireEntry)
    <2> HIDE DEF WireEntry
    <2> QED
      BY <1>1
  <1>5. BuildOk'
    BY <1>1, <1>2, <1>3, <1>4 DEF BuildOk, Stages
  <1>6. GroupOk'
    BY <1>1, NothingGrouped
  <1>7. ListOk'
    BY <1>1 DEF ListOk
  <1> QED
    BY <1>1, <1>5, <1>6, <1>7

LEMMA InitView == Init => VInv
  <1> SUFFICES ASSUME Init PROVE VInv
    OBVIOUS
  <1>1. /\ stage = "build" /\ remote = <<>> /\ todo = {} /\ reported = <<>>
        /\ rest = <<>> /\ gateways = <<>> /\ meta = <<>>
        /\ groups = <<>> /\ singles = {} /\ rows = <<>>
    BY DEF Init, RenderInit
  <1>2. SourceOk
    BY <1>1 DEF SourceOk, ReportsOk, Published
  <1>3. Untaken = {} /\ Gateways = {}
    BY <1>1 DEF Untaken, Gateways
  <1>4. rest \in Seq(WireEntry)
    <2> HIDE DEF WireEntry
    <2> QED
      BY <1>1
  <1>5. BuildOk
    BY <1>1, <1>3, <1>4 DEF BuildOk, Stages
  <1>6. AllRows = {} /\ Apart
    BY <1>1 DEF AllRows, Apart
  <1>7. GroupOk
    BY <1>1, <1>6 DEF GroupOk
  <1> QED
    BY <1>1, <1>2, <1>5, <1>7 DEF VInv, ListOk

LEMMA NextView == IInv /\ VInv /\ [Next]_vars => VInv'
  <1> SUFFICES ASSUME IInv, VInv, [Next]_vars PROVE VInv'
    OBVIOUS
  <1>1. CASE Render
    <2>1. stage # "synced" /\ UNCHANGED <<remote, reported>>
      BY <1>1 DEF Render, RenderNext, TakeEntry, DecodeContract, BuildDone, GroupContract,
                  ListRows, input
    <2>2. SourceOk'
      BY <2>1 DEF VInv, SourceOk
    <2>3. stage' # "synced"
      BY <1>1 DEF Render, RenderNext, TakeEntry, DecodeContract, BuildDone, GroupContract, ListRows
    <2>4. BuildOk' /\ GroupOk' /\ ListOk'
      BY <1>1, TakeEntryView, DecodeView, BuildDoneView, GroupView, ListRowsView
         DEF Render, RenderNext
    <2> QED
      BY <2>2, <2>3, <2>4 DEF VInv
  <1>2. CASE SyncEffect
    <2>1. UNCHANGED <<remote, reported>>
      BY <1>2 DEF SyncEffect, input
    <2>2. SourceOk'
      BY <2>1 DEF VInv, SourceOk
    <2> QED
      BY <1>2, <2>2, SyncView DEF VInv
  <1>3. CASE News
    <2>1. PICK entries \in EntryPool : StartRender(Published(entries), known) /\ reported' = entries
      BY <1>3 DEF News
    <2>2. ReportsOk(entries)
      BY PoolAssumption DEF ReportsOk
    <2>3. SourceOk'
      BY <2>1, <2>2 DEF SourceOk, StartRender
    <2>4. BuildOk' /\ GroupOk' /\ ListOk' /\ stage' # "synced"
      BY <2>1, StartView
    <2> QED
      BY <2>3, <2>4 DEF VInv
  <1>4. CASE ResetKnown
    <2>1. StartRender(remote, DefaultKnown) /\ reported' = reported
      BY <1>4 DEF ResetKnown
    <2>2. SourceOk'
      BY <2>1 DEF VInv, SourceOk, StartRender
    <2>3. BuildOk' /\ GroupOk' /\ ListOk' /\ stage' # "synced"
      BY <2>1, StartView
    <2> QED
      BY <2>2, <2>3 DEF VInv
  <1>5. CASE UNCHANGED <<viewVars, reported, edges>>
    <2>1. /\ Gateways' = Gateways /\ Hosted' = Hosted /\ (\A x : RowIs(x)' <=> RowIs(x))
          /\ Untaken' = Untaken /\ Left' = Left
      BY <1>5, SameGateways DEF Untaken, Left, viewVars, input, build, table
    <2>2. AllRows' = AllRows /\ (Apart' <=> Apart)
      BY <1>5 DEF AllRows, Apart, viewVars, input, build, table
    <2>3. SourceOk'
      BY <1>5 DEF VInv, SourceOk, viewVars, input, build, table
    <2>4. BuildOk'
      BY <1>5, <2>1 DEF VInv, BuildOk, viewVars, input, build, table
    <2>5. GroupOk'
      BY <1>5, <2>1, <2>2 DEF VInv, GroupOk, viewVars, input, build, table
    <2>6. ListOk'
      BY <1>5, <2>2 DEF VInv, ListOk, viewVars, input, build, table
    <2>7. Linked' = Linked
      BY <1>5 DEF Linked, Edges, Gateways, GatewayId, PeerIds, NodeIds, KnownIds,
                  viewVars, input, build, table
    <2>8. stage' = "synced" => edges' = Linked'
      BY <1>5, <2>7 DEF VInv, viewVars, input, build, table
    <2> QED
      BY <2>3, <2>4, <2>5, <2>6, <2>8 DEF VInv
  <1>6. CASE OnGraph
    <2>1. UNCHANGED <<viewVars, reported, edges>>
      BY <1>6 DEF OnGraph, Tick, Gesture, PressNode, PressBackground, Move, Release
    <2> QED
      BY <1>5, <2>1
  <1>7. CASE UNCHANGED vars
    BY <1>5, <1>7 DEF vars, layoutVars
  <1> QED
    BY <1>1, <1>2, <1>3, <1>4, <1>6, <1>7 DEF Next

LEMMA ViewInductive == Spec => [](IInv /\ VInv)
  <1>1. Init => IInv /\ VInv
    BY InitInv, InitView
  <1>2. IInv /\ VInv /\ [Next]_vars => IInv' /\ VInv'
    BY NextInv, NextView
  <1> QED
    BY <1>1, <1>2, PTL DEF Spec

-----------------------------------------------------------------------------
(***************************************************************************)
(* The order of texts is total.                                            *)
(***************************************************************************)
Splits(s, t, i) ==
    /\ i \in 1 .. Len(t) /\ i <= Len(s) + 1
    /\ \A j \in 1 .. i - 1 : s[j] = t[j]
    /\ i <= Len(s) => s[i] < t[i]

LEMMA TextIs ==
    ASSUME NEW s \in Text
    PROVE  Len(s) \in Nat /\ DOMAIN s = 1 .. Len(s) /\ \A i \in 1 .. Len(s) : s[i] \in Nat
  <1>1. s \in Seq(Byte)
    BY TextIsBytes
  <1>2. Len(s) \in Nat /\ DOMAIN s = 1 .. Len(s) /\ \A i \in 1 .. Len(s) : s[i] \in Byte
    <2> HIDE DEF Byte
    <2> QED
      BY <1>1
  <1>3. \A b \in Byte : b \in Nat
    BY DEF Byte
  <1> HIDE DEF Byte
  <1> QED
    BY <1>2, <1>3

LEMMA SamePrefix ==
    ASSUME NEW s \in Text, NEW t \in Text, NEW n \in Nat, n <= Len(s), n <= Len(t)
    PROVE  SubSeq(s, 1, n) = SubSeq(t, 1, n) <=> \A j \in 1 .. n : s[j] = t[j]
  <1>1. s \in Seq(Byte) /\ t \in Seq(Byte) /\ n \in 0 .. Len(s) /\ n \in 0 .. Len(t)
    BY TextIs, TextIsBytes
  <1>2. SubSeq(s, 1, n) = [j \in 1 .. n |-> s[j]]
    BY <1>1, SubSeqRestrict DEF Restrict
  <1>3. SubSeq(t, 1, n) = [j \in 1 .. n |-> t[j]]
    BY <1>1, SubSeqRestrict DEF Restrict
  <1>4. ASSUME SubSeq(s, 1, n) = SubSeq(t, 1, n), NEW j \in 1 .. n
        PROVE  s[j] = t[j]
    <2>1. SubSeq(s, 1, n)[j] = s[j] /\ SubSeq(t, 1, n)[j] = t[j]
      BY <1>2, <1>3, <1>4
    <2> QED
      BY <1>4, <2>1
  <1>5. ASSUME \A j \in 1 .. n : s[j] = t[j]
        PROVE  SubSeq(s, 1, n) = SubSeq(t, 1, n)
    BY <1>2, <1>3, <1>5
  <1> QED
    BY <1>4, <1>5

LEMMA BeforeSplits ==
    ASSUME NEW s \in Text, NEW t \in Text
    PROVE  TextBefore(s, t) <=> \E i \in Nat : Splits(s, t, i)
  <1>1. Len(s) \in Nat /\ Len(t) \in Nat
    BY TextIs
  <1>2. ASSUME NEW i \in 1 .. Len(t), i <= Len(s) + 1
        PROVE  SubSeq(s, 1, i - 1) = SubSeq(t, 1, i - 1) <=> \A j \in 1 .. i - 1 : s[j] = t[j]
    <2>1. i - 1 \in Nat /\ i - 1 <= Len(s) /\ i - 1 <= Len(t)
      BY <1>1, <1>2
    <2> QED
      BY <2>1, SamePrefix
  <1>3. ASSUME TextBefore(s, t)
        PROVE  \E i \in Nat : Splits(s, t, i)
    <2>1. PICK i \in 1 .. Len(t) : /\ i <= Len(s) + 1
                                   /\ SubSeq(s, 1, i - 1) = SubSeq(t, 1, i - 1)
                                   /\ i <= Len(s) => s[i] < t[i]
      BY <1>3 DEF TextBefore
    <2>2. Splits(s, t, i)
      BY <1>2, <2>1 DEF Splits
    <2>3. i \in Nat
      BY <1>1
    <2> QED
      BY <2>2, <2>3
  <1>4. ASSUME NEW i \in Nat, Splits(s, t, i)
        PROVE  TextBefore(s, t)
    <2>1. /\ i \in 1 .. Len(t) /\ i <= Len(s) + 1 /\ (i <= Len(s) => s[i] < t[i])
          /\ \A j \in 1 .. i - 1 : s[j] = t[j]
      BY <1>4 DEF Splits
    <2>2. SubSeq(s, 1, i - 1) = SubSeq(t, 1, i - 1)
      BY <1>2, <2>1
    <2> QED
      BY <2>1, <2>2 DEF TextBefore
  <1> QED
    BY <1>3, <1>4

LEMMA OneFirst ==
    ASSUME NEW s \in Text, NEW t \in Text
    PROVE  /\ ~TextBefore(s, s)
           /\ ~(TextBefore(s, t) /\ TextBefore(t, s))
           /\ s = t \/ TextBefore(s, t) \/ TextBefore(t, s)
  <1>1. /\ Len(s) \in Nat /\ DOMAIN s = 1 .. Len(s) /\ \A i \in 1 .. Len(s) : s[i] \in Nat
        /\ Len(t) \in Nat /\ DOMAIN t = 1 .. Len(t) /\ \A i \in 1 .. Len(t) : t[i] \in Nat
    BY TextIs
  <1>0. Len(s) \in Nat /\ Len(t) \in Nat
    BY TextIs
  <1>2. ASSUME NEW i \in Nat, Splits(s, s, i)
        PROVE  FALSE
    BY <1>1, <1>2 DEF Splits
  <1>3. ASSUME NEW i \in Nat, Splits(s, t, i), NEW k \in Nat, Splits(t, s, k)
        PROVE  FALSE
    <2>1. /\ i \in 1 .. Len(t) /\ i <= Len(s) + 1 /\ (i <= Len(s) => s[i] < t[i])
          /\ \A j \in 1 .. i - 1 : s[j] = t[j]
          /\ k \in 1 .. Len(s) /\ k <= Len(t) + 1 /\ (k <= Len(t) => t[k] < s[k])
          /\ \A j \in 1 .. k - 1 : t[j] = s[j]
      BY <1>3 DEF Splits
    <2>2. CASE i < k
      <3>1. i \in 1 .. k - 1 /\ i <= Len(s)
        BY <1>1, <2>1, <2>2
      <3>2. t[i] = s[i] /\ s[i] < t[i] /\ s[i] \in Nat /\ t[i] \in Nat
        BY <1>1, <2>1, <3>1
      <3> QED
        BY <3>2
    <2>3. CASE k < i
      <3>1. k \in 1 .. i - 1 /\ k <= Len(t)
        BY <1>1, <2>1, <2>3
      <3>2. t[k] = s[k] /\ t[k] < s[k] /\ s[k] \in Nat /\ t[k] \in Nat
        BY <1>1, <2>1, <3>1
      <3> QED
        BY <3>2
    <2>4. CASE i = k
      <3>1. i <= Len(s) /\ k <= Len(t)
        BY <1>1, <2>1, <2>4
      <3>2. s[i] < t[i] /\ t[i] < s[i] /\ s[i] \in Nat /\ t[i] \in Nat
        BY <1>1, <2>1, <2>4, <3>1
      <3> QED
        BY <3>2
    <2> QED
      BY <2>2, <2>3, <2>4
  <1>4. ASSUME s # t
        PROVE  (\E i \in Nat : Splits(s, t, i)) \/ (\E i \in Nat : Splits(t, s, i))
    <2> DEFINE D == {i \in Nat : /\ i >= 1 /\ i <= Len(s) + 1 /\ i <= Len(t) + 1
                                 /\ i <= Len(s) /\ i <= Len(t) => s[i] # t[i]}
    <2>1. D # {}
      <3>1. CASE Len(s) < Len(t)
        <4>1. Len(s) + 1 \in D
          BY <1>1, <3>1
        <4> QED
          BY <4>1
      <3>2. CASE Len(t) < Len(s)
        <4>1. Len(t) + 1 \in D
          BY <1>1, <3>2
        <4> QED
          BY <4>1
      <3>3. CASE Len(s) = Len(t)
        <4>1. \E i \in 1 .. Len(s) : s[i] # t[i]
          <5>1. s \in Seq(Byte) /\ t \in Seq(Byte)
            BY TextIsBytes
          <5>2. s = [i \in 1 .. Len(s) |-> s[i]] /\ t = [i \in 1 .. Len(t) |-> t[i]]
            <6> HIDE DEF Byte
            <6> QED
              BY <5>1
          <5> QED
            BY <1>4, <3>3, <5>2
        <4>2. PICK i \in 1 .. Len(s) : s[i] # t[i]
          BY <4>1
        <4>3. i \in D
          BY <1>1, <3>3, <4>2
        <4> QED
          BY <4>3
      <3>4. Len(s) < Len(t) \/ Len(t) < Len(s) \/ Len(s) = Len(t)
        BY <1>0
      <3> HIDE DEF D
      <3> QED
        BY <3>1, <3>2, <3>3, <3>4
    <2>2. PICK m \in D : \A k \in D : m <= k
      <3>1. D \in SUBSET Nat
        OBVIOUS
      <3> HIDE DEF D
      <3> QED
        BY <2>1, <3>1, LeastNatural
    <2>3. /\ m \in Nat /\ m >= 1 /\ m <= Len(s) + 1 /\ m <= Len(t) + 1
          /\ m <= Len(s) /\ m <= Len(t) => s[m] # t[m]
      OBVIOUS
    <2>4. ASSUME NEW j \in 1 .. m - 1
          PROVE  s[j] = t[j]
      <3>1. j \in Nat /\ j >= 1 /\ j < m /\ j <= Len(s) /\ j <= Len(t)
        BY <1>1, <2>3
      <3>2. j \notin D
        <4>1. j \in D => m <= j
          BY <2>2
        <4> HIDE DEF D
        <4> QED
          BY <2>3, <3>1, <4>1
      <3> QED
        BY <3>1, <3>2
    <2> HIDE DEF D
    <2>5. CASE m > Len(s) /\ m > Len(t)
      <3>1. m - 1 = Len(s) /\ Len(s) = Len(t)
        <4>1. m <= Len(s) + 1 /\ m <= Len(t) + 1 /\ m \in Nat
          BY <2>3
        <4> QED
          BY <1>0, <2>5, <4>1
      <3>2. s \in Seq(Byte) /\ t \in Seq(Byte)
        BY TextIsBytes
      <3>3. s = [i \in 1 .. Len(s) |-> s[i]] /\ t = [i \in 1 .. Len(t) |-> t[i]]
        <4> HIDE DEF Byte
        <4> QED
          BY <3>2
      <3> QED
        BY <1>4, <2>4, <3>1, <3>3
    <2>6. CASE m > Len(s) /\ m <= Len(t)
      <3>1. Splits(s, t, m)
        BY <1>1, <2>3, <2>4, <2>6 DEF Splits
      <3> QED
        BY <2>3, <3>1
    <2>7. CASE m <= Len(s) /\ m > Len(t)
      <3>1. Splits(t, s, m)
        BY <1>1, <2>3, <2>4, <2>7 DEF Splits
      <3> QED
        BY <2>3, <3>1
    <2>8. CASE m <= Len(s) /\ m <= Len(t)
      <3>1. s[m] \in Nat /\ t[m] \in Nat /\ s[m] # t[m] /\ m \in 1 .. Len(s) /\ m \in 1 .. Len(t)
        BY <1>1, <2>3, <2>8
      <3>2. CASE s[m] < t[m]
        <4>1. Splits(s, t, m)
          BY <1>1, <2>3, <2>4, <2>8, <3>1, <3>2 DEF Splits
        <4> QED
          BY <2>3, <4>1
      <3>3. CASE t[m] < s[m]
        <4>1. Splits(t, s, m)
          BY <1>1, <2>3, <2>4, <2>8, <3>1, <3>3 DEF Splits
        <4> QED
          BY <2>3, <4>1
      <3> QED
        BY <3>1, <3>2, <3>3
    <2> QED
      BY <1>1, <2>3, <2>5, <2>6, <2>7, <2>8
  <1> QED
    BY <1>2, <1>3, <1>4, BeforeSplits

LEMMA BeforeTransitive ==
    ASSUME NEW r \in Text, NEW s \in Text, NEW t \in Text, TextBefore(r, s), TextBefore(s, t)
    PROVE  TextBefore(r, t)
  <1>1. /\ Len(r) \in Nat /\ \A i \in 1 .. Len(r) : r[i] \in Nat
        /\ Len(s) \in Nat /\ \A i \in 1 .. Len(s) : s[i] \in Nat
        /\ Len(t) \in Nat /\ \A i \in 1 .. Len(t) : t[i] \in Nat
    BY TextIs
  <1>2. PICK i \in Nat : Splits(r, s, i)
    BY BeforeSplits
  <1>3. PICK k \in Nat : Splits(s, t, k)
    BY BeforeSplits
  <1>4. /\ i \in 1 .. Len(s) /\ i <= Len(r) + 1 /\ (i <= Len(r) => r[i] < s[i])
        /\ \A j \in 1 .. i - 1 : r[j] = s[j]
    BY <1>2 DEF Splits
  <1>5. /\ k \in 1 .. Len(t) /\ k <= Len(s) + 1 /\ (k <= Len(s) => s[k] < t[k])
        /\ \A j \in 1 .. k - 1 : s[j] = t[j]
    BY <1>3 DEF Splits
  <1>6. CASE i < k
    <2>1. i \in 1 .. Len(t) /\ i \in 1 .. k - 1
      BY <1>1, <1>4, <1>5, <1>6
    <2>2. s[i] = t[i]
      BY <1>5, <2>1
    <2>3. \A j \in 1 .. i - 1 : r[j] = t[j]
      BY <1>4, <1>5, <1>6
    <2>4. Splits(r, t, i)
      BY <1>4, <2>1, <2>2, <2>3 DEF Splits
    <2> QED
      BY <2>4, BeforeSplits
  <1>7. CASE k < i
    <2>1. k \in 1 .. Len(t) /\ k \in 1 .. i - 1 /\ k <= Len(r) + 1 /\ k <= Len(s)
      BY <1>1, <1>4, <1>5, <1>7
    <2>2. r[k] = s[k] /\ s[k] < t[k]
      BY <1>4, <1>5, <2>1
    <2>3. \A j \in 1 .. k - 1 : r[j] = t[j]
      BY <1>4, <1>5, <1>7
    <2>4. Splits(r, t, k)
      BY <2>1, <2>2, <2>3 DEF Splits
    <2> QED
      BY <2>4, BeforeSplits
  <1>8. CASE i = k
    <2>1. \A j \in 1 .. i - 1 : r[j] = t[j]
      BY <1>4, <1>5, <1>8
    <2>2. i <= Len(r) => r[i] < t[i]
      <3> SUFFICES ASSUME i <= Len(r) PROVE r[i] < t[i]
        OBVIOUS
      <3>1. i \in 1 .. Len(r) /\ i \in 1 .. Len(s) /\ i \in 1 .. Len(t) /\ i <= Len(s)
        BY <1>1, <1>4, <1>5, <1>8
      <3>2. r[i] \in Nat /\ s[i] \in Nat /\ t[i] \in Nat /\ r[i] < s[i] /\ s[i] < t[i]
        BY <1>1, <1>4, <1>5, <1>8, <3>1
      <3> QED
        BY <3>2
    <2>3. Splits(r, t, i)
      BY <1>4, <1>5, <1>8, <2>1, <2>2 DEF Splits
    <2> QED
      BY <2>3, BeforeSplits
  <1> QED
    BY <1>6, <1>7, <1>8

LEMMA LeastText ==
    ASSUME NEW S \in SUBSET Text, IsFiniteSet(S), S # {}
    PROVE  \E k \in S : \A other \in S \ {k} : TextBefore(k, other)
  <1> DEFINE HasLeast(T) == \E k \in T : \A other \in T \ {k} : TextBefore(k, other)
             done == {n \in Nat : \A T \in SUBSET Text :
                         IsFiniteSet(T) /\ Cardinality(T) = n /\ T # {} => HasLeast(T)}
  <1>1. 0 \in done
    BY FS_EmptySet
  <1>2. ASSUME NEW n \in Nat, n \in done
        PROVE  n + 1 \in done
    <2>0. \A U \in SUBSET Text : IsFiniteSet(U) /\ Cardinality(U) = n /\ U # {} => HasLeast(U)
      BY <1>2
    <2> SUFFICES ASSUME NEW T \in SUBSET Text, IsFiniteSet(T), Cardinality(T) = n + 1, T # {}
                 PROVE  HasLeast(T)
      OBVIOUS
    <2> HIDE DEF done
    <2>1. PICK x \in T : TRUE
      OBVIOUS
    <2> DEFINE R == T \ {x}
    <2>2. IsFiniteSet(R) /\ Cardinality(R) = n
      <3>1. IsFiniteSet(R) /\ Cardinality(R) = Cardinality(T) - 1
        BY FS_RemoveElement
      <3> QED
        BY <3>1
    <2>3. CASE R = {}
      BY <2>3
    <2>4. CASE R # {}
      <3>1. HasLeast(R)
        BY <2>0, <2>2, <2>4
      <3>2. PICK k \in R : \A other \in R \ {k} : TextBefore(k, other)
        BY <3>1
      <3>3. x # k /\ x \in Text /\ k \in Text
        OBVIOUS
      <3>4. CASE TextBefore(k, x)
        BY <3>2, <3>4
      <3>5. CASE TextBefore(x, k)
        <4>1. \A other \in T \ {x} : TextBefore(x, other)
          BY <3>2, <3>3, <3>5, BeforeTransitive
        <4> QED
          BY <4>1
      <3> QED
        BY <3>3, <3>4, <3>5, OneFirst
    <2> QED
      BY <2>3, <2>4
  <1> HIDE DEF done
  <1>3. \A n \in Nat : n \in done
    BY <1>1, <1>2, SetInduction
  <1>4. Cardinality(S) \in Nat
    BY FS_CardinalityType
  <1>5. Cardinality(S) \in done
    BY <1>3, <1>4
  <1> QED
    BY <1>5 DEF done

-----------------------------------------------------------------------------
(***************************************************************************)
(* The finished list, and where its rows come from.                        *)
(***************************************************************************)
LEMMA KeyOfIs ==
    ASSUME NEW row, RowIs(row)
    PROVE  KeyOf(row) \in row.instances /\ KeyOf(row) \in Text
  <1>1. row.instances \in SUBSET Keys /\ IsFiniteSet(row.instances) /\ row.instances # {}
    BY RowFields DEF RowIs
  <1>2. row.instances \in SUBSET Text
    BY <1>1, ViewAssumption DEF Text
  <1>3. \E k \in row.instances : \A other \in row.instances \ {k} : TextBefore(k, other)
    BY <1>1, <1>2, LeastText
  <1>4. KeyOf(row) \in row.instances
    BY <1>3 DEF KeyOf
  <1> QED
    BY <1>2, <1>4

(* The rows of a list: each contract is in exactly one.                    *)
LEMMA RowsApart ==
    ASSUME VInv, NEW x \in AllRows, NEW y \in AllRows, x # y
    PROVE  x.instances \cap y.instances = {}
  <1>1. Apart
    BY DEF VInv, GroupOk
  <1>2. (x \in singles \/ \E g \in DOMAIN groups : x = groups[g])
        /\ (y \in singles \/ \E g \in DOMAIN groups : y = groups[g])
    BY DEF AllRows
  <1>3. CASE x \in singles /\ y \in singles
    BY <1>1, <1>3 DEF Apart, Disjoint
  <1>4. ASSUME NEW g \in DOMAIN groups, x = groups[g], y \in singles
        PROVE  x.instances \cap y.instances = {}
    BY <1>1, <1>4 DEF Apart, Disjoint
  <1>5. ASSUME NEW g \in DOMAIN groups, y = groups[g], x \in singles
        PROVE  x.instances \cap y.instances = {}
    BY <1>1, <1>5 DEF Apart, Disjoint
  <1>6. ASSUME NEW g \in DOMAIN groups, x = groups[g], NEW h \in DOMAIN groups, y = groups[h]
        PROVE  x.instances \cap y.instances = {}
    <2>1. g # h
      BY <1>6
    <2>2. Disjoint(groups[g], groups[h])
      BY <1>1, <2>1 DEF Apart
    <2> QED
      BY <1>6, <2>2 DEF Disjoint
  <1> QED
    BY <1>2, <1>3, <1>4, <1>5, <1>6

LEMMA ListedRows ==
    ASSUME VInv, Listed
    PROVE  /\ Rows = AllRows
           /\ \A row \in Rows : RowIs(row) /\ row.instances \subseteq Hosted
           /\ \A k \in Hosted : \E i \in DOMAIN rows : k \in rows[i].instances
           /\ \A i, j \in DOMAIN rows : i # j => rows[i].instances \cap rows[j].instances = {}
  <1>1. stage \in {"listed", "synced"} /\ stage # "build"
    BY DEF Listed
  <1>2. rows \in Bijection(1 .. Cardinality(AllRows), AllRows)
    BY <1>1 DEF VInv, ListOk
  <1>3. /\ \A i \in DOMAIN rows : rows[i] \in AllRows
        /\ \A row \in AllRows : \E i \in DOMAIN rows : rows[i] = row
        /\ \A i, j \in DOMAIN rows : i # j => rows[i] # rows[j]
    BY <1>2 DEF Bijection, Injection, Surjection, IsInjective
  <1>4. Rows = AllRows
    BY <1>3 DEF Rows
  <1>5. Left = {}
    BY <1>1 DEF Left
  <1>6. /\ \A row \in AllRows : RowIs(row) /\ row.instances \subseteq Hosted
        /\ \A k \in Hosted : \E row \in AllRows : k \in row.instances
    BY <1>1, <1>5 DEF VInv, GroupOk
  <1>7. \A k \in Hosted : \E i \in DOMAIN rows : k \in rows[i].instances
    <2> SUFFICES ASSUME NEW k \in Hosted
                 PROVE  \E i \in DOMAIN rows : k \in rows[i].instances
      OBVIOUS
    <2>1. PICK row \in AllRows : k \in row.instances
      BY <1>6
    <2>2. PICK i \in DOMAIN rows : rows[i] = row
      BY <1>3
    <2> QED
      BY <2>1, <2>2
  <1>8. \A i, j \in DOMAIN rows : i # j => rows[i].instances \cap rows[j].instances = {}
    BY <1>3, RowsApart
  <1> QED
    BY <1>4, <1>6, <1>7, <1>8

(* The gateways of a list are the publishers with what they reported.      *)
ViewOf(p) == GatewayView(p, remote[p])

LEMMA ViewIs ==
    ASSUME VInv, NEW p \in DOMAIN reported
    PROVE  /\ ViewOf(p).label = FilterLabel(p) /\ ViewOf(p).seen = reported[p].time
           /\ ViewOf(p).address = remote[p].address
           /\ \A k \in Keys : k \in ViewOf(p).contracts <=> p \in HostsOf(k)
           /\ reported[p].time \in Nat
  <1>1. ReportsOk(reported) /\ remote = Published(reported)
    BY DEF VInv, SourceOk
  <1>2. Carries(remote[p], reported[p])
    BY <1>1, PublishedCarries
  <1>3. /\ remote[p].time = reported[p].time
        /\ DOMAIN remote[p].contracts = DOMAIN reported[p].contracts
        /\ \A i \in DOMAIN reported[p].contracts :
              remote[p].contracts[i].key = reported[p].contracts[i].key
    BY <1>2 DEF Carries
  <1>4. /\ ViewOf(p).label = FilterLabel(p) /\ ViewOf(p).seen = remote[p].time
        /\ ViewOf(p).address = remote[p].address
        /\ ViewOf(p).contracts =
              {remote[p].contracts[i].key : i \in DOMAIN remote[p].contracts}
    BY DEF ViewOf, GatewayView, Label, FilterLabel
  <1>5. \A k \in Keys : k \in ViewOf(p).contracts <=> p \in HostsOf(k)
    BY <1>3, <1>4 DEF HostsOf
  <1>6. reported[p].time \in Nat
    BY <1>1, ReportFields DEF ReportsOk
  <1> QED
    BY <1>3, <1>4, <1>5, <1>6

LEMMA ListedGateways ==
    ASSUME VInv, Listed
    PROVE  /\ DOMAIN remote = DOMAIN reported
           /\ Gateways = {ViewOf(p) : p \in DOMAIN reported}
  <1>1. DOMAIN remote = DOMAIN reported
    BY DEF VInv, SourceOk, Published
  <1>2. Untaken = {}
    BY DEF Listed, Untaken
  <1> QED
    BY <1>1, <1>2 DEF VInv, BuildOk, ViewOf

LEMMA RowSources ==
    ASSUME VInv, Listed, NEW row \in Rows
    PROVE  LET from == UNION {HostsOf(k) : k \in row.instances}
           IN  /\ HostsAny(row.instances) = {ViewOf(p) : p \in from}
               /\ row.seenBy = {FilterLabel(p) : p \in from}
               /\ Latest(row.seen, {reported[p].time : p \in from})
               /\ from \subseteq DOMAIN reported
  <1> DEFINE from == UNION {HostsOf(k) : k \in row.instances}
  <1>1. RowIs(row) /\ row.instances \in SUBSET Keys
    BY ListedRows, RowFields DEF RowIs
  <1>2. from \subseteq DOMAIN reported
    BY DEF HostsOf
  <1>3. \A p \in DOMAIN reported : ViewOf(p).contracts \cap row.instances # {} <=> p \in from
    <2> SUFFICES ASSUME NEW p \in DOMAIN reported
                 PROVE  ViewOf(p).contracts \cap row.instances # {} <=> p \in from
      OBVIOUS
    <2>1. \A k \in Keys : k \in ViewOf(p).contracts <=> p \in HostsOf(k)
      BY ViewIs
    <2>2. p \in from <=> \E k \in row.instances : p \in HostsOf(k)
      OBVIOUS
    <2> QED
      BY <1>1, <2>1, <2>2
  <1>4. HostsAny(row.instances) = {ViewOf(p) : p \in from}
    BY <1>2, <1>3, ListedGateways DEF HostsAny
  <1>5. row.seenBy = {FilterLabel(p) : p \in from}
    <2>1. row.seenBy = {g.label : g \in HostsAny(row.instances)}
      BY <1>1 DEF RowIs
    <2>2. \A p \in from : ViewOf(p).label = FilterLabel(p)
      BY <1>2, ViewIs
    <2> HIDE DEF from
    <2> QED
      BY <1>4, <2>1, <2>2
  <1>6. {g.seen : g \in HostsAny(row.instances)} = {reported[p].time : p \in from}
    <2>1. \A p \in from : ViewOf(p).seen = reported[p].time
      BY <1>2, ViewIs
    <2> HIDE DEF from
    <2> QED
      BY <1>4, <2>1
  <1>7. Latest(row.seen, {reported[p].time : p \in from})
    BY <1>1, <1>6 DEF RowIs
  <1> QED
    BY <1>2, <1>4, <1>5, <1>7

-----------------------------------------------------------------------------
(***************************************************************************)
(* Picking a row or a node lights up what it should.                       *)
(***************************************************************************)
LEMMA RowLights ==
    ASSUME IInv, VInv, stage = "synced", NEW row \in Rows
    PROVE  LET lit == HighlightContract(KeyOf(row))
           IN  /\ lit # {} /\ lit \subseteq DOMAIN nodes
               /\ \A id \in lit : \E g \in Gateways : GatewayId(g) = id /\ g.label \in row.seenBy
  <1> DEFINE k == KeyOf(row)
  <1>1. RowIs(row) /\ row.instances \subseteq Hosted
    BY ListedRows DEF Listed
  <1>2. k \in row.instances
    BY <1>1, KeyOfIs
  <1>3. Hosts(k) # {}
    BY <1>1, <1>2 DEF Hosted, Hosts
  <1>4. DOMAIN nodes = NodeIds
    BY DEF IInv, GraphMatchesList
  <1>5. HighlightContract(k) = {GatewayId(g) : g \in Hosts(k)}
    BY DEF HighlightContract
  <1>6. row.seenBy = {g.label : g \in HostsAny(row.instances)}
    BY <1>1 DEF RowIs
  <1>7. Hosts(k) \subseteq Gateways /\ Hosts(k) \subseteq HostsAny(row.instances)
    BY <1>2 DEF Hosts, HostsAny
  <1>8. HighlightContract(k) \subseteq NodeIds
    BY <1>5, <1>7 DEF NodeIds
  <1> HIDE DEF k
  <1>9. \A id \in HighlightContract(k) : \E g \in Gateways : GatewayId(g) = id /\ g.label \in row.seenBy
    BY <1>5, <1>6, <1>7
  <1> QED
    BY <1>3, <1>4, <1>5, <1>8, <1>9 DEF k

LEMMA NodeLights ==
    ASSUME IInv, VInv, stage = "synced", NEW id \in DOMAIN nodes
    PROVE  HighlightNode(id) \ {id} = {j \in DOMAIN nodes \ {id} : {id, j} \in edges}
  <1>1. DOMAIN nodes = NodeIds /\ edges = Linked
    BY DEF IInv, GraphMatchesList, VInv
  <1> DEFINE own == {g \in Gateways : GatewayId(g) = id}
             seers == {g \in Gateways : id \in PeerIds(g)}
  <1>2. HighlightNode(id) = IF own \cup seers = {} THEN {}
                            ELSE {id} \cup {GatewayId(g) : g \in seers} \cup UNION {PeerIds(g) : g \in own}
    BY DEF HighlightNode
  <1>3. \A e : e \in Linked <=> \E g \in Gateways : \E p \in PeerIds(g) : e = {GatewayId(g), p}
    <2>1. \A g \in Gateways : \A p \in PeerIds(g) : p \in NodeIds
      BY DEF NodeIds
    <2> QED
      BY <2>1 DEF Linked, Edges
  <1>4. ASSUME NEW j, j # id
        PROVE  j \in HighlightNode(id) <=> j \in NodeIds /\ {id, j} \in Linked
    <2>1. j \in HighlightNode(id)
             <=> (\E g \in seers : j = GatewayId(g)) \/ (\E g \in own : j \in PeerIds(g))
      <3> HIDE DEF own, seers
      <3> QED
        BY <1>2, <1>4
    <2>2. {id, j} \in Linked
             <=> \E g \in Gateways : \E p \in PeerIds(g) : {id, j} = {GatewayId(g), p}
      BY <1>3
    <2>3. ASSUME NEW g \in seers, j = GatewayId(g)
          PROVE  j \in NodeIds /\ {id, j} \in Linked
      <3>1. g \in Gateways /\ id \in PeerIds(g) /\ {id, j} = {GatewayId(g), id}
        BY <2>3
      <3>2. j \in NodeIds
        BY <2>3 DEF NodeIds
      <3> QED
        BY <2>2, <3>1, <3>2
    <2>4. ASSUME NEW g \in own, j \in PeerIds(g)
          PROVE  j \in NodeIds /\ {id, j} \in Linked
      <3>1. g \in Gateways /\ {id, j} = {GatewayId(g), j}
        OBVIOUS
      <3>2. j \in NodeIds
        BY <2>4, <3>1 DEF NodeIds
      <3> QED
        BY <2>2, <2>4, <3>1, <3>2
    <2>5. ASSUME NEW g \in Gateways, NEW p \in PeerIds(g), {id, j} = {GatewayId(g), p}
          PROVE  (g \in seers /\ j = GatewayId(g)) \/ (g \in own /\ j \in PeerIds(g))
      <3>1. (id = GatewayId(g) /\ j = p) \/ (id = p /\ j = GatewayId(g))
        BY <1>4, <2>5
      <3> QED
        BY <3>1
    <2> HIDE DEF own, seers
    <2> QED
      BY <2>1, <2>2, <2>3, <2>4, <2>5
  <1> QED
    BY <1>1, <1>4

(***************************************************************************)
(* Picking a row lights up nodes that are on the graph, each of them a     *)
(* publisher of that row, by the row's least instance: a finite set of     *)
(* texts has one.  Picking a node lights up its neighbours along edges.    *)
(***************************************************************************)
THEOREM PickLightsUp == Spec => []RowHighlights
  <1>1. IInv /\ VInv => RowHighlights
    BY RowLights, NodeLights DEF RowHighlights
  <1> QED
    BY <1>1, ViewInductive, PTL

-----------------------------------------------------------------------------
(***************************************************************************)
(* The filter by publisher and the facets, which count.                    *)
(***************************************************************************)
LEMMA SoleIsOne ==
    ASSUME NEW S, IsFiniteSet(S), S # {}
    PROVE  /\ Cardinality(S) \in Nat /\ Cardinality(S) # 0
           /\ Cardinality(S) = 1 <=> \A k \in S : S = {k}
  <1>1. Cardinality(S) \in Nat /\ (Cardinality(S) = 0 <=> S = {})
    BY FS_CardinalityType, FS_EmptySet
  <1>2. Cardinality(S) = 1 <=> \E x : S = {x}
    BY FS_Singleton
  <1>3. (\E x : S = {x}) <=> \A k \in S : S = {k}
    OBVIOUS
  <1> QED
    BY <1>1, <1>2, <1>3

(* Publishers have names of their own, so a row counts each once.          *)
LEMMA ReportersFinite ==
    ASSUME IInv, VInv, Listed
    PROVE  IsFiniteSet(DOMAIN reported)
  <1>1. IsFiniteSet(Gateways)
    <2>1. Len(gateways) \in Nat /\ DOMAIN gateways = 1 .. Len(gateways)
      BY GatewayList DEF IInv
    <2>2. IsFiniteSet(1 .. Len(gateways))
      <3>1. 1 \in Int /\ Len(gateways) \in Int
        BY <2>1
      <3> QED
        BY <3>1, FS_Interval
    <2> DEFINE at == [i \in 1 .. Len(gateways) |-> gateways[i]]
    <2>3. at \in Surjection(1 .. Len(gateways), Gateways)
      BY <2>1 DEF Surjection, Gateways
    <2> HIDE DEF at
    <2> QED
      BY <2>2, <2>3, FS_Surjection
  <1> DEFINE view == [p \in DOMAIN reported |-> ViewOf(p)]
  <1>2. \A p, q \in DOMAIN reported : ViewOf(p) = ViewOf(q) => p = q
    <2>1. \A p : ViewOf(p).label.publisher = p
      BY DEF ViewOf, GatewayView, Label
    <2> QED
      BY <2>1
  <1>3. view \in Injection(DOMAIN reported, Gateways)
    BY <1>2, ListedGateways DEF Injection, IsInjective
  <1> HIDE DEF view
  <1> QED
    BY <1>1, <1>3, FS_Injection

LEMMA NamesCount ==
    ASSUME IInv, VInv, Listed, NEW from \in SUBSET DOMAIN reported
    PROVE  /\ IsFiniteSet(from) /\ Cardinality(from) \in Nat
           /\ Cardinality({FilterLabel(p) : p \in from}) = Cardinality(from)
           /\ \A q : FilterLabel(q) \in {FilterLabel(p) : p \in from} <=> q \in from
  <1>1. \A p, q : FilterLabel(p) = FilterLabel(q) => p = q
    <2>1. \A p : FilterLabel(p).publisher = p
      BY DEF FilterLabel
    <2> QED
      BY <2>1
  <1>2. IsFiniteSet(from) /\ Cardinality(from) \in Nat
    BY ReportersFinite, FS_Subset, FS_CardinalityType
  <1> DEFINE names == {FilterLabel(p) : p \in from}
             name == [p \in from |-> FilterLabel(p)]
  <1>3. name \in Bijection(from, names)
    BY <1>1 DEF Bijection, Injection, Surjection, IsInjective
  <1>4. ExistsBijection(from, names)
    BY <1>3 DEF ExistsBijection
  <1>5. Cardinality(names) = Cardinality(from)
    BY <1>2, <1>4, FS_Bijection
  <1> QED
    BY <1>1, <1>2, <1>5

LEMMA FilterRow ==
    ASSUME IInv, VInv, Listed, NEW row \in Rows, NEW p \in DOMAIN remote,
           NEW n \in 1 .. 2, NEW instance \in {"any", "solo", "multi"}
    PROVE  Passes(row, "any", instance, n, FilterLabel(p)) <=>
              /\ \E k \in row.instances : p \in HostsOf(k)
              /\ Cardinality(UNION {HostsOf(k) : k \in row.instances}) >= n
              /\ instance # "any" =>
                    (instance = "solo" <=> \A k \in row.instances : row.instances = {k})
  <1> DEFINE from == UNION {HostsOf(k) : k \in row.instances}
             c == Cardinality(row.instances)
             sole == \A k \in row.instances : row.instances = {k}
  <1>1. row.seenBy = {FilterLabel(q) : q \in from} /\ from \in SUBSET DOMAIN reported
    BY RowSources
  <1>2. FilterLabel(p) # NoLabel
    <2>1. p \in Publishers
      <3>1. p \in DOMAIN reported
        BY ListedGateways
      <3> QED
        BY <3>1 DEF VInv, SourceOk, ReportsOk
    <2>2. FilterLabel(p).publisher = p /\ NoLabel.publisher = NoPublisher
      BY DEF FilterLabel, NoLabel
    <2> QED
      BY <2>1, <2>2, ViewAssumption
  <1>3. FilterLabel(p) \in row.seenBy <=> p \in from
    <2> HIDE DEF from
    <2> QED
      BY <1>1, NamesCount
  <1>4. Cardinality(row.seenBy) = Cardinality(from)
    <2> HIDE DEF from
    <2> QED
      BY <1>1, NamesCount
  <1>5. c \in Nat /\ c # 0 /\ (c = 1 <=> sole)
    <2>1. IsFiniteSet(row.instances) /\ row.instances # {}
      BY ListedRows DEF RowIs
    <2> QED
      BY <2>1, SoleIsOne
  <1>6. p \in from <=> \E k \in row.instances : p \in HostsOf(k)
    OBVIOUS
  <1>7. Passes(row, "any", instance, n, FilterLabel(p)) <=>
            /\ instance = "multi" => c > 1
            /\ instance = "solo" => c = 1
            /\ Cardinality(row.seenBy) >= n
            /\ FilterLabel(p) # NoLabel => FilterLabel(p) \in row.seenBy
    BY DEF Passes
  <1> HIDE DEF from, c, sole
  <1>8. (instance = "multi" => c > 1) /\ (instance = "solo" => c = 1)
           <=> (instance # "any" => (instance = "solo" <=> sole))
    <2>1. CASE instance = "any"
      BY <2>1
    <2>2. CASE instance = "solo"
      BY <1>5, <2>2
    <2>3. CASE instance = "multi"
      <3>1. c > 1 <=> ~sole
        BY <1>5
      <3> QED
        BY <2>3, <3>1
    <2> QED
      BY <2>1, <2>2, <2>3
  <1>9. Passes(row, "any", instance, n, FilterLabel(p)) <=>
            /\ p \in from /\ Cardinality(from) >= n
            /\ instance # "any" => (instance = "solo" <=> sole)
    BY <1>2, <1>3, <1>4, <1>7, <1>8
  <1> QED
    BY <1>6, <1>9 DEF from, sole

LEMMA FoundEntry ==
    ASSUME IInv, VInv, Listed, NEW p \in DOMAIN remote, NEW g \in Gateways,
           FindsEntry(p, GatewayId(g))
    PROVE  \E h \in Gateways : h.label.publisher = p /\ GatewayId(h) = GatewayId(g)
  <1>1. ViewOf(p) \in Gateways /\ ViewOf(p).label.publisher = p
        /\ ViewOf(p).address = remote[p].address
    BY ListedGateways DEF ViewOf, GatewayView, Label
  <1>2. CASE remote[p].address = NoAddress
    <2>1. GatewayId(g) = [address |-> NoAddress, label |-> [name |-> None, publisher |-> p]]
      BY <1>2 DEF FindsEntry
    <2>2. g.address \in Addresses \cup {NoAddress}
      BY GatewayList DEF IInv, Gateways, GatewaySet
    <2>3. g.address = NoAddress
      BY <2>1, <2>2, ViewAssumption DEF GatewayId, Addressed
    <2>4. GatewayId(g) = [address |-> NoAddress, label |-> g.label]
      BY <2>3 DEF GatewayId
    <2>5. g.label = [name |-> None, publisher |-> p]
      BY <2>1, <2>4
    <2> QED
      BY <2>5
  <1>3. CASE remote[p].address # NoAddress
    <2>1. GatewayId(g) = Addressed(remote[p].address)
      BY <1>3 DEF FindsEntry
    <2>2. GatewayId(ViewOf(p)) = Addressed(remote[p].address)
      BY <1>1, <1>3 DEF GatewayId
    <2> QED
      BY <1>1, <2>1, <2>2
  <1> QED
    BY <1>2, <1>3

(***************************************************************************)
(* The filter by publisher that the drill-down sets shows what that        *)
(* publisher hosts: its name occurs in a row if and only if it hosts one   *)
(* of the row's contracts, and no two publishers have the same.            *)
(***************************************************************************)
THEOREM FilterShowsHosted == Spec => []FilterIsHosted
  <1>1. ASSUME IInv, VInv
        PROVE  FilterIsHosted
    <2> SUFFICES ASSUME Listed, NEW p \in DOMAIN remote
                 PROVE  /\ \A g \in Gateways :
                              FindsEntry(p, GatewayId(g)) =>
                                 \E h \in Gateways : h.label.publisher = p /\ GatewayId(h) = GatewayId(g)
                        /\ \A n \in 1 .. 2, instance \in {"any", "solo", "multi"} :
                              {row \in Rows : Passes(row, "any", instance, n, FilterLabel(p))} =
                              {row \in Rows :
                                  /\ \E k \in row.instances : p \in HostsOf(k)
                                  /\ Cardinality(UNION {HostsOf(k) : k \in row.instances}) >= n
                                  /\ instance # "any" =>
                                        (instance = "solo" <=>
                                            \A k \in row.instances : row.instances = {k})}
      BY DEF FilterIsHosted
    <2>1. \A g \in Gateways :
             FindsEntry(p, GatewayId(g)) =>
                \E h \in Gateways : h.label.publisher = p /\ GatewayId(h) = GatewayId(g)
      BY <1>1, FoundEntry
    <2>2. ASSUME NEW n \in 1 .. 2, NEW instance \in {"any", "solo", "multi"}
          PROVE  {row \in Rows : Passes(row, "any", instance, n, FilterLabel(p))} =
                 {row \in Rows :
                     /\ \E k \in row.instances : p \in HostsOf(k)
                     /\ Cardinality(UNION {HostsOf(k) : k \in row.instances}) >= n
                     /\ instance # "any" =>
                           (instance = "solo" <=> \A k \in row.instances : row.instances = {k})}
      BY <1>1, FilterRow
    <2> QED
      BY <2>1, <2>2
  <1> QED
    BY <1>1, ViewInductive, PTL

-----------------------------------------------------------------------------
(***************************************************************************)
(* The accounts of the list, and its orders.                               *)
(***************************************************************************)
LEMMA LatestIsMax ==
    ASSUME NEW S, NEW x, Latest(x, S), \A m \in S : m \in Nat
    PROVE  Max(S) = x
  <1>1. x \in S /\ \A m \in S : x >= m
    BY DEF Latest
  <1>2. Max(S) \in S /\ \A m \in S : Max(S) >= m
    BY <1>1 DEF Max
  <1>3. Max(S) >= x /\ x >= Max(S) /\ x \in Nat /\ Max(S) \in Nat
    BY <1>1, <1>2
  <1> HIDE DEF Max
  <1> QED
    BY <1>3

LEMMA InOneRow ==
    ASSUME VInv, Listed, NEW k \in ReportedKeys
    PROVE  Cardinality({i \in DOMAIN rows : k \in rows[i].instances}) = 1
  <1>1. k \in Hosted
    <2>1. PICK p \in DOMAIN reported : k \in Keys /\ p \in HostsOf(k)
      BY DEF ReportedKeys, HostsOf
    <2>2. ViewOf(p) \in Gateways /\ k \in ViewOf(p).contracts
      BY <2>1, ListedGateways, ViewIs
    <2> QED
      BY <2>2 DEF Hosted
  <1>2. PICK i \in DOMAIN rows : k \in rows[i].instances
    BY <1>1, ListedRows
  <1>3. {j \in DOMAIN rows : k \in rows[j].instances} = {i}
    BY <1>2, ListedRows
  <1> QED
    BY <1>3, FS_Singleton

LEMMA RowSums ==
    ASSUME VInv, Listed, NEW row \in Rows
    PROVE  LET from == UNION {HostsOf(k) : k \in row.instances}
           IN  /\ row.seenBy = {FilterLabel(p) : p \in from}
               /\ row.seen = Max({reported[p].time : p \in from})
  <1> DEFINE from == UNION {HostsOf(k) : k \in row.instances}
             dates == {reported[p].time : p \in from}
  <1>1. /\ row.seenBy = {FilterLabel(p) : p \in from}
        /\ Latest(row.seen, dates) /\ from \subseteq DOMAIN reported
    BY RowSources
  <1>2. \A m \in dates : m \in Nat
    <2>1. \A p \in from : reported[p].time \in Nat
      BY <1>1, ViewIs
    <2> QED
      BY <2>1
  <1> HIDE DEF dates
  <1>3. row.seen = Max(dates)
    BY <1>1, <1>2, LatestIsMax
  <1> QED
    BY <1>1, <1>3 DEF dates

LEMMA LowerType ==
    ASSUME NEW text \in Text
    PROVE  Lower(text) \in Text
  <1>1. text \in Seq(Byte)
    BY TextIsBytes
  <1>2. Len(text) \in Nat /\ DOMAIN text = 1 .. Len(text) /\ \A i \in DOMAIN text : text[i] \in Byte
    <2> HIDE DEF Byte
    <2> QED
      BY <1>1
  <1>3. \A b \in Byte : (IF b \in 65 .. 90 THEN b + 32 ELSE b) \in Byte
    BY DEF Byte
  <1> DEFINE low == [i \in DOMAIN text |-> IF text[i] \in 65 .. 90 THEN text[i] + 32 ELSE text[i]]
  <1>4. low \in [1 .. Len(text) -> Byte]
    BY <1>2, <1>3
  <1>5. Lower(text) = low
    BY DEF Lower
  <1> HIDE DEF low, Byte
  <1>6. low \in Seq(Byte)
    BY <1>2, <1>4
  <1> QED
    BY <1>5, <1>6, TextIsBytes

LEMMA NameType ==
    ASSUME NEW row, RowIs(row)
    PROVE  Name(row) \in Text /\ KeyOf(row) \in Text /\ Bucket(row) \in 0 .. 2
  <1>1. KeyOf(row) \in Text /\ row.title \in Text
    BY KeyOfIs, RowFields DEF RowIs
  <1>2. Name(row) \in Text
    BY <1>1, LowerType DEF Name
  <1>3. Bucket(row) \in 0 .. 2
    BY DEF Bucket
  <1> QED
    BY <1>1, <1>2, <1>3

LEMMA RankType ==
    ASSUME IInv, VInv, Listed, NEW row \in Rows, NEW axis \in Axes
    PROVE  Rank(axis, row) \in Int
  <1>1. RowIs(row)
    BY ListedRows
  <1>2. Cardinality(row.instances) \in Nat
    BY <1>1, FS_CardinalityType DEF RowIs
  <1>3. Cardinality(row.seenBy) \in Nat
    <2> DEFINE from == UNION {HostsOf(k) : k \in row.instances}
    <2>1. row.seenBy = {FilterLabel(p) : p \in from} /\ from \in SUBSET DOMAIN reported
      BY RowSources
    <2> HIDE DEF from
    <2> QED
      BY <2>1, NamesCount
  <1>4. row.seen \in Nat
    BY <1>1, RowFields DEF RowIs
  <1> QED
    BY <1>2, <1>3, <1>4 DEF Rank

(* Ranks, names and keys, one after the other.                             *)
LEMMA InOneOrder ==
    ASSUME IInv, VInv, Listed, NEW axis \in Axes,
           NEW i \in DOMAIN rows, NEW j \in DOMAIN rows, i # j
    PROVE  Less(axis, rows[i], rows[j]) <=> ~Less(axis, rows[j], rows[i])
  <1> DEFINE a == rows[i]
             b == rows[j]
  <1>1. a \in Rows /\ b \in Rows
    BY DEF Rows
  <1>2. RowIs(a) /\ RowIs(b) /\ a.instances \cap b.instances = {}
    BY <1>1, ListedRows
  <1> HIDE DEF a, b
  <1>3. /\ KeyOf(a) # KeyOf(b) /\ KeyOf(a) \in Text /\ KeyOf(b) \in Text
        /\ Name(a) \in Text /\ Name(b) \in Text /\ Bucket(a) \in 0 .. 2 /\ Bucket(b) \in 0 .. 2
    BY <1>2, KeyOfIs, NameType
  <1>4. TextBefore(KeyOf(a), KeyOf(b)) <=> ~TextBefore(KeyOf(b), KeyOf(a))
    BY <1>3, OneFirst
  <1>5. Name(a) # Name(b) => (TextBefore(Name(a), Name(b)) <=> ~TextBefore(Name(b), Name(a)))
    BY <1>3, OneFirst
  <1>6. Name(a) = Name(b) => ~TextBefore(Name(a), Name(b)) /\ ~TextBefore(Name(b), Name(a))
    BY <1>3, OneFirst
  <1>7. CASE axis = "kind"
    <2>1. Before(a, b) <=> ~Before(b, a)
      BY <1>3, <1>4, <1>5, <1>6 DEF Before
    <2> QED
      BY <1>7, <2>1 DEF Less, a, b
  <1>8. CASE axis # "kind"
    <2>1. Rank(axis, a) \in Int /\ Rank(axis, b) \in Int
      BY <1>1, RankType
    <2>2. Less(axis, a, b) <=> ~Less(axis, b, a)
      BY <1>4, <1>5, <1>8, <2>1 DEF Less
    <2> QED
      BY <2>2 DEF a, b
  <1> QED
    BY <1>7, <1>8

(***************************************************************************)
(* In whatever order the loops take entries and contracts, each contract   *)
(* is in one row, the row counts its publishers and the newest report, and *)
(* every sort puts any two rows in one order.                              *)
(***************************************************************************)
THEOREM NothingLostOrTwice == Spec => []RowsAccount
  <1>1. ASSUME IInv, VInv
        PROVE  RowsAccount
    <2> SUFFICES ASSUME Listed
                 PROVE  RowsAccount
      BY DEF RowsAccount
    <2>1. \A k \in ReportedKeys : Cardinality({i \in DOMAIN rows : k \in rows[i].instances}) = 1
      BY <1>1, InOneRow
    <2>2. ASSUME NEW row \in Rows
          PROVE  LET from == UNION {HostsOf(k) : k \in row.instances}
                 IN  /\ row.seenBy = {FilterLabel(p) : p \in from}
                     /\ row.seen = Max({reported[p].time : p \in from})
      BY <1>1, RowSums
    <2>3. ASSUME NEW i \in DOMAIN rows, NEW j \in DOMAIN rows, NEW axis \in Axes, i < j
          PROVE  Less(axis, rows[i], rows[j]) <=> ~Less(axis, rows[j], rows[i])
      <3>1. i # j
        <4>1. \E n : DOMAIN rows = 1 .. n
          BY <1>1 DEF VInv, ListOk, Listed, Bijection, Injection
        <4> QED
          BY <2>3, <4>1
      <3> QED
        BY <1>1, <3>1, InOneOrder
    <2> QED
      BY <2>1, <2>2, <2>3 DEF RowsAccount
  <1> QED
    BY <1>1, ViewInductive, PTL

-----------------------------------------------------------------------------
(***************************************************************************)
(* One text within another: an order, of which the loop over known nodes   *)
(* keeps what it has.                                                      *)
(***************************************************************************)
Inside(s, t, i) ==
    i \in 1 .. Len(t) - Len(s) + 1 /\ \A k \in 1 .. Len(s) : t[i + k - 1] = s[k]

LEMMA WithinInside ==
    ASSUME NEW s \in Text, NEW t \in Text
    PROVE  Within(s, t) <=> \E i : Inside(s, t, i)
  <1> DEFINE m == Len(s)
             n == Len(t)
             here(i) == SubSeq(t, i, i + m - 1)
  <1>1. /\ m \in Nat /\ n \in Nat
        /\ \A i \in 1 .. m : s[i] \in Byte
        /\ \A i \in 1 .. n : t[i] \in Byte
        /\ s \in Seq(Byte)
    BY TextFields, TextIsBytes
  <1> HIDE DEF m, n, here
  <1>2. ASSUME NEW i \in 1 .. n - m + 1
        PROVE  /\ here(i) \in Seq(Byte) /\ Len(here(i)) = m
               /\ \A k \in 1 .. m : here(i)[k] = t[i + k - 1]
    <2>1. i \in Int /\ i + m - 1 \in Int /\ \A j \in i .. i + m - 1 : j \in 1 .. n
      BY <1>1
    <2>2. \A j \in i .. i + m - 1 : t[j] \in Byte
      BY <1>1, <2>1
    <2>3. /\ here(i) \in Seq(Byte)
          /\ Len(here(i)) = IF i <= i + m - 1 THEN (i + m - 1) - i + 1 ELSE 0
          /\ \A k \in 1 .. (i + m - 1) - i + 1 : here(i)[k] = t[i + k - 1]
      BY <2>1, <2>2, SubSeqProperties DEF here
    <2>4. (i + m - 1) - i + 1 = m /\ (IF i <= i + m - 1 THEN (i + m - 1) - i + 1 ELSE 0) = m
      BY <1>1
    <2> QED
      BY <2>3, <2>4
  <1>3. ASSUME NEW i \in 1 .. n - m + 1
        PROVE  here(i) = s <=> \A k \in 1 .. m : t[i + k - 1] = s[k]
    <2>1. CASE here(i) = s
      BY <1>2, <2>1
    <2>2. CASE \A k \in 1 .. m : t[i + k - 1] = s[k]
      <3>1. \A k \in 1 .. Len(here(i)) : here(i)[k] = s[k]
        BY <1>2, <2>2
      <3>2. here(i) \in Seq(Byte) /\ Len(here(i)) = Len(s)
        BY <1>2 DEF m
      <3> QED
        BY <1>1, <2>2, <3>1, <3>2, SeqEqual
    <2> QED
      BY <2>1, <2>2
  <1> QED
    BY <1>3 DEF Within, Inside, m, n, here

LEMMA WithinSelf ==
    ASSUME NEW s \in Text
    PROVE  Within(s, s)
  <1>1. Len(s) \in Nat
    BY TextFields
  <1>2. Inside(s, s, 1)
    BY <1>1 DEF Inside
  <1> QED
    BY <1>2, WithinInside

LEMMA WithinTransitive ==
    ASSUME NEW s \in Text, NEW t \in Text, NEW v \in Text, Within(s, t), Within(t, v)
    PROVE  Within(s, v)
  <1>1. PICK i : Inside(s, t, i)
    BY WithinInside
  <1>2. PICK j : Inside(t, v, j)
    BY WithinInside
  <1> DEFINE a == Len(s)  b == Len(t)  c == Len(v)
  <1>3. a \in Nat /\ b \in Nat /\ c \in Nat
    BY TextFields
  <1>4. i \in 1 .. b - a + 1 /\ j \in 1 .. c - b + 1
    BY <1>1, <1>2 DEF Inside
  <1>5. \A k \in 1 .. a : t[i + k - 1] = s[k]
    BY <1>1 DEF Inside
  <1>6. \A k \in 1 .. b : v[j + k - 1] = t[k]
    BY <1>2 DEF Inside
  <1> HIDE DEF a, b, c
  <1> DEFINE at == j + i - 1
  <1>7. at \in 1 .. c - a + 1
    BY <1>3, <1>4
  <1>8. ASSUME NEW k \in 1 .. a
        PROVE  v[at + k - 1] = s[k]
    <2>1. i + k - 1 \in 1 .. b /\ j + (i + k - 1) - 1 = at + k - 1
      BY <1>3, <1>4
    <2> QED
      BY <1>5, <1>6, <2>1
  <1> HIDE DEF at
  <1>9. Inside(s, v, at)
    BY <1>7, <1>8 DEF Inside, a, c
  <1> QED
    BY <1>9, WithinInside

-----------------------------------------------------------------------------
(***************************************************************************)
(* What each step of sync does to the labels of the nodes there are.       *)
(***************************************************************************)
Parts(n) == {n.label[i] : i \in DOMAIN n.label}

LEMMA UpsertLabels ==
    ASSUME NEW f, NEW id, NEW old, NEW new
    PROVE  /\ \A i \in DOMAIN f : i # id => Upsert(f, id, old, new)[i] = f[i]
           /\ id \in DOMAIN f => Upsert(f, id, old, new)[id] = old
           /\ id \notin DOMAIN f => Upsert(f, id, old, new)[id] = new
  BY DEF Upsert

LEMMA OwnLabels ==
    ASSUME NEW f \in NodeMaps, NEW g \in GatewaySet, NEW id \in DOMAIN f
    PROVE  SyncOwn(f, g)[id].label =
               IF id = GatewayId(g) /\ ~ShowsGateway(f[id], g.label)
               THEN Append(f[id].label, GatewayPart(g.label)) ELSE f[id].label
  <1> DEFINE n == f[id]
             part == GatewayPart(g.label)
             label == IF ShowsGateway(n, g.label) THEN n.label ELSE Append(n.label, part)
             seen == Max({n.seen, g.seen})
             old == [n EXCEPT !.isGateway = TRUE, !.seen = seen, !.label = label]
             new == [NewNode(part, TRUE) EXCEPT !.seen = g.seen]
  <1>1. n \in NodeRecord
    BY MapFields, NodeFields
  <1>2. old.label = label
    <2> HIDE DEF n, label, seen
    <2> QED
      BY <1>1 DEF NodeRecord
  <1>3. CASE id # GatewayId(g)
    BY <1>3, UpsertLabels DEF SyncOwn
  <1>4. CASE id = GatewayId(g)
    <2>1. SyncOwn(f, g) = Upsert(f, id, old, new)
      BY <1>4 DEF SyncOwn
    <2> HIDE DEF old, new
    <2>2. SyncOwn(f, g)[id] = old
      BY <2>1, UpsertLabels
    <2> QED
      BY <1>2, <1>4, <2>2
  <1> QED
    BY <1>3, <1>4

LEMMA NewOwnLabel ==
    ASSUME NEW f \in NodeMaps, NEW g \in GatewaySet, GatewayId(g) \notin DOMAIN f
    PROVE  SyncOwn(f, g)[GatewayId(g)].label = <<GatewayPart(g.label)>>
  <1> DEFINE id == GatewayId(g)
             n == f[id]
             part == GatewayPart(g.label)
             old == [n EXCEPT !.isGateway = TRUE, !.seen = Max({@, g.seen}),
                              !.label = IF ShowsGateway(n, g.label) THEN @ ELSE Append(@, part)]
             new == [NewNode(part, TRUE) EXCEPT !.seen = g.seen]
  <1>1. SyncOwn(f, g) = Upsert(f, id, old, new)
    BY DEF SyncOwn
  <1>2. new.label = <<part>>
    BY DEF NewNode
  <1> HIDE DEF old, new, id
  <1>3. SyncOwn(f, g)[id] = new
    BY <1>1, UpsertLabels DEF id
  <1> QED
    BY <1>2, <1>3 DEF id

LEMMA PeerLabels ==
    ASSUME NEW f \in NodeMaps, NEW peer \in PeerReport, NEW id \in DOMAIN f
    PROVE  SyncPeer(f, peer)[id].label = f[id].label
  <1> DEFINE n == f[id]
             either == n.isGateway \/ peer.isGateway
             old == [n EXCEPT !.isGateway = either]
             new == NewNode(AddressPart(peer.address), peer.isGateway)
  <1>1. n \in NodeRecord
    BY MapFields, NodeFields
  <1>2. old.label = n.label
    <2> HIDE DEF n, either
    <2> QED
      BY <1>1 DEF NodeRecord
  <1>3. CASE id # Addressed(peer.address)
    BY <1>3, UpsertLabels DEF SyncPeer
  <1>4. CASE id = Addressed(peer.address)
    <2>1. SyncPeer(f, peer) = Upsert(f, id, old, new)
      BY <1>4 DEF SyncPeer
    <2> HIDE DEF old, new
    <2>2. SyncPeer(f, peer)[id] = old
      BY <2>1, UpsertLabels
    <2> QED
      BY <1>2, <2>2
  <1> QED
    BY <1>3, <1>4

LEMMA KnownLabels ==
    ASSUME NEW f \in NodeMaps, NEW kn \in KnownNode, NEW id \in DOMAIN f
    PROVE  SyncKnown(f, kn)[id].label =
               IF id = Addressed(kn.address) /\ ~ShowsName(f[id], kn.name)
               THEN <<KnownPart(kn)>> ELSE f[id].label
  <1> DEFINE n == f[id]
             label == IF ShowsName(n, kn.name) THEN n.label ELSE <<KnownPart(kn)>>
             old == [n EXCEPT !.isGateway = TRUE, !.isPublic = TRUE, !.label = label]
             new == [NewNode(KnownPart(kn), TRUE) EXCEPT !.isPublic = TRUE]
  <1>1. n \in NodeRecord
    BY MapFields, NodeFields
  <1>2. old.label = label
    <2> HIDE DEF n, label
    <2> QED
      BY <1>1 DEF NodeRecord
  <1>3. CASE id # Addressed(kn.address)
    BY <1>3, UpsertLabels DEF SyncKnown
  <1>4. CASE id = Addressed(kn.address)
    <2>1. SyncKnown(f, kn) = Upsert(f, id, old, new)
      BY <1>4 DEF SyncKnown
    <2> HIDE DEF old, new
    <2>2. SyncKnown(f, kn)[id] = old
      BY <2>1, UpsertLabels
    <2> QED
      BY <1>2, <1>4, <2>2
  <1> QED
    BY <1>3, <1>4

LEMMA NewKnownLabel ==
    ASSUME NEW f \in NodeMaps, NEW kn \in KnownNode, Addressed(kn.address) \notin DOMAIN f
    PROVE  SyncKnown(f, kn)[Addressed(kn.address)].label = <<KnownPart(kn)>>
  <1> DEFINE id == Addressed(kn.address)
             n == f[id]
             old == [n EXCEPT !.isGateway = TRUE, !.isPublic = TRUE,
                              !.label = IF ShowsName(n, kn.name) THEN @ ELSE <<KnownPart(kn)>>]
             new == [NewNode(KnownPart(kn), TRUE) EXCEPT !.isPublic = TRUE]
  <1>1. SyncKnown(f, kn) = Upsert(f, id, old, new)
    BY DEF SyncKnown
  <1>2. new.label = <<KnownPart(kn)>>
    BY DEF NewNode
  <1> HIDE DEF old, new, id
  <1>3. SyncKnown(f, kn)[id] = new
    BY <1>1, UpsertLabels DEF id
  <1> QED
    BY <1>2, <1>3 DEF id

-----------------------------------------------------------------------------
(***************************************************************************)
(* The loops of sync, unrolled: the maps of nodes after each round.        *)
(***************************************************************************)
PeerRounds(f, g, u) ==
    /\ u \in [0 .. Len(g.peers) -> NodeMaps] /\ u[0] = SyncOwn(f, g)
    /\ \A i \in 1 .. Len(g.peers) : u[i] = SyncPeer(u[i - 1], g.peers[i])
    /\ SyncGateway(f, g) = u[Len(g.peers)]

GatewayRounds(f, u) ==
    /\ u \in [0 .. Len(gateways) -> NodeMaps] /\ u[0] = f
    /\ \A i \in 1 .. Len(gateways) : u[i] = SyncGateway(u[i - 1], gateways[i])
    /\ SyncGateways(f) = u[Len(gateways)]

KnownRounds(f, u) ==
    /\ u \in [0 .. Len(known) -> NodeMaps] /\ u[0] = f
    /\ \A i \in 1 .. Len(known) : u[i] = SyncKnown(u[i - 1], known[i])
    /\ SyncAllKnown(f) = u[Len(known)]

LEMMA PeersUnroll ==
    ASSUME NEW f \in NodeMaps, NEW g \in GatewaySet
    PROVE  \E u : PeerRounds(f, g, u)
  <1> DEFINE own == SyncOwn(f, g)
             n == Len(g.peers)
             upTo[i \in 0 .. n] == IF i = 0 THEN own ELSE SyncPeer(upTo[i - 1], g.peers[i])
             step == [i \in 1 .. n |-> [h \in NodeMaps |-> SyncPeer(h, g.peers[i])]]
  <1>1. SyncGateway(f, g) = upTo[n]
    BY DEF SyncGateway
  <1>2. n \in Nat /\ DOMAIN g.peers = 1 .. n /\ \A i \in 1 .. n : g.peers[i] \in PeerReport
    BY PeerFields
  <1>3. own \in NodeMaps
    BY OwnStep DEF Grows
  <1> HIDE DEF own, n
  <1>4. Rounds(step, n, NodeMaps)
    BY <1>2, PeerStep DEF Rounds, Grows
  <1>5. PICK u \in [0 .. n -> NodeMaps] : u[0] = own /\ \A i \in 1 .. n : u[i] = step[i][u[i - 1]]
    <2> HIDE DEF step, upTo
    <2> QED
      BY <1>2, <1>3, <1>4, Iterates
  <1>6. \A i \in 1 .. n : u[i] = SyncPeer(u[i - 1], g.peers[i])
    <2> SUFFICES ASSUME NEW i \in 1 .. n
                 PROVE  u[i] = SyncPeer(u[i - 1], g.peers[i])
      OBVIOUS
    <2>1. u[i - 1] \in NodeMaps
      BY <1>2
    <2> QED
      BY <1>5, <2>1
  <1>7. u = [i \in 0 .. n |-> IF i = 0 THEN own ELSE SyncPeer(u[i - 1], g.peers[i])]
    BY <1>2, <1>5, <1>6
  <1>8. upTo = [i \in 0 .. n |-> IF i = 0 THEN own ELSE SyncPeer(upTo[i - 1], g.peers[i])]
    BY <1>7
  <1> HIDE DEF upTo
  <1> DEFINE done == {k \in 0 .. n : upTo[k] = u[k]}
  <1>9. 0 \in done
    BY <1>2, <1>7, <1>8
  <1>10. ASSUME NEW k \in Nat, k < n, k \in done
         PROVE  k + 1 \in done
    BY <1>2, <1>7, <1>8, <1>10
  <1> HIDE DEF done
  <1>11. \A k \in 0 .. n : k \in done
    BY <1>2, <1>9, <1>10, RoundInduction
  <1>12. upTo[n] = u[n]
    BY <1>2, <1>11 DEF done
  <1> QED
    BY <1>1, <1>5, <1>6, <1>12 DEF PeerRounds, own, n

LEMMA GatewaysUnroll ==
    ASSUME InputOk, NEW f \in NodeMaps
    PROVE  \E u : GatewayRounds(f, u)
  <1> DEFINE n == Len(gateways)
             upTo[i \in 0 .. n] == IF i = 0 THEN f ELSE SyncGateway(upTo[i - 1], gateways[i])
             step == [i \in 1 .. n |-> [h \in NodeMaps |-> SyncGateway(h, gateways[i])]]
  <1>1. SyncGateways(f) = upTo[n]
    BY DEF SyncGateways
  <1>2. n \in Nat /\ DOMAIN gateways = 1 .. n /\ \A i \in 1 .. n : gateways[i] \in GatewaySet
    BY GatewayList
  <1> HIDE DEF n
  <1>4. Rounds(step, n, NodeMaps)
    BY <1>2, GatewayStep DEF Rounds, Grows
  <1>5. PICK u \in [0 .. n -> NodeMaps] : u[0] = f /\ \A i \in 1 .. n : u[i] = step[i][u[i - 1]]
    <2> HIDE DEF step, upTo
    <2> QED
      BY <1>2, <1>4, Iterates
  <1>6. \A i \in 1 .. n : u[i] = SyncGateway(u[i - 1], gateways[i])
    <2> SUFFICES ASSUME NEW i \in 1 .. n
                 PROVE  u[i] = SyncGateway(u[i - 1], gateways[i])
      OBVIOUS
    <2>1. u[i - 1] \in NodeMaps
      BY <1>2
    <2> QED
      BY <1>5, <2>1
  <1>7. u = [i \in 0 .. n |-> IF i = 0 THEN f ELSE SyncGateway(u[i - 1], gateways[i])]
    BY <1>2, <1>5, <1>6
  <1>8. upTo = [i \in 0 .. n |-> IF i = 0 THEN f ELSE SyncGateway(upTo[i - 1], gateways[i])]
    BY <1>7
  <1> HIDE DEF upTo
  <1> DEFINE done == {k \in 0 .. n : upTo[k] = u[k]}
  <1>9. 0 \in done
    BY <1>2, <1>7, <1>8
  <1>10. ASSUME NEW k \in Nat, k < n, k \in done
         PROVE  k + 1 \in done
    BY <1>2, <1>7, <1>8, <1>10
  <1> HIDE DEF done
  <1>11. \A k \in 0 .. n : k \in done
    BY <1>2, <1>9, <1>10, RoundInduction
  <1>12. upTo[n] = u[n]
    BY <1>2, <1>11 DEF done
  <1> QED
    BY <1>1, <1>5, <1>6, <1>12 DEF GatewayRounds, n

LEMMA KnownUnroll ==
    ASSUME InputOk, NEW f \in NodeMaps
    PROVE  \E u : KnownRounds(f, u)
  <1> DEFINE n == Len(known)
             upTo[i \in 0 .. n] == IF i = 0 THEN f ELSE SyncKnown(upTo[i - 1], known[i])
             step == [i \in 1 .. n |-> [h \in NodeMaps |-> SyncKnown(h, known[i])]]
  <1>1. SyncAllKnown(f) = upTo[n]
    BY DEF SyncAllKnown
  <1>2. n \in Nat /\ DOMAIN known = 1 .. n /\ \A i \in 1 .. n : known[i] \in KnownNode
    BY KnownList
  <1> HIDE DEF n
  <1>4. Rounds(step, n, NodeMaps)
    BY <1>2, KnownStep DEF Rounds, Grows
  <1>5. PICK u \in [0 .. n -> NodeMaps] : u[0] = f /\ \A i \in 1 .. n : u[i] = step[i][u[i - 1]]
    <2> HIDE DEF step, upTo
    <2> QED
      BY <1>2, <1>4, Iterates
  <1>6. \A i \in 1 .. n : u[i] = SyncKnown(u[i - 1], known[i])
    <2> SUFFICES ASSUME NEW i \in 1 .. n
                 PROVE  u[i] = SyncKnown(u[i - 1], known[i])
      OBVIOUS
    <2>1. u[i - 1] \in NodeMaps
      BY <1>2
    <2> QED
      BY <1>5, <2>1
  <1>7. u = [i \in 0 .. n |-> IF i = 0 THEN f ELSE SyncKnown(u[i - 1], known[i])]
    BY <1>2, <1>5, <1>6
  <1>8. upTo = [i \in 0 .. n |-> IF i = 0 THEN f ELSE SyncKnown(upTo[i - 1], known[i])]
    BY <1>7
  <1> HIDE DEF upTo
  <1> DEFINE done == {k \in 0 .. n : upTo[k] = u[k]}
  <1>9. 0 \in done
    BY <1>2, <1>7, <1>8
  <1>10. ASSUME NEW k \in Nat, k < n, k \in done
         PROVE  k + 1 \in done
    BY <1>2, <1>7, <1>8, <1>10
  <1> HIDE DEF done
  <1>11. \A k \in 0 .. n : k \in done
    BY <1>2, <1>9, <1>10, RoundInduction
  <1>12. upTo[n] = u[n]
    BY <1>2, <1>11 DEF done
  <1> QED
    BY <1>1, <1>5, <1>6, <1>12 DEF KnownRounds, n

-----------------------------------------------------------------------------
(***************************************************************************)
(* What the loop over a gateway's peers does to labels.                    *)
(***************************************************************************)
LEMMA GatewayLabels ==
    ASSUME NEW f \in NodeMaps, NEW g \in GatewaySet
    PROVE  /\ \A id \in DOMAIN f :
                 SyncGateway(f, g)[id].label =
                     IF id = GatewayId(g) /\ ~ShowsGateway(f[id], g.label)
                     THEN Append(f[id].label, GatewayPart(g.label)) ELSE f[id].label
           /\ GatewayId(g) \notin DOMAIN f =>
                 SyncGateway(f, g)[GatewayId(g)].label = <<GatewayPart(g.label)>>
  <1> DEFINE n == Len(g.peers)
             own == SyncOwn(f, g)
  <1>1. PICK u : PeerRounds(f, g, u)
    BY PeersUnroll
  <1>2. /\ n \in Nat /\ \A i \in 1 .. n : g.peers[i] \in PeerReport
    BY PeerFields
  <1>3. /\ u \in [0 .. n -> NodeMaps] /\ u[0] = own
        /\ \A i \in 1 .. n : u[i] = SyncPeer(u[i - 1], g.peers[i])
        /\ SyncGateway(f, g) = u[n]
    BY <1>1 DEF PeerRounds
  <1>4. own \in NodeMaps /\ DOMAIN own = DOMAIN f \cup {GatewayId(g)}
    BY OwnStep DEF Grows
  <1> HIDE DEF n, own
  <1> DEFINE done == {k \in 0 .. n : \A id \in DOMAIN own :
                                        id \in DOMAIN u[k] /\ u[k][id].label = own[id].label}
  <1>5. 0 \in done
    BY <1>2, <1>3
  <1>6. ASSUME NEW k \in Nat, k < n, k \in done
        PROVE  k + 1 \in done
    <2>1. /\ k + 1 \in 1 .. n /\ u[k] \in NodeMaps /\ g.peers[k + 1] \in PeerReport
          /\ u[k + 1] = SyncPeer(u[k], g.peers[k + 1])
      <3>1. k + 1 \in 1 .. n /\ (k + 1) - 1 = k /\ k \in 0 .. n
        BY <1>2, <1>6
      <3> QED
        BY <1>2, <1>3, <3>1
    <2>2. ASSUME NEW id \in DOMAIN own
          PROVE  id \in DOMAIN u[k + 1] /\ u[k + 1][id].label = own[id].label
      <3>1. id \in DOMAIN u[k] /\ u[k][id].label = own[id].label
        BY <1>6
      <3>2. SyncPeer(u[k], g.peers[k + 1])[id].label = u[k][id].label
        BY <2>1, <3>1, PeerLabels
      <3>3. DOMAIN u[k] \subseteq DOMAIN u[k + 1]
        BY <2>1, PeerStep
      <3> QED
        BY <2>1, <3>1, <3>2, <3>3
    <2> QED
      BY <1>2, <2>1, <2>2
  <1> HIDE DEF done
  <1>7. \A k \in 0 .. n : k \in done
    BY <1>2, <1>5, <1>6, RoundInduction
  <1>8. \A id \in DOMAIN own : SyncGateway(f, g)[id].label = own[id].label
    BY <1>2, <1>3, <1>7 DEF done
  <1> QED
    BY <1>4, <1>8, OwnLabels, NewOwnLabel DEF own

LEMMA GatewayParts ==
    ASSUME NEW f \in NodeMaps, NEW g \in GatewaySet
    PROVE  /\ \A id \in DOMAIN f : Parts(f[id]) \subseteq Parts(SyncGateway(f, g)[id])
           /\ GatewayPart(g.label) \in Parts(SyncGateway(f, g)[GatewayId(g)])
  <1> DEFINE h == SyncGateway(f, g)
             part == GatewayPart(g.label)
  <1>1. part \in PartSet
    BY GatewayFields, GatewayPartType
  <1>2. ASSUME NEW label \in Labels
        PROVE  {label[i] : i \in DOMAIN label} \cup {part}
                   = {Append(label, part)[i] : i \in DOMAIN Append(label, part)}
    <2>1. label \in Seq(PartSet)
      BY DEF Labels
    <2> HIDE DEF part, PartSet
    <2>2. /\ Append(label, part) \in Seq(PartSet) /\ Len(Append(label, part)) = Len(label) + 1
          /\ \A i \in 1 .. Len(label) : Append(label, part)[i] = label[i]
          /\ Append(label, part)[Len(label) + 1] = part
      BY <1>1, <2>1, AppendProperties
    <2>3. /\ Len(label) \in Nat /\ DOMAIN label = 1 .. Len(label)
          /\ DOMAIN Append(label, part) = 1 .. Len(label) + 1
      BY <2>1, <2>2, LenProperties
    <2> DEFINE longer == Append(label, part)
    <2> HIDE DEF longer
    <2>4. \A i \in 1 .. Len(label) + 1 : i \in 1 .. Len(label) \/ i = Len(label) + 1
      BY <2>3
    <2> QED
      BY <2>2, <2>3, <2>4 DEF longer
  <1>3. ASSUME NEW id \in DOMAIN f
        PROVE  /\ Parts(f[id]) \subseteq Parts(h[id])
               /\ id = GatewayId(g) => part \in Parts(h[id])
    <2>1. f[id].label \in Labels
      BY MapFields, NodeFields
    <2>2. h[id].label = IF id = GatewayId(g) /\ ~ShowsGateway(f[id], g.label)
                        THEN Append(f[id].label, part) ELSE f[id].label
      BY GatewayLabels
    <2>3. ShowsGateway(f[id], g.label) <=> part \in Parts(f[id])
      BY DEF ShowsGateway, Parts
    <2> HIDE DEF part, h
    <2>4. CASE id = GatewayId(g) /\ ~ShowsGateway(f[id], g.label)
      <3>1. h[id].label = Append(f[id].label, part)
        BY <2>2, <2>4
      <3>2. Parts(h[id]) = Parts(f[id]) \cup {part}
        BY <1>2, <2>1, <3>1 DEF Parts
      <3> QED
        BY <3>2
    <2>5. CASE ~(id = GatewayId(g) /\ ~ShowsGateway(f[id], g.label))
      <3>1. h[id].label = f[id].label
        BY <2>2, <2>5
      <3> QED
        BY <2>3, <2>5, <3>1 DEF Parts
    <2> QED
      BY <2>4, <2>5
  <1>4. ASSUME GatewayId(g) \notin DOMAIN f
        PROVE  part \in Parts(h[GatewayId(g)])
    <2>1. h[GatewayId(g)].label = <<part>>
      BY <1>4, GatewayLabels
    <2> QED
      BY <2>1 DEF Parts
  <1> QED
    BY <1>3, <1>4

(* After the loop over gateways every label shows its gateways' names; none *)
(* has lost a part, and one that showed them all before is as it was.      *)
LEMMA GatewaysLabels ==
    ASSUME InputOk, NEW f \in NodeMaps
    PROVE  /\ \A id \in DOMAIN f : Parts(f[id]) \subseteq Parts(SyncGateways(f)[id])
           /\ \A g \in Gateways : ShowsGateway(SyncGateways(f)[GatewayId(g)], g.label)
           /\ \A id \in DOMAIN f :
                 (\A g \in Gateways : GatewayId(g) = id => ShowsGateway(f[id], g.label))
                     => SyncGateways(f)[id].label = f[id].label
  <1> DEFINE n == Len(gateways)
  <1>1. PICK u : GatewayRounds(f, u)
    BY GatewaysUnroll
  <1>2. n \in Nat /\ DOMAIN gateways = 1 .. n /\ \A i \in 1 .. n : gateways[i] \in GatewaySet
    BY GatewayList
  <1>3. /\ u \in [0 .. n -> NodeMaps] /\ u[0] = f
        /\ \A i \in 1 .. n : u[i] = SyncGateway(u[i - 1], gateways[i])
        /\ SyncGateways(f) = u[n]
    BY <1>1 DEF GatewayRounds
  <1> HIDE DEF n
  <1> DEFINE part(j) == GatewayPart(gateways[j].label)
             full(id) == \A g \in Gateways : GatewayId(g) = id => ShowsGateway(f[id], g.label)
             keeps(k) == \A id \in DOMAIN f : id \in DOMAIN u[k] /\ Parts(f[id]) \subseteq Parts(u[k][id])
             shows(k) == \A j \in 1 .. k : /\ GatewayId(gateways[j]) \in DOMAIN u[k]
                                           /\ part(j) \in Parts(u[k][GatewayId(gateways[j])])
             same(k) == \A id \in DOMAIN f : full(id) => u[k][id].label = f[id].label
             done == {k \in 0 .. n : keeps(k) /\ shows(k) /\ same(k)}
  <1>4. 0 \in done
    <2>1. keeps(0) /\ shows(0) /\ same(0)
      BY <1>3
    <2> HIDE DEF keeps, shows, same
    <2> QED
      BY <1>2, <2>1
  <1>5. ASSUME NEW k \in Nat, k < n, k \in done
        PROVE  k + 1 \in done
    <2> DEFINE now == u[k]  next == u[k + 1]  g == gateways[k + 1]
    <2>1. /\ k + 1 \in 1 .. n /\ k + 1 \in 0 .. n /\ now \in NodeMaps /\ g \in GatewaySet
          /\ next = SyncGateway(now, g) /\ g \in Gateways
      <3>1. k + 1 \in 1 .. n /\ (k + 1) - 1 = k /\ k \in 0 .. n
        BY <1>2, <1>5
      <3> QED
        BY <1>2, <1>3, <3>1 DEF Gateways
    <2>2. keeps(k) /\ shows(k) /\ same(k)
      BY <1>5
    <2>3. /\ \A id \in DOMAIN now : Parts(now[id]) \subseteq Parts(next[id])
          /\ part(k + 1) \in Parts(next[GatewayId(g)])
      BY <2>1, GatewayParts
    <2>4. DOMAIN next = DOMAIN now \cup Reports(g)
      BY <2>1, GatewayStep
    <2>5. keeps(k + 1)
      BY <2>2, <2>3, <2>4
    <2>6. shows(k + 1)
      <3> SUFFICES ASSUME NEW j \in 1 .. k + 1
                   PROVE  /\ GatewayId(gateways[j]) \in DOMAIN next
                          /\ part(j) \in Parts(next[GatewayId(gateways[j])])
        OBVIOUS
      <3>1. CASE j = k + 1
        BY <2>3, <2>4, <3>1 DEF Reports
      <3>2. CASE j # k + 1
        <4>1. j \in 1 .. k
          BY <3>2
        <4> QED
          BY <2>2, <2>3, <2>4, <4>1
      <3> QED
        BY <3>1, <3>2
    <2>7. same(k + 1)
      <3> SUFFICES ASSUME NEW id \in DOMAIN f, full(id)
                   PROVE  next[id].label = f[id].label
        OBVIOUS
      <3>1. id \in DOMAIN now /\ now[id].label = f[id].label
        BY <2>2
      <3>2. next[id].label = IF id = GatewayId(g) /\ ~ShowsGateway(now[id], g.label)
                             THEN Append(now[id].label, GatewayPart(g.label)) ELSE now[id].label
        BY <2>1, <3>1, GatewayLabels
      <3>3. id = GatewayId(g) => ShowsGateway(f[id], g.label)
        BY <2>1
      <3>4. id = GatewayId(g) => ShowsGateway(now[id], g.label)
        BY <3>1, <3>3 DEF ShowsGateway
      <3> QED
        BY <3>1, <3>2, <3>4
    <2> HIDE DEF keeps, shows, same
    <2> QED
      BY <2>1, <2>5, <2>6, <2>7
  <1> HIDE DEF done
  <1>6. \A k \in 0 .. n : k \in done
    BY <1>2, <1>4, <1>5, RoundInduction
  <1>7. keeps(n) /\ shows(n) /\ same(n)
    <2> HIDE DEF keeps, shows, same
    <2> QED
      BY <1>2, <1>6 DEF done
  <1>8. ASSUME NEW g \in Gateways
        PROVE  ShowsGateway(SyncGateways(f)[GatewayId(g)], g.label)
    <2>1. PICK j \in 1 .. n : g = gateways[j]
      BY <1>2 DEF Gateways
    <2>2. GatewayPart(g.label) \in Parts(u[n][GatewayId(g)])
      BY <1>7, <2>1
    <2> QED
      BY <1>3, <2>2 DEF ShowsGateway, Parts
  <1> QED
    BY <1>3, <1>7, <1>8

(* What the loop makes of a label depends on that label only.              *)
LEMMA GatewaysSame ==
    ASSUME InputOk, NEW f \in NodeMaps, NEW h \in NodeMaps, NEW id \in DOMAIN f \cap DOMAIN h,
           f[id].label = h[id].label
    PROVE  SyncGateways(f)[id].label = SyncGateways(h)[id].label
  <1> DEFINE n == Len(gateways)
  <1>1. PICK u : GatewayRounds(f, u)
    BY GatewaysUnroll
  <1>2. PICK v : GatewayRounds(h, v)
    BY GatewaysUnroll
  <1>3. n \in Nat /\ \A i \in 1 .. n : gateways[i] \in GatewaySet
    BY GatewayList
  <1>4. /\ u \in [0 .. n -> NodeMaps] /\ u[0] = f /\ SyncGateways(f) = u[n]
        /\ v \in [0 .. n -> NodeMaps] /\ v[0] = h /\ SyncGateways(h) = v[n]
        /\ \A i \in 1 .. n : /\ u[i] = SyncGateway(u[i - 1], gateways[i])
                             /\ v[i] = SyncGateway(v[i - 1], gateways[i])
    BY <1>1, <1>2 DEF GatewayRounds
  <1> HIDE DEF n
  <1> DEFINE done == {k \in 0 .. n : /\ id \in DOMAIN u[k] /\ id \in DOMAIN v[k]
                                     /\ u[k][id].label = v[k][id].label}
  <1>5. 0 \in done
    BY <1>3, <1>4
  <1>6. ASSUME NEW k \in Nat, k < n, k \in done
        PROVE  k + 1 \in done
    <2> DEFINE g == gateways[k + 1]
    <2>1. /\ k + 1 \in 0 .. n /\ u[k] \in NodeMaps /\ v[k] \in NodeMaps /\ g \in GatewaySet
          /\ u[k + 1] = SyncGateway(u[k], g) /\ v[k + 1] = SyncGateway(v[k], g)
      <3>1. k + 1 \in 1 .. n /\ (k + 1) - 1 = k /\ k \in 0 .. n
        BY <1>3, <1>6
      <3> QED
        BY <1>3, <1>4, <3>1
    <2>2. id \in DOMAIN u[k] /\ id \in DOMAIN v[k] /\ u[k][id].label = v[k][id].label
      BY <1>6
    <2>3. id \in DOMAIN u[k + 1] /\ id \in DOMAIN v[k + 1]
      <3> HIDE DEF g, done
      <3>1. Grows(u[k], SyncGateway(u[k], g)) /\ Grows(v[k], SyncGateway(v[k], g))
        BY <2>1, GatewayStep
      <3> QED
        BY <2>1, <2>2, <3>1 DEF Grows
    <2>4. ShowsGateway(u[k][id], g.label) <=> ShowsGateway(v[k][id], g.label)
      BY <2>2 DEF ShowsGateway
    <2> HIDE DEF g
    <2>5. u[k + 1][id].label = v[k + 1][id].label
      BY <2>1, <2>2, <2>4, GatewayLabels
    <2> QED
      BY <2>1, <2>3, <2>5
  <1> HIDE DEF done
  <1>7. \A k \in 0 .. n : k \in done
    BY <1>3, <1>5, <1>6, RoundInduction
  <1> QED
    BY <1>3, <1>4, <1>7 DEF done

LEMMA KnownSame ==
    ASSUME InputOk, NEW f \in NodeMaps, NEW h \in NodeMaps, NEW id \in DOMAIN f \cap DOMAIN h,
           f[id].label = h[id].label
    PROVE  SyncAllKnown(f)[id].label = SyncAllKnown(h)[id].label
  <1> DEFINE n == Len(known)
  <1>1. PICK u : KnownRounds(f, u)
    BY KnownUnroll
  <1>2. PICK v : KnownRounds(h, v)
    BY KnownUnroll
  <1>3. n \in Nat /\ \A i \in 1 .. n : known[i] \in KnownNode
    BY KnownList
  <1>4. /\ u \in [0 .. n -> NodeMaps] /\ u[0] = f /\ SyncAllKnown(f) = u[n]
        /\ v \in [0 .. n -> NodeMaps] /\ v[0] = h /\ SyncAllKnown(h) = v[n]
        /\ \A i \in 1 .. n : /\ u[i] = SyncKnown(u[i - 1], known[i])
                             /\ v[i] = SyncKnown(v[i - 1], known[i])
    BY <1>1, <1>2 DEF KnownRounds
  <1> HIDE DEF n
  <1> DEFINE done == {k \in 0 .. n : /\ id \in DOMAIN u[k] /\ id \in DOMAIN v[k]
                                     /\ u[k][id].label = v[k][id].label}
  <1>5. 0 \in done
    BY <1>3, <1>4
  <1>6. ASSUME NEW k \in Nat, k < n, k \in done
        PROVE  k + 1 \in done
    <2> DEFINE kn == known[k + 1]
    <2>1. /\ k + 1 \in 0 .. n /\ u[k] \in NodeMaps /\ v[k] \in NodeMaps /\ kn \in KnownNode
          /\ u[k + 1] = SyncKnown(u[k], kn) /\ v[k + 1] = SyncKnown(v[k], kn)
      <3>1. k + 1 \in 1 .. n /\ (k + 1) - 1 = k /\ k \in 0 .. n
        BY <1>3, <1>6
      <3> QED
        BY <1>3, <1>4, <3>1
    <2>2. id \in DOMAIN u[k] /\ id \in DOMAIN v[k] /\ u[k][id].label = v[k][id].label
      BY <1>6
    <2>3. id \in DOMAIN u[k + 1] /\ id \in DOMAIN v[k + 1]
      <3> HIDE DEF kn, done
      <3>1. DOMAIN SyncKnown(u[k], kn) = DOMAIN u[k] \cup {Addressed(kn.address)}
        BY <2>1, KnownStep
      <3>2. DOMAIN SyncKnown(v[k], kn) = DOMAIN v[k] \cup {Addressed(kn.address)}
        BY <2>1, KnownStep
      <3> QED
        BY <2>1, <2>2, <3>1, <3>2
    <2>4. ShowsName(u[k][id], kn.name) <=> ShowsName(v[k][id], kn.name)
      BY <2>2 DEF ShowsName
    <2> HIDE DEF kn
    <2>5. /\ SyncKnown(u[k], kn)[id].label =
                 IF id = Addressed(kn.address) /\ ~ShowsName(u[k][id], kn.name)
                 THEN <<KnownPart(kn)>> ELSE u[k][id].label
          /\ SyncKnown(v[k], kn)[id].label =
                 IF id = Addressed(kn.address) /\ ~ShowsName(v[k][id], kn.name)
                 THEN <<KnownPart(kn)>> ELSE v[k][id].label
      BY <2>1, <2>2, KnownLabels
    <2>6. u[k + 1][id].label = v[k + 1][id].label
      BY <2>1, <2>2, <2>4, <2>5
    <2> QED
      BY <2>1, <2>3, <2>6
  <1> HIDE DEF done
  <1>7. \A k \in 0 .. n : k \in done
    BY <1>3, <1>5, <1>6, RoundInduction
  <1> QED
    BY <1>3, <1>4, <1>7 DEF done

-----------------------------------------------------------------------------
(***************************************************************************)
(* The loop over known nodes, as one node sees it.  It goes by the names   *)
(* known for its address: one that its label does not show replaces the    *)
(* label.  The first known name that shows all that come after it is the   *)
(* one any replaced label ends with.                                       *)
(***************************************************************************)
Own(id) == {i \in DOMAIN known : Addressed(known[i].address) = id}

Absorbs(j, id) ==
    /\ j \in Own(id)
    /\ \A k \in Own(id) : k > j => Within(known[k].name, known[j].name)

IsLast(j, id) == Absorbs(j, id) /\ \A i \in Own(id) : Absorbs(i, id) => j <= i

LEMMA OwnFields ==
    ASSUME InputOk, NEW id, NEW i \in Own(id)
    PROVE  /\ i \in 1 .. Len(known) /\ known[i] \in KnownNode /\ known[i].name \in Text
           /\ Addressed(known[i].address) = id
  <1>1. i \in 1 .. Len(known) /\ known[i] \in KnownNode /\ Addressed(known[i].address) = id
    BY KnownList DEF Own
  <1> QED
    BY <1>1 DEF KnownNode

LEMMA LastExists ==
    ASSUME InputOk, NEW id, Own(id) # {}
    PROVE  \E j : IsLast(j, id)
  <1> DEFINE S == {j \in Own(id) : Absorbs(j, id)}
             n == Len(known)
  <1>1. n \in Nat /\ Own(id) \in SUBSET (1 .. n)
    BY KnownList DEF Own
  <1>2. Max(Own(id)) \in Own(id) /\ \A k \in Own(id) : Max(Own(id)) >= k
    <2> HIDE DEF n
    <2> QED
      BY <1>1, MaxOfPositions
  <1> DEFINE m == Max(Own(id))
  <1>3. m \in S
    <2>1. \A k \in Own(id) : ~(k > m)
      BY <1>1, <1>2
    <2> QED
      BY <1>2, <2>1 DEF Absorbs
  <1>4. S \in SUBSET Nat
    BY <1>1
  <1> HIDE DEF m
  <1>5. PICK j \in S : \A k \in S : j <= k
    <2> HIDE DEF S
    <2> QED
      BY <1>3, <1>4, LeastNatural
  <1>6. IsLast(j, id)
    BY <1>5 DEF IsLast
  <1> QED
    BY <1>6

LEMMA ShowsCovered ==
    ASSUME NEW n \in NodeSet, NEW a \in Text, NEW b \in Text, ShowsName(n, b), Within(a, b)
    PROVE  ShowsName(n, a)
  <1>1. PICK i \in DOMAIN n.label : Within(b, n.label[i].name)
    BY DEF ShowsName
  <1>2. n.label \in Seq(PartSet)
    BY NodeFields DEF Labels
  <1>3. n.label[i] \in PartSet
    <2> HIDE DEF PartSet
    <2> QED
      BY <1>2
  <1>4. n.label[i].name \in Text
    BY <1>3 DEF PartSet
  <1>5. Within(a, n.label[i].name)
    BY <1>1, <1>4, WithinTransitive
  <1> QED
    BY <1>5 DEF ShowsName

LEMMA ShowsKnown ==
    ASSUME NEW n, NEW kn, n.label = <<KnownPart(kn)>>, NEW name
    PROVE  ShowsName(n, name) <=> Within(name, kn.name)
  <1>1. DOMAIN n.label = {1} /\ n.label[1].name = kn.name
    BY DEF KnownPart, Part
  <1> QED
    BY <1>1 DEF ShowsName

LEMMA KnownSettles ==
    ASSUME InputOk, NEW f \in NodeMaps, NEW id \in DOMAIN SyncAllKnown(f)
    PROVE  \/ /\ id \in DOMAIN f /\ SyncAllKnown(f)[id].label = f[id].label
              /\ \A i \in Own(id) : ShowsName(f[id], known[i].name)
           \/ \E j : IsLast(j, id) /\ SyncAllKnown(f)[id].label = <<KnownPart(known[j])>>
  <1> DEFINE n == Len(known)
  <1>1. PICK u : KnownRounds(f, u)
    BY KnownUnroll
  <1>2. n \in Nat /\ DOMAIN known = 1 .. n /\ \A i \in 1 .. n : known[i] \in KnownNode
    BY KnownList
  <1>3. /\ u \in [0 .. n -> NodeMaps] /\ u[0] = f
        /\ \A i \in 1 .. n : u[i] = SyncKnown(u[i - 1], known[i])
        /\ SyncAllKnown(f) = u[n]
    BY <1>1 DEF KnownRounds
  <1>4. \A i \in Own(id) : i \in 1 .. n
    BY OwnFields
  <1> HIDE DEF n
  <1> DEFINE fresh(k) == id \notin DOMAIN u[k] /\ \A i \in Own(id) : i > k
             kept(k) == /\ id \in DOMAIN f /\ id \in DOMAIN u[k] /\ u[k][id].label = f[id].label
                        /\ \A i \in Own(id) : i <= k => ShowsName(f[id], known[i].name)
             only(a, k) ==
                 /\ id \in DOMAIN u[k] /\ u[k][id].label = <<KnownPart(known[a])>>
                 /\ a \in Own(id) /\ a <= k
                 /\ \A i \in Own(id) : a < i /\ i <= k => Within(known[i].name, known[a].name)
                 /\ \A j \in Own(id) : IsLast(j, id) /\ j <= k => a = j
             done == {k \in 0 .. n : fresh(k) \/ kept(k) \/ \E a \in Own(id) : only(a, k)}
  <1>5. 0 \in done
    <2>1. \A i \in Own(id) : i > 0 /\ ~(i <= 0)
      BY <1>2, <1>4
    <2>2. fresh(0) \/ kept(0)
      BY <1>3, <2>1
    <2> HIDE DEF fresh, kept, only
    <2> QED
      BY <1>2, <2>2
  <1>6. ASSUME NEW k \in Nat, k < n, k \in done
        PROVE  k + 1 \in done
    <2> DEFINE now == u[k]  next == u[k + 1]  kn == known[k + 1]
    <2>1. /\ k + 1 \in 1 .. n /\ k + 1 \in 0 .. n /\ now \in NodeMaps /\ next \in NodeMaps
          /\ kn \in KnownNode /\ next = SyncKnown(now, kn)
      <3>1. k + 1 \in 1 .. n /\ (k + 1) - 1 = k /\ k \in 0 .. n
        BY <1>2, <1>6
      <3> QED
        BY <1>2, <1>3, <3>1
    <2>2. DOMAIN next = DOMAIN now \cup {Addressed(kn.address)}
      BY <2>1, KnownStep
    <2>3. k + 1 \in Own(id) <=> id = Addressed(kn.address)
      BY <1>2, <2>1 DEF Own
    <2>4. id \in DOMAIN now => next[id].label =
              IF id = Addressed(kn.address) /\ ~ShowsName(now[id], kn.name)
              THEN <<KnownPart(kn)>> ELSE now[id].label
      BY <2>1, KnownLabels
    <2>5. id \notin DOMAIN now /\ id = Addressed(kn.address) => next[id].label = <<KnownPart(kn)>>
      <3> HIDE DEF now, next, kn, done
      <3> QED
        BY <2>1, NewKnownLabel
    <2>6. \A i \in Own(id) : i \in Nat /\ (i <= k + 1 <=> i <= k \/ i = k + 1)
                            /\ (i > k + 1 <=> i > k /\ i # k + 1)
      BY <1>2, <1>4
    <2>7. kn.name \in Text /\ \A i \in Own(id) : known[i].name \in Text
      BY <2>1, OwnFields DEF KnownNode
    <2>8. id \in DOMAIN now => now[id] \in NodeSet
      BY <2>1, MapFields
    <2>9. ASSUME k + 1 \notin Own(id)
          PROVE  k + 1 \in done
      <3>1. id # Addressed(kn.address) /\ (id \in DOMAIN now => next[id].label = now[id].label)
        BY <2>3, <2>4, <2>9
      <3>2. fresh(k) => fresh(k + 1)
        BY <2>2, <2>6, <2>9, <3>1
      <3>3. kept(k) => kept(k + 1)
        BY <2>2, <2>6, <2>9, <3>1
      <3>4. \A a \in Own(id) : only(a, k) => only(a, k + 1)
        BY <2>2, <2>6, <2>9, <3>1
      <3> HIDE DEF fresh, kept, only
      <3> QED
        BY <1>6, <2>1, <3>2, <3>3, <3>4
    (* The name of this round replaces the label.                            *)
    <2>10. ASSUME k + 1 \in Own(id), id \in DOMAIN next, next[id].label = <<KnownPart(kn)>>,
                  \A j \in Own(id) : IsLast(j, id) => ~(j <= k)
           PROVE  k + 1 \in done
      <3>1. only(k + 1, k + 1)
        BY <2>6, <2>10
      <3> HIDE DEF fresh, kept, only
      <3> QED
        BY <2>1, <2>10, <3>1
    <2>11. ASSUME k + 1 \in Own(id), fresh(k)
           PROVE  k + 1 \in done
      <3>1. id \in DOMAIN next /\ next[id].label = <<KnownPart(kn)>>
        BY <2>2, <2>3, <2>5, <2>11
      <3>2. \A j \in Own(id) : ~(j <= k)
        BY <2>6, <2>11
      <3> HIDE DEF done, fresh, next, kn
      <3> QED
        BY <2>10, <2>11, <3>1, <3>2
    <2>12. ASSUME k + 1 \in Own(id), kept(k)
           PROVE  k + 1 \in done
      <3>1. id \in DOMAIN next /\ id = Addressed(kn.address) /\ id \in DOMAIN now
        BY <2>2, <2>3, <2>12
      <3>2. ShowsName(f[id], kn.name) <=> ShowsName(now[id], kn.name)
        BY <2>12 DEF ShowsName
      <3>3. CASE ShowsName(now[id], kn.name)
        <4>1. kept(k + 1)
          BY <2>4, <2>6, <2>12, <3>1, <3>2, <3>3
        <4> HIDE DEF fresh, kept, only
        <4> QED
          BY <2>1, <4>1
      <3>4. CASE ~ShowsName(now[id], kn.name)
        <4>1. next[id].label = <<KnownPart(kn)>>
          BY <2>4, <3>1, <3>4
        <4>2. ASSUME NEW j \in Own(id), IsLast(j, id), j <= k
              PROVE  FALSE
          <5>1. ShowsName(now[id], known[j].name)
            BY <2>12, <4>2 DEF ShowsName
          <5>2. Within(kn.name, known[j].name)
            <6>1. k + 1 > j
              BY <2>6, <4>2
            <6> QED
              BY <2>12, <4>2, <6>1 DEF IsLast, Absorbs
          <5>3. ShowsName(now[id], kn.name)
            BY <2>7, <2>8, <3>1, <5>1, <5>2, ShowsCovered
          <5> QED
            BY <3>4, <5>3
        <4> HIDE DEF done, fresh, kept, next, kn
        <4> QED
          BY <2>10, <2>12, <3>1, <4>1, <4>2
      <3> QED
        BY <3>3, <3>4
    <2>13. ASSUME k + 1 \in Own(id), NEW a \in Own(id), only(a, k)
           PROVE  k + 1 \in done
      <3>1. id \in DOMAIN next /\ id = Addressed(kn.address) /\ id \in DOMAIN now
        BY <2>2, <2>3, <2>13
      <3>2. ShowsName(now[id], kn.name) <=> Within(kn.name, known[a].name)
        BY <2>13, ShowsKnown
      <3>3. CASE Within(kn.name, known[a].name)
        <4>1. next[id].label = <<KnownPart(known[a])>>
          BY <2>4, <2>13, <3>1, <3>2, <3>3
        <4>2. a \in Nat /\ a <= k /\ a <= k + 1
          BY <2>6, <2>13
        <4>3. \A i \in Own(id) : a < i /\ i <= k + 1 => Within(known[i].name, known[a].name)
          BY <2>6, <2>13, <3>3
        <4>4. ASSUME NEW j \in Own(id), IsLast(j, id), j <= k + 1
              PROVE  a = j
          <5>1. CASE j <= k
            BY <2>13, <4>4, <5>1
          <5>2. CASE j = k + 1
            <6>1. ASSUME NEW i \in Own(id), i > a
                  PROVE  Within(known[i].name, known[a].name)
              <7>1. CASE i <= k + 1
                BY <4>2, <4>3, <6>1, <7>1, <2>6
              <7>2. CASE ~(i <= k + 1)
                <8>1. i > j
                  BY <2>6, <5>2, <7>2
                <8>2. Within(known[i].name, known[j].name)
                  BY <4>4, <6>1, <8>1 DEF IsLast, Absorbs
                <8>3. Within(known[j].name, known[a].name)
                  BY <3>3, <5>2
                <8> QED
                  BY <2>7, <8>2, <8>3, WithinTransitive
              <7> QED
                BY <7>1, <7>2
            <6>2. Absorbs(a, id)
              BY <6>1 DEF Absorbs
            <6>3. j <= a
              BY <4>4, <6>2 DEF IsLast
            <6> QED
              BY <4>2, <5>2, <6>3
          <5> QED
            BY <2>6, <4>4, <5>1, <5>2
        <4>5. only(a, k + 1)
          BY <2>13, <3>1, <4>1, <4>2, <4>3, <4>4
        <4> HIDE DEF fresh, kept, only
        <4> QED
          BY <2>1, <4>5
      <3>4. CASE ~Within(kn.name, known[a].name)
        <4>1. next[id].label = <<KnownPart(kn)>>
          BY <2>4, <3>1, <3>2, <3>4
        <4>2. ASSUME NEW j \in Own(id), IsLast(j, id), j <= k
              PROVE  FALSE
          <5>1. a = j
            BY <2>13, <4>2
          <5>2. k + 1 > j
            BY <2>6, <4>2
          <5>3. Within(kn.name, known[j].name)
            BY <2>13, <4>2, <5>2 DEF IsLast, Absorbs
          <5> QED
            BY <3>4, <5>1, <5>3
        <4> HIDE DEF done, only, next, kn
        <4> QED
          BY <2>10, <2>13, <3>1, <4>1, <4>2
      <3> QED
        BY <3>3, <3>4
    <2>14. fresh(k) \/ kept(k) \/ \E a \in Own(id) : only(a, k)
      BY <1>6
    <2> HIDE DEF done, fresh, kept, only
    <2> QED
      BY <2>9, <2>11, <2>12, <2>13, <2>14
  <1> HIDE DEF done
  <1>7. \A k \in 0 .. n : k \in done
    BY <1>2, <1>5, <1>6, RoundInduction
  <1>8. fresh(n) \/ kept(n) \/ \E a \in Own(id) : only(a, n)
    <2> HIDE DEF fresh, kept, only
    <2> QED
      BY <1>2, <1>7 DEF done
  <1>9. ~fresh(n)
    BY <1>3
  <1>10. kept(n) => /\ id \in DOMAIN f /\ SyncAllKnown(f)[id].label = f[id].label
                    /\ \A i \in Own(id) : ShowsName(f[id], known[i].name)
    BY <1>2, <1>3, <1>4
  <1>11. ASSUME NEW a \in Own(id), only(a, n)
         PROVE  \E j : IsLast(j, id) /\ SyncAllKnown(f)[id].label = <<KnownPart(known[j])>>
    <2>1. PICK j : IsLast(j, id)
      BY LastExists
    <2>2. j \in Own(id) /\ j <= n
      BY <1>2, <1>4, <2>1 DEF IsLast, Absorbs
    <2>3. a = j
      BY <1>11, <2>1, <2>2
    <2> QED
      BY <1>3, <1>11, <2>1, <2>3
  <1> HIDE DEF fresh, kept, only
  <1> QED
    BY <1>8, <1>9, <1>10, <1>11

(* A label that shows every known name is left alone.                      *)
LEMMA KnownFull ==
    ASSUME InputOk, NEW f \in NodeMaps, NEW id \in DOMAIN f,
           \A i \in Own(id) : ShowsName(f[id], known[i].name)
    PROVE  SyncAllKnown(f)[id].label = f[id].label
  <1> DEFINE n == Len(known)
  <1>1. PICK u : KnownRounds(f, u)
    BY KnownUnroll
  <1>2. n \in Nat /\ DOMAIN known = 1 .. n /\ \A i \in 1 .. n : known[i] \in KnownNode
    BY KnownList
  <1>3. /\ u \in [0 .. n -> NodeMaps] /\ u[0] = f
        /\ \A i \in 1 .. n : u[i] = SyncKnown(u[i - 1], known[i])
        /\ SyncAllKnown(f) = u[n]
    BY <1>1 DEF KnownRounds
  <1> HIDE DEF n
  <1> DEFINE done == {k \in 0 .. n : id \in DOMAIN u[k] /\ u[k][id].label = f[id].label}
  <1>4. 0 \in done
    BY <1>2, <1>3
  <1>5. ASSUME NEW k \in Nat, k < n, k \in done
        PROVE  k + 1 \in done
    <2> DEFINE kn == known[k + 1]
    <2>1. /\ k + 1 \in 1 .. n /\ k + 1 \in 0 .. n /\ u[k] \in NodeMaps /\ kn \in KnownNode
          /\ u[k + 1] = SyncKnown(u[k], kn)
      <3>1. k + 1 \in 1 .. n /\ (k + 1) - 1 = k /\ k \in 0 .. n
        BY <1>2, <1>5
      <3> QED
        BY <1>2, <1>3, <3>1
    <2>2. id \in DOMAIN u[k] /\ u[k][id].label = f[id].label
      BY <1>5
    <2>3. id = Addressed(kn.address) => ShowsName(f[id], kn.name)
      BY <1>2, <2>1 DEF Own
    <2>4. id = Addressed(kn.address) => ShowsName(u[k][id], kn.name)
      BY <2>2, <2>3 DEF ShowsName
    <2> HIDE DEF kn
    <2>5. SyncKnown(u[k], kn)[id].label =
              IF id = Addressed(kn.address) /\ ~ShowsName(u[k][id], kn.name)
              THEN <<KnownPart(kn)>> ELSE u[k][id].label
      BY <2>1, <2>2, KnownLabels
    <2>6. id \in DOMAIN u[k + 1]
      BY <2>1, <2>2, KnownStep
    <2> QED
      BY <2>1, <2>2, <2>4, <2>5, <2>6
  <1> HIDE DEF done
  <1>6. \A k \in 0 .. n : k \in done
    BY <1>2, <1>4, <1>5, RoundInduction
  <1> QED
    BY <1>2, <1>3, <1>6 DEF done

-----------------------------------------------------------------------------
(***************************************************************************)
(* What a sync leaves: a label that shows every name its node is given, or *)
(* the known name that absorbs those after it, alone.  Of a label like     *)
(* that the next sync makes one that all further ones leave alone.         *)
(***************************************************************************)
ShowsAll(n, id) ==
    /\ \A g \in Gateways : GatewayId(g) = id => ShowsGateway(n, g.label)
    /\ \A i \in Own(id) : ShowsName(n, known[i].name)

Settled(n, id) ==
    ShowsAll(n, id) \/ \E j : IsLast(j, id) /\ n.label = <<KnownPart(known[j])>>

LabelsOk == stage = "synced" => \A id \in DOMAIN nodes : Settled(nodes[id], id)

LEMMA LabelOnly ==
    ASSUME NEW n, NEW m, n.label = m.label, NEW id
    PROVE  ShowsAll(n, id) => ShowsAll(m, id)
  BY DEF ShowsAll, ShowsGateway, ShowsName

LEMMA SyncedIs ==
    ASSUME InputOk, NEW f \in NodeMaps
    PROVE  /\ SyncGateways(f) \in NodeMaps
           /\ DOMAIN f \subseteq DOMAIN SyncGateways(f)
           /\ \A g \in Gateways : GatewayId(g) \in DOMAIN SyncGateways(f)
           /\ NodeIds \subseteq DOMAIN SyncAllKnown(SyncGateways(f))
           /\ \A id \in NodeIds : Synced(f)[id] = SyncAllKnown(SyncGateways(f))[id]
  <1> DEFINE a == SyncGateways(f)
             r == SyncAllKnown(a)
  <1>1. a \in NodeMaps /\ DOMAIN a = DOMAIN f \cup UNION {Reports(g) : g \in Gateways}
    BY GatewaysLoop DEF Grows
  <1>2. DOMAIN r = DOMAIN a \cup KnownIds
    BY <1>1, KnownLoop
  <1>3. NodeIds = KnownIds \cup UNION {Reports(g) : g \in Gateways}
    BY DEF NodeIds, Reports
  <1>4. \A g \in Gateways : GatewayId(g) \in DOMAIN a
    BY <1>1 DEF Reports
  <1>5. NodeIds \subseteq DOMAIN r
    BY <1>1, <1>2, <1>3
  <1>6. Synced(f) = [id \in NodeIds |-> r[id]]
    BY <1>5, SameIds DEF Synced, Retain
  <1> HIDE DEF a, r
  <1> QED
    BY <1>1, <1>4, <1>5, <1>6 DEF a, r

LEMMA SyncSettles ==
    ASSUME InputOk, NEW f \in NodeMaps, NEW id \in NodeIds
    PROVE  Settled(Synced(f)[id], id)
  <1> DEFINE a == SyncGateways(f)
             r == SyncAllKnown(a)
  <1>1. /\ a \in NodeMaps /\ id \in DOMAIN r /\ Synced(f)[id] = r[id]
        /\ \A g \in Gateways : GatewayId(g) \in DOMAIN a
    BY SyncedIs
  <1>2. \A g \in Gateways : ShowsGateway(a[GatewayId(g)], g.label)
    BY GatewaysLabels
  <1>3. \/ /\ r[id].label = a[id].label
           /\ \A i \in Own(id) : ShowsName(a[id], known[i].name)
        \/ \E j : IsLast(j, id) /\ r[id].label = <<KnownPart(known[j])>>
    BY <1>1, KnownSettles
  <1>4. CASE /\ r[id].label = a[id].label
             /\ \A i \in Own(id) : ShowsName(a[id], known[i].name)
    <2>1. ShowsAll(a[id], id)
      BY <1>2, <1>4 DEF ShowsAll
    <2>2. ShowsAll(r[id], id)
      BY <1>4, <2>1, LabelOnly
    <2> QED
      BY <1>1, <2>2 DEF Settled
  <1>5. CASE \E j : IsLast(j, id) /\ r[id].label = <<KnownPart(known[j])>>
    BY <1>1, <1>5 DEF Settled
  <1> QED
    BY <1>3, <1>4, <1>5

LEMMA FullStays ==
    ASSUME InputOk, NEW f \in NodeMaps, NEW id \in DOMAIN f, id \in NodeIds, ShowsAll(f[id], id)
    PROVE  Synced(f)[id].label = f[id].label
  <1> DEFINE a == SyncGateways(f)
             r == SyncAllKnown(a)
  <1>1. a \in NodeMaps /\ id \in DOMAIN a /\ Synced(f)[id] = r[id]
    BY SyncedIs
  <1>2. a[id].label = f[id].label
    BY GatewaysLabels DEF ShowsAll
  <1>3. ShowsAll(a[id], id)
    BY <1>2, LabelOnly
  <1>4. r[id].label = a[id].label
    BY <1>1, <1>3, KnownFull DEF ShowsAll
  <1> QED
    BY <1>1, <1>2, <1>4

LEMMA SyncedSame ==
    ASSUME InputOk, NEW f \in NodeMaps, NEW h \in NodeMaps, NEW id \in DOMAIN f \cap DOMAIN h,
           id \in NodeIds, f[id].label = h[id].label
    PROVE  Synced(f)[id].label = Synced(h)[id].label
  <1>1. /\ SyncGateways(f) \in NodeMaps /\ id \in DOMAIN SyncGateways(f)
        /\ Synced(f)[id] = SyncAllKnown(SyncGateways(f))[id]
    BY SyncedIs
  <1>2. /\ SyncGateways(h) \in NodeMaps /\ id \in DOMAIN SyncGateways(h)
        /\ Synced(h)[id] = SyncAllKnown(SyncGateways(h))[id]
    BY SyncedIs
  <1>3. SyncGateways(f)[id].label = SyncGateways(h)[id].label
    BY GatewaysSame
  <1>4. SyncAllKnown(SyncGateways(f))[id].label = SyncAllKnown(SyncGateways(h))[id].label
    BY <1>1, <1>2, <1>3, KnownSame
  <1> QED
    BY <1>1, <1>2, <1>4

LEMMA Resynced ==
    ASSUME InputOk, NEW f \in NodeMaps, NEW id \in DOMAIN f, id \in NodeIds, Settled(f[id], id)
    PROVE  Synced(Synced(f))[id].label = Synced(f)[id].label
  <1> DEFINE h == Synced(f)
  <1>1. h \in NodeMaps /\ id \in DOMAIN h
    BY SyncedMatches
  <1>2. Settled(h[id], id)
    BY SyncSettles
  <1>3. CASE ShowsAll(f[id], id)
    <2>1. h[id].label = f[id].label
      BY <1>3, FullStays
    <2>2. ShowsAll(h[id], id)
      BY <1>3, <2>1, LabelOnly
    <2> QED
      BY <1>1, <2>2, FullStays
  <1>4. CASE ShowsAll(h[id], id)
    BY <1>1, <1>4, FullStays
  <1>5. CASE ~ShowsAll(f[id], id) /\ ~ShowsAll(h[id], id)
    <2>1. PICK j : IsLast(j, id) /\ f[id].label = <<KnownPart(known[j])>>
      BY <1>5 DEF Settled
    <2>2. PICK i : IsLast(i, id) /\ h[id].label = <<KnownPart(known[i])>>
      BY <1>2, <1>5 DEF Settled
    <2>3. i \in Nat /\ j \in Nat /\ i <= j /\ j <= i
      BY <2>1, <2>2, OwnFields DEF IsLast, Absorbs
    <2>4. h[id].label = f[id].label
      BY <2>1, <2>2, <2>3
    <2> QED
      BY <1>1, <2>4, SyncedSame
  <1> QED
    BY <1>3, <1>4, <1>5

LEMMA SameNames ==
    ASSUME UNCHANGED <<gateways, known>>, NEW n, NEW m, n.label = m.label, NEW id, Settled(n, id)
    PROVE  Settled(m, id)'
  <1>1. Gateways' = Gateways
    BY DEF Gateways
  <1>2. Own(id)' = Own(id)
    BY DEF Own
  <1>3. \A j : IsLast(j, id)' <=> IsLast(j, id)
    BY <1>2 DEF IsLast, Absorbs
  <1>4. ShowsAll(n, id) => ShowsAll(m, id)'
    BY <1>1, <1>2 DEF ShowsAll, ShowsGateway, ShowsName
  <1> QED
    BY <1>3, <1>4 DEF Settled

LEMMA LabelsStay == IInv /\ LabelsOk /\ [Next]_vars => LabelsOk'
  <1> SUFFICES ASSUME IInv, LabelsOk, [Next]_vars, stage' = "synced", NEW id \in DOMAIN nodes'
               PROVE  Settled(nodes[id], id)'
    BY DEF LabelsOk
  <1>1. CASE SyncEffect
    <2>1. nodes' = Synced(nodes) /\ UNCHANGED <<gateways, known>>
      BY <1>1 DEF SyncEffect, Sync, input, build
    <2>2. InputOk /\ nodes \in NodeMaps
      BY DEF IInv, GraphOk
    <2>3. id \in NodeIds
      BY <2>1, <2>2, SyncedMatches
    <2>4. Settled(nodes'[id], id)
      BY <2>1, <2>2, <2>3, SyncSettles
    <2> QED
      BY <2>1, <2>4, SameNames
  <1>2. CASE OnGraph
    <2>1. stage = "synced" /\ UNCHANGED <<gateways, known>>
      BY <1>2 DEF OnGraph, viewVars, input, build
    <2>2. id \in DOMAIN nodes /\ nodes'[id].label = nodes[id].label
      <3>1. CASE Tick
        <4>1. id \in DOMAIN nodes
          BY <3>1 DEF Tick
        <4> DEFINE n == nodes[id]
                   place(spot) ==
                       IF pinned # NoPin /\ pinned.id = id THEN pinned.cursor ELSE spot[id]
        <4>2. PICK spot : nodes'[id] = [n EXCEPT !.at = place(spot)]
          BY <3>1, <4>1 DEF Tick
        <4>3. n \in NodeRecord
          BY <4>1, MapFields, NodeFields DEF IInv, GraphOk
        <4> HIDE DEF n, place
        <4>4. [n EXCEPT !.at = place(spot)].label = n.label
          BY <4>3 DEF NodeRecord
        <4> QED
          BY <4>1, <4>2, <4>4 DEF n
      <3>2. CASE Gesture
        BY <3>2 DEF Gesture, PressNode, PressBackground, Move, Release
      <3> QED
        BY <1>2, <3>1, <3>2 DEF OnGraph
    <2>3. Settled(nodes[id], id)
      BY <2>1, <2>2 DEF LabelsOk
    <2> QED
      BY <2>1, <2>2, <2>3, SameNames
  <1>3. CASE UNCHANGED vars
    <2>1. UNCHANGED <<stage, nodes, gateways, known>>
      BY <1>3 DEF vars, viewVars, layoutVars, input, build
    <2>2. Settled(nodes[id], id)
      BY <2>1 DEF LabelsOk
    <2> QED
      BY <2>1, <2>2, SameNames
  <1>4. CASE Render \/ News \/ ResetKnown
    BY <1>4 DEF Render, RenderNext, TakeEntry, DecodeContract, BuildDone, GroupContract, ListRows,
                News, ResetKnown, StartRender
  <1> QED
    BY <1>1, <1>2, <1>3, <1>4 DEF Next

(***************************************************************************)
(* Labels do not grow for ever: whatever names gateways and known nodes    *)
(* share an address, or are part of each other, from the second report     *)
(* that brings no new name on every label stays as it is.                  *)
(***************************************************************************)
THEOREM NamesSettle == Spec => []LabelsSettle
  <1>1. Init => LabelsOk
    <2>1. Init => stage = "build"
      BY DEF Init, RenderInit
    <2> QED
      BY <2>1 DEF LabelsOk
  <1>2. Spec => []LabelsOk
    BY <1>1, LabelsStay, Inductive, PTL DEF Spec
  <1>3. ASSUME IInv, LabelsOk
        PROVE  LabelsSettle
    <2> SUFFICES ASSUME stage = "synced", NEW id \in DOMAIN nodes
                 PROVE  Synced(Synced(nodes))[id].label = Synced(nodes)[id].label
      BY DEF LabelsSettle
    <2>1. InputOk /\ nodes \in NodeMaps /\ id \in NodeIds
      BY <1>3 DEF IInv, GraphOk, GraphMatchesList
    <2>2. Settled(nodes[id], id)
      BY <1>3 DEF LabelsOk
    <2> QED
      BY <2>1, <2>2, Resynced
  <1> QED
    BY <1>2, <1>3, Inductive, PTL

-----------------------------------------------------------------------------
(***************************************************************************)
(* What the first loop has made of the reports it has read: of each        *)
(* contract a verdict, a title and a hash that someone reported, and none  *)
(* only where nobody did.                                                  *)
(***************************************************************************)
ReportsOf(p) == {Delivered(reported[p].contracts[i]) : i \in DOMAIN reported[p].contracts}

Handed == UNION {ReportsOf(p) : p \in DOMAIN reported \ Untaken}

Pending == {Decode(rest[i]) : i \in DOMAIN rest}

About(k, H) == {r \in H : r.key = k}

Sums(m, S) ==
    /\ m.web = "yes" <=> \E r \in S : r.web = "yes"
    /\ m.web = "none" <=> \A r \in S : ~Says(r)
    /\ m.title \in {None} \cup {r.title : r \in S} /\ (m.title = None <=> \A r \in S : r.title = None)
    /\ m.hash \in {NoHash} \cup {r.hash : r \in S} /\ (m.hash = NoHash <=> \A r \in S : r.hash = NoHash)

Gathers(H) == H \cup Pending = Handed /\ \A k \in Keys : Sums(MetaOf(k), About(k, H))

ReadOk == (stage # "build" => rest = <<>>) /\ \E H : Gathers(H)

LEMMA NothingSums == Sums(NoMeta, {})
  BY DEF Sums, NoMeta

LEMMA SilentSums ==
    ASSUME NEW m, NEW S, Sums(m, S), NEW r, ~Says(r)
    PROVE  Sums(m, S \cup {r})
  BY DEF Sums, Says

LEMMA NotedSums ==
    ASSUME BuildOk, NEW r \in ContractReport, Says(r), NEW S, Sums(MetaOf(r.key), S), NEW time
    PROVE  Sums(Noted(r, time), S \cup {r})
  <1> DEFINE m == MetaOf(r.key)
             n == Noted(r, time)
  <1>1. n = [web |-> IF r.web = "yes" \/ m.web = "yes" THEN "yes" ELSE "no",
             title |-> IF m.title = None THEN r.title ELSE m.title,
             hash |-> IF m.hash = NoHash THEN r.hash ELSE m.hash,
             probed |-> IF time > m.probed THEN time ELSE m.probed]
    BY DEF Noted
  <1>2. Sums(m, S)
    OBVIOUS
  <1> HIDE DEF m, n
  <1>3. /\ n.web = IF r.web = "yes" \/ m.web = "yes" THEN "yes" ELSE "no"
        /\ n.title = IF m.title = None THEN r.title ELSE m.title
        /\ n.hash = IF m.hash = NoHash THEN r.hash ELSE m.hash
    BY <1>1
  <1>4. /\ n.web = "yes" <=> \E x \in S \cup {r} : x.web = "yes"
        /\ n.web = "none" <=> \A x \in S \cup {r} : ~Says(x)
    BY <1>2, <1>3 DEF Sums
  <1>5. /\ n.title \in {None} \cup {x.title : x \in S \cup {r}}
        /\ n.title = None <=> \A x \in S \cup {r} : x.title = None
    BY <1>2, <1>3 DEF Sums
  <1>6. /\ n.hash \in {NoHash} \cup {x.hash : x \in S \cup {r}}
        /\ n.hash = NoHash <=> \A x \in S \cup {r} : x.hash = NoHash
    BY <1>2, <1>3 DEF Sums
  <1>7. Sums(n, S \cup {r})
    BY <1>4, <1>5, <1>6 DEF Sums
  <1> QED
    BY <1>7 DEF n

(* Before anything is read.                                                *)
LEMMA NothingReadYet ==
    ASSUME stage = "build", DOMAIN reported \subseteq todo, rest = <<>>, meta = <<>>
    PROVE  ReadOk
  <1>1. Pending = {} /\ Handed = {}
    BY DEF Pending, Handed, Untaken
  <1>2. \A k : MetaOf(k) = NoMeta /\ About(k, {}) = {}
    BY DEF MetaOf, About
  <1>3. Gathers({})
    BY <1>1, <1>2, NothingSums DEF Gathers
  <1> QED
    BY <1>3 DEF ReadOk

LEMMA StartsUnread ==
    ASSUME stage' = "build", DOMAIN reported' \subseteq todo', rest' = <<>>, meta' = <<>>
    PROVE  ReadOk'
  <1>1. Pending' = {} /\ Handed' = {}
    BY DEF Pending, Handed, Untaken
  <1>2. \A k : MetaOf(k)' = NoMeta /\ About(k, {}) = {}
    BY DEF MetaOf, About
  <1>3. Gathers({})'
    BY <1>1, <1>2, NothingSums DEF Gathers
  <1> QED
    BY <1>3 DEF ReadOk

LEMMA SameRead ==
    ASSUME ReadOk, Untaken' = Untaken, stage # "build" => stage' # "build",
           stage = "build" => stage' = "build" \/ rest = <<>>, UNCHANGED <<reported, rest, meta>>
    PROVE  ReadOk'
  <1>1. PICK H : Gathers(H)
    BY DEF ReadOk
  <1>2. Pending' = Pending
    BY DEF Pending
  <1>3. Handed' = Handed
    BY DEF Handed, ReportsOf
  <1>4. \A k : MetaOf(k)' = MetaOf(k)
    BY DEF MetaOf
  <1>5. Gathers(H)'
    BY <1>1, <1>2, <1>3, <1>4 DEF Gathers
  <1>6. stage' # "build" => rest' = <<>>
    BY DEF ReadOk
  <1> QED
    BY <1>5, <1>6 DEF ReadOk

LEMMA TakeEntryRead ==
    ASSUME IInv, VInv, ReadOk, TakeEntry, reported' = reported
    PROVE  ReadOk'
  <1>1. PICK p \in todo : todo' = todo \ {p} /\ rest' = remote[p].contracts
    BY DEF TakeEntry
  <1>2. stage = "build" /\ stage' = "build" /\ rest = <<>> /\ meta' = meta
    BY DEF TakeEntry
  <1>3. p \in DOMAIN reported
    <2>1. p \in DOMAIN remote
      BY <1>2 DEF IInv, InputOk
    <2> QED
      BY <2>1 DEF VInv, SourceOk, Published
  <1>4. PICK H : Gathers(H)
    BY DEF ReadOk
  <1>5. Pending = {}
    BY <1>2 DEF Pending
  <1>6. Pending' = ReportsOf(p)
    <2> DEFINE e == reported[p]
               w == remote[p]
    <2>1. Carries(w, e) /\ e \in NodeReport
      BY <1>3, PublishedCarries DEF VInv, SourceOk, ReportsOk
    <2>2. DOMAIN w.contracts = DOMAIN e.contracts
      BY <2>1 DEF Carries
    <2>3. \A i \in DOMAIN e.contracts : Decode(w.contracts[i]) = Delivered(e.contracts[i])
      <3> SUFFICES ASSUME NEW i \in DOMAIN e.contracts
                   PROVE  Decode(w.contracts[i]) = Delivered(e.contracts[i])
        OBVIOUS
      <3>1. w.contracts[i] = Dialect(e.dialect, Encode(e.contracts[i]))
        BY <2>1 DEF Carries
      <3>2. e.contracts[i] \in ContractReport
        BY <2>1, ReportFields
      <3> QED
        BY <3>1, <3>2, RoundTrip
    <2>4. Pending' = {Decode(w.contracts[i]) : i \in DOMAIN w.contracts}
      BY <1>1 DEF Pending
    <2>5. ReportsOf(p) = {Delivered(e.contracts[i]) : i \in DOMAIN e.contracts}
      BY DEF ReportsOf
    <2> HIDE DEF e, w
    <2> QED
      BY <2>2, <2>3, <2>4, <2>5
  <1>7. Handed' = Handed \cup ReportsOf(p)
    <2>1. \A q : ReportsOf(q)' = ReportsOf(q)
      BY DEF ReportsOf
    <2>2. DOMAIN reported \ todo' = (DOMAIN reported \ todo) \cup {p}
      BY <1>1, <1>3
    <2>3. Handed' = UNION {ReportsOf(q) : q \in DOMAIN reported \ todo'}
      BY <1>2, <2>1 DEF Handed, Untaken
    <2>4. Handed = UNION {ReportsOf(q) : q \in DOMAIN reported \ todo}
      BY <1>2 DEF Handed, Untaken
    <2> QED
      BY <2>2, <2>3, <2>4
  <1>8. \A k : MetaOf(k)' = MetaOf(k)
    BY <1>2 DEF MetaOf
  <1>9. Gathers(H)'
    BY <1>4, <1>5, <1>6, <1>7, <1>8 DEF Gathers
  <1> QED
    BY <1>2, <1>9 DEF ReadOk

LEMMA DecodeRead ==
    ASSUME IInv, VInv, ReadOk, DecodeContract, reported' = reported
    PROVE  ReadOk'
  <1> DEFINE r == Decode(Head(rest))
             time == gateways[Len(gateways)].seen
  <1>1. /\ stage = "build" /\ stage' = "build" /\ rest # <<>> /\ rest' = Tail(rest)
        /\ todo' = todo
    BY DEF DecodeContract
  <1>2. meta' = IF Says(r) THEN [k \in DOMAIN meta \cup {r.key} |->
                                   IF k = r.key THEN Noted(r, time) ELSE meta[k]]
                ELSE meta
    BY DEF DecodeContract
  <1>3. rest \in Seq(WireEntry) /\ Head(rest) \in WireEntry
    <2>1. rest \in Seq(WireEntry)
      BY DEF VInv, BuildOk
    <2> HIDE DEF WireEntry
    <2> QED
      BY <1>1, <2>1
  <1>4. r \in ContractReport /\ r.key \in Keys
    BY <1>3, DecodeType DEF ContractReport
  <1>5. PICK H : Gathers(H)
    BY DEF ReadOk
  <1>6. Pending = {r} \cup Pending'
    <2> DEFINE n == Len(rest)
    <2> HIDE DEF WireEntry
    <2>1. n \in Nat /\ n # 0 /\ DOMAIN rest = 1 .. n
      BY <1>1, <1>3
    <2>2. DOMAIN rest' = 1 .. n - 1 /\ \A i \in 1 .. n - 1 : rest'[i] = rest[i + 1]
      BY <1>1, <1>3
    <2>3. Head(rest) = rest[1]
      BY <1>1, <1>3
    <2> HIDE DEF n
    <2>4. \A i \in 1 .. n : i = 1 \/ (i - 1 \in 1 .. n - 1 /\ (i - 1) + 1 = i)
      BY <2>1
    <2>5. 1 \in 1 .. n /\ \A i \in 1 .. n - 1 : i + 1 \in 1 .. n
      BY <2>1
    <2>6. ASSUME NEW i \in 1 .. n
          PROVE  Decode(rest[i]) \in {r} \cup Pending'
      <3>1. CASE i = 1
        BY <2>3, <3>1
      <3>2. CASE i # 1
        <4>1. i - 1 \in DOMAIN rest' /\ rest'[i - 1] = rest[i]
          BY <2>2, <2>4, <3>2
        <4> QED
          BY <4>1 DEF Pending
      <3> QED
        BY <3>1, <3>2
    <2>7. r \in Pending
      BY <2>1, <2>3, <2>5 DEF Pending
    <2>8. ASSUME NEW i \in DOMAIN rest'
          PROVE  Decode(rest'[i]) \in Pending
      <3>1. i + 1 \in DOMAIN rest /\ rest'[i] = rest[i + 1]
        BY <2>1, <2>2, <2>5
      <3> QED
        BY <3>1 DEF Pending
    <2>9. Pending = {Decode(rest[i]) : i \in 1 .. n} /\ Pending' = {Decode(rest'[i]) : i \in DOMAIN rest'}
      BY <2>1 DEF Pending
    <2> HIDE DEF r
    <2> QED
      BY <2>6, <2>7, <2>8, <2>9
  <1>7. Handed' = Handed
    BY <1>1 DEF Handed, ReportsOf, Untaken
  <1> HIDE DEF r, time
  <1>8. ASSUME NEW k \in Keys
        PROVE  Sums(MetaOf(k)', About(k, H \cup {r}))
    <2>1. Sums(MetaOf(k), About(k, H))
      BY <1>5 DEF Gathers
    <2>2. CASE k = r.key
      <3>1. About(k, H \cup {r}) = About(k, H) \cup {r}
        BY <2>2 DEF About
      <3>2. CASE Says(r)
        <4>1. k \in DOMAIN meta' /\ meta'[k] = Noted(r, time)
          BY <1>2, <2>2, <3>2
        <4>2. MetaOf(k)' = Noted(r, time)
          BY <4>1 DEF MetaOf
        <4>3. Sums(Noted(r, time), About(k, H) \cup {r})
          BY <1>4, <2>1, <2>2, <3>2, NotedSums DEF VInv
        <4> QED
          BY <3>1, <4>2, <4>3
      <3>3. CASE ~Says(r)
        <4>1. MetaOf(k)' = MetaOf(k)
          BY <1>2, <3>3 DEF MetaOf
        <4> QED
          BY <2>1, <3>1, <3>3, <4>1, SilentSums
      <3> QED
        BY <3>2, <3>3
    <2>3. CASE k # r.key
      <3>1. About(k, H \cup {r}) = About(k, H)
        BY <2>3 DEF About
      <3>2. MetaOf(k)' = MetaOf(k)
        BY <1>2, <2>3 DEF MetaOf
      <3> QED
        BY <2>1, <3>1, <3>2
    <2> QED
      BY <2>2, <2>3
  <1>9. (H \cup {r}) \cup Pending' = Handed'
    BY <1>5, <1>6, <1>7 DEF Gathers
  <1>10. PICK G : G = H \cup {r}
    OBVIOUS
  <1>11. Gathers(G)'
    BY <1>8, <1>9, <1>10 DEF Gathers
  <1> QED
    BY <1>1, <1>11 DEF ReadOk

LEMMA NextRead == IInv /\ VInv /\ VInv' /\ ReadOk /\ [Next]_vars => ReadOk'
  <1> SUFFICES ASSUME IInv, VInv, VInv', ReadOk, [Next]_vars PROVE ReadOk'
    OBVIOUS
  <1>1. CASE Render
    <2>1. reported' = reported
      BY <1>1 DEF Render
    <2>2. CASE TakeEntry
      BY <2>1, <2>2, TakeEntryRead
    <2>3. CASE DecodeContract
      BY <2>1, <2>3, DecodeRead
    <2>4. CASE BuildDone
      <3>1. /\ stage = "build" /\ todo = {} /\ rest = <<>> /\ stage' = "group"
            /\ UNCHANGED <<rest, meta>>
        BY <2>4 DEF BuildDone, build
      <3>2. Untaken' = Untaken
        BY <3>1 DEF Untaken
      <3> QED
        BY <2>1, <3>1, <3>2, SameRead
    <2>5. CASE GroupContract \/ ListRows
      <3>1. stage = "group" /\ stage' # "build" /\ UNCHANGED <<rest, meta>>
        BY <2>5 DEF GroupContract, ListRows, build
      <3>2. Untaken' = Untaken
        BY <3>1 DEF Untaken
      <3> QED
        BY <2>1, <3>1, <3>2, SameRead
    <2> QED
      BY <1>1, <2>2, <2>3, <2>4, <2>5 DEF Render, RenderNext
  <1>2. CASE SyncEffect
    <2>1. stage = "listed" /\ stage' = "synced" /\ UNCHANGED <<reported, rest, meta>>
      BY <1>2 DEF SyncEffect, build
    <2>2. Untaken' = Untaken
      BY <2>1 DEF Untaken
    <2> QED
      BY <2>1, <2>2, SameRead
  <1>3. CASE News \/ ResetKnown
    <2>1. stage' = "build" /\ todo' = DOMAIN remote' /\ rest' = <<>> /\ meta' = <<>>
      BY <1>3 DEF News, ResetKnown, StartRender
    <2>2. DOMAIN remote' = DOMAIN reported'
      BY DEF VInv, SourceOk, Published
    <2> QED
      BY <2>1, <2>2, StartsUnread
  <1>4. CASE OnGraph \/ UNCHANGED vars
    <2>1. UNCHANGED <<stage, todo, reported, rest, meta>>
      BY <1>4 DEF OnGraph, vars, viewVars, build
    <2>2. Untaken' = Untaken
      BY <2>1 DEF Untaken
    <2> QED
      BY <2>1, <2>2, SameRead
  <1> QED
    BY <1>1, <1>2, <1>3, <1>4 DEF Next

LEMMA InitRead == Init => ReadOk
  <1> SUFFICES ASSUME Init PROVE ReadOk
    OBVIOUS
  <1>1. stage = "build" /\ reported = <<>> /\ rest = <<>> /\ meta = <<>>
    BY DEF Init, RenderInit
  <1> QED
    BY <1>1, NothingReadYet

-----------------------------------------------------------------------------
(***************************************************************************)
(* What the second loop has made of the contracts it has taken: a group    *)
(* has all of one key, and says what they say together.                    *)
(***************************************************************************)
Done == Hosted \ Left

KeyAt(j) == GroupKey(RowOf(j))

Variants(ks) == UNION {RowOf(j).variants : j \in ks}

Codes(ks) == UNION {RowOf(j).hashes : j \in ks}

Totals(row) ==
    /\ row.variants = Variants(row.instances) /\ row.hashes = Codes(row.instances)
    /\ row.title = None <=> row.variants = {}
    /\ row.title # None => row.title \in row.variants
    /\ row.web = "yes" <=> \E j \in row.instances : RowOf(j).web = "yes"
    /\ row.web = "none" <=> \A j \in row.instances : RowOf(j).web = "none"

Grouped ==
    /\ \A at \in DOMAIN groups :
          at # NoGroup /\ groups[at].instances = {j \in Done : KeyAt(j) = at} /\ Totals(groups[at])
    /\ stage # "build" =>
          /\ singles = {RowOf(j) : j \in {i \in Done : KeyAt(i) = NoGroup}}
          /\ \A j \in Done : KeyAt(j) # NoGroup => KeyAt(j) \in DOMAIN groups

LEMMA RowOfFields ==
    ASSUME NEW j
    PROVE  /\ RowOf(j).instances = {j} /\ RowOf(j).web = MetaOf(j).web
           /\ RowOf(j).title = MetaOf(j).title
           /\ RowOf(j).variants = Single(MetaOf(j).title, None)
           /\ RowOf(j).hashes = Single(MetaOf(j).hash, NoHash)
  BY DEF RowOf

LEMMA RowOfTotals ==
    ASSUME NEW j
    PROVE  Totals(RowOf(j))
  <1> DEFINE row == RowOf(j)
  <1>1. /\ row.instances = {j} /\ row.title = MetaOf(j).title
        /\ row.variants = Single(MetaOf(j).title, None)
    BY RowOfFields
  <1>2. Variants({j}) = row.variants /\ Codes({j}) = row.hashes
    BY DEF Variants, Codes
  <1>3. /\ row.title = None <=> row.variants = {}
        /\ row.title # None => row.title \in row.variants
    BY <1>1 DEF Single
  <1> QED
    BY <1>1, <1>2, <1>3 DEF Totals

(* A row that is put in a group has a verdict.                             *)
LEMMA GroupedHasVerdict ==
    ASSUME BuildOk, NEW j, KeyAt(j) # NoGroup
    PROVE  RowOf(j).web # "none"
  <1>1. RowOf(j).web = "yes" \/ RowOf(j).hashes # {}
    BY DEF KeyAt, GroupKey
  <1>2. MetaOf(j).web = "yes" \/ MetaOf(j).hash # NoHash
    BY <1>1, RowOfFields DEF Single
  <1> QED
    BY <1>2, RowOfFields DEF MetaOf, NoMeta, BuildOk, MetaSet

(* What is handed over is trimmed, so trimming the titles again, which the *)
(* merging does, changes nothing.                                          *)
LEMMA HandedFields ==
    ASSUME VInv, NEW r \in Handed
    PROVE  r \in ContractReport /\ Trim(r.title) = r.title /\ (r.title # None => r.web = "yes")
  <1>1. PICK p \in DOMAIN reported : r \in ReportsOf(p)
    BY DEF Handed
  <1>2. PICK i \in DOMAIN reported[p].contracts : r = Delivered(reported[p].contracts[i])
    BY <1>1 DEF ReportsOf
  <1>3. reported[p].contracts[i] \in ContractReport
    <2>1. reported[p] \in NodeReport
      BY DEF VInv, SourceOk, ReportsOk
    <2> QED
      BY <1>2, <2>1, ReportFields
  <1> DEFINE x == reported[p].contracts[i]
  <1> HIDE DEF x
  <1>4. x \in ContractReport /\ r = Delivered(x)
    BY <1>2, <1>3 DEF x
  <1>5. /\ r \in ContractReport /\ r.web = x.web
        /\ r.title = IF x.web = "yes" THEN Trim(x.title) ELSE None
    BY <1>4, DeliveredType
  <1>6. Trim(Trim(x.title)) = Trim(x.title)
    BY <1>4, TrimTwice DEF ContractReport, Title
  <1>7. Trim(None) = None
    BY DEF Trim, None
  <1> QED
    BY <1>5, <1>6, <1>7

LEMMA MetaTrimmed ==
    ASSUME VInv, ReadOk, NEW k \in Keys
    PROVE  Trim(MetaOf(k).title) = MetaOf(k).title
  <1>1. PICK H : Gathers(H)
    BY DEF ReadOk
  <1>2. Sums(MetaOf(k), About(k, H)) /\ H \subseteq Handed
    BY <1>1 DEF Gathers
  <1>3. MetaOf(k).title = None \/ \E r \in Handed : MetaOf(k).title = r.title
    BY <1>2 DEF Sums, About
  <1>4. Trim(None) = None
    BY DEF Trim, None
  <1> QED
    BY <1>3, <1>4, HandedFields

LEMMA SameRows ==
    ASSUME gateways' = gateways, meta' = meta
    PROVE  /\ \A j : RowOf(j)' = RowOf(j) /\ KeyAt(j)' = KeyAt(j)
           /\ \A row : Totals(row)' <=> Totals(row)
  <1>1. Gateways' = Gateways
    BY DEF Gateways
  <1>2. \A j : RowOf(j)' = RowOf(j)
    BY <1>1 DEF RowOf, Hosts, MetaOf
  <1>3. \A j : KeyAt(j)' = KeyAt(j)
    BY <1>2 DEF KeyAt
  <1>4. \A ks : Variants(ks)' = Variants(ks) /\ Codes(ks)' = Codes(ks)
    BY <1>2 DEF Variants, Codes
  <1>5. \A row : Totals(row)' <=> Totals(row)
    BY <1>2, <1>4 DEF Totals
  <1> QED
    BY <1>2, <1>3, <1>5

LEMMA MergedTotals ==
    ASSUME VInv, ReadOk, NEW a \in RowSet, Totals(a), a.instances # {}, a.web # "none",
           NEW k \in Keys, RowOf(k) \in RowSet, RowOf(k).web # "none"
    PROVE  Totals(MergeInto(a, RowOf(k)))
  <1> DEFINE b == RowOf(k)
             c == MergeInto(a, b)
             I == a.instances \cup {k}
  <1>1. /\ b.instances = {k} /\ b.title = MetaOf(k).title
        /\ b.variants = Single(MetaOf(k).title, None) /\ Totals(b)
    BY RowOfFields, RowOfTotals
  <1>2. {t \in b.variants : Trim(t) # None} = b.variants
    BY <1>1, MetaTrimmed DEF Single
  <1>3. c = [a EXCEPT !.instances = a.instances \cup b.instances,
                      !.seenBy = a.seenBy \cup b.seenBy,
                      !.variants = a.variants \cup {t \in b.variants : Trim(t) # None},
                      !.title = IF a.title = None THEN b.title ELSE a.title,
                      !.web = IF a.web = "yes" THEN a.web ELSE b.web,
                      !.hashes = a.hashes \cup b.hashes,
                      !.seen = Max({a.seen, b.seen})]
    BY DEF MergeInto
  <1>4. /\ Variants(I) = Variants(a.instances) \cup b.variants
        /\ Codes(I) = Codes(a.instances) \cup b.hashes
        /\ \A j \in I : j \in a.instances \/ j = k
        /\ RowOf(k) = b /\ k \in I
    BY DEF Variants, Codes
  <1>5. b \in RowSet /\ b.web # "none"
    OBVIOUS
  <1> HIDE DEF b, c
  <1>6. /\ c.instances = I
        /\ c.variants = a.variants \cup b.variants
        /\ c.title = IF a.title = None THEN b.title ELSE a.title
        /\ c.web = IF a.web = "yes" THEN a.web ELSE b.web
        /\ c.hashes = a.hashes \cup b.hashes
    <2>1. /\ c.instances = a.instances \cup b.instances
          /\ c.variants = a.variants \cup {t \in b.variants : Trim(t) # None}
          /\ c.title = IF a.title = None THEN b.title ELSE a.title
          /\ c.web = IF a.web = "yes" THEN a.web ELSE b.web
          /\ c.hashes = a.hashes \cup b.hashes
      BY <1>3 DEF RowSet
    <2> QED
      BY <1>1, <1>2, <2>1
  <1>7. /\ a.variants = Variants(a.instances) /\ a.hashes = Codes(a.instances)
        /\ (a.title = None <=> a.variants = {}) /\ (a.title # None => a.title \in a.variants)
        /\ a.web = "yes" <=> \E j \in a.instances : RowOf(j).web = "yes"
        /\ b.title = None <=> b.variants = {}
        /\ b.title # None => b.title \in b.variants
    BY <1>1 DEF Totals
  <1>8. c.variants = Variants(I) /\ c.hashes = Codes(I)
    BY <1>4, <1>6, <1>7
  <1>9. (c.title = None <=> c.variants = {}) /\ (c.title # None => c.title \in c.variants)
    BY <1>6, <1>7
  <1>10. c.web = "yes" <=> \E j \in I : RowOf(j).web = "yes"
    BY <1>4, <1>6, <1>7
  <1>11. c.web # "none" /\ ~\A j \in I : RowOf(j).web = "none"
    BY <1>4, <1>5, <1>6
  <1> HIDE DEF I
  <1>12. Totals(c)
    BY <1>6, <1>8, <1>9, <1>10, <1>11 DEF Totals
  <1> QED
    BY <1>12 DEF c, b

LEMMA SameGrouped ==
    ASSUME Grouped, Done' = Done, stage' # "build" => stage # "build",
           UNCHANGED <<gateways, meta, groups, singles>>
    PROVE  Grouped'
  <1>1. /\ \A j : RowOf(j)' = RowOf(j) /\ KeyAt(j)' = KeyAt(j)
        /\ \A row : Totals(row)' <=> Totals(row)
    BY SameRows
  <1> QED
    BY <1>1 DEF Grouped

LEMMA GroupGrouped ==
    ASSUME IInv, VInv, ReadOk, Grouped, GroupContract
    PROVE  Grouped'
  <1>1. PICK k \in todo :
          LET row == RowOf(k)
              at == GroupKey(row)
          IN  /\ todo' = todo \ {k}
              /\ IF at = NoGroup
                 THEN singles' = singles \cup {row} /\ UNCHANGED groups
                 ELSE /\ groups' = [g \in DOMAIN groups \cup {at} |->
                                       IF g # at THEN groups[g]
                                       ELSE IF at \in DOMAIN groups
                                            THEN MergeInto(groups[at], row) ELSE row]
                      /\ UNCHANGED singles
    BY DEF GroupContract
  <1> DEFINE row == RowOf(k)
             at == KeyAt(k)
             new == IF at \in DOMAIN groups THEN MergeInto(groups[at], row) ELSE row
  <1>2. /\ stage = "group" /\ stage' = "group" /\ UNCHANGED <<gateways, meta>>
    BY DEF GroupContract, build
  <1>3. /\ \A j : RowOf(j)' = RowOf(j) /\ KeyAt(j)' = KeyAt(j)
        /\ \A x : Totals(x)' <=> Totals(x)
    BY <1>2, SameRows
  <1>4. k \in Hosted /\ k \in Keys /\ RowIs(row) /\ row.instances = {k}
    <2>1. k \in Hosted
      BY <1>2 DEF VInv, GroupOk
    <2> QED
      BY <2>1, RowOfIs DEF IInv, VInv
  <1>5. Done' = Done \cup {k} /\ k \notin Done
    <2>1. Hosted' = Hosted
      BY <1>2, SameGateways
    <2> QED
      BY <1>1, <1>2, <1>4, <2>1 DEF Done, Left
  <1>6. /\ \A g \in DOMAIN groups :
              g # NoGroup /\ groups[g].instances = {j \in Done : KeyAt(j) = g} /\ Totals(groups[g])
        /\ singles = {RowOf(j) : j \in {i \in Done : KeyAt(i) = NoGroup}}
        /\ \A j \in Done : KeyAt(j) # NoGroup => KeyAt(j) \in DOMAIN groups
    BY <1>2 DEF Grouped
  <1>7. CASE at = NoGroup
    <2>1. singles' = singles \cup {row} /\ groups' = groups
      BY <1>1, <1>7 DEF KeyAt
    <2>2. \A g \in DOMAIN groups : {j \in Done \cup {k} : KeyAt(j) = g} = {j \in Done : KeyAt(j) = g}
      BY <1>6, <1>7
    <2>3. singles' = {RowOf(j) : j \in {i \in Done \cup {k} : KeyAt(i) = NoGroup}}
      BY <1>6, <1>7, <2>1
    <2>4. \A j \in Done \cup {k} : KeyAt(j) # NoGroup => KeyAt(j) \in DOMAIN groups
      BY <1>6, <1>7
    <2> HIDE DEF at, row, new
    <2> QED
      BY <1>3, <1>5, <1>6, <2>1, <2>2, <2>3, <2>4 DEF Grouped
  <1>8. CASE at # NoGroup
    <2>1. /\ singles' = singles
          /\ groups' = [g \in DOMAIN groups \cup {at} |-> IF g # at THEN groups[g] ELSE new]
      BY <1>1, <1>8 DEF KeyAt
    <2>2. new.instances = {j \in Done \cup {k} : KeyAt(j) = at} /\ Totals(new)
      <3>1. CASE at \in DOMAIN groups
        <4> DEFINE a == groups[at]
        <4>1. RowIs(a) /\ a \in RowSet /\ a.instances # {}
          BY <3>1 DEF VInv, GroupOk, AllRows, RowIs
        <4>2. a.instances = {j \in Done : KeyAt(j) = at} /\ Totals(a)
          BY <1>6, <3>1
        <4>3. row.web # "none" /\ \A j \in a.instances : RowOf(j).web # "none"
          BY <1>8, <4>2, GroupedHasVerdict DEF VInv
        <4>4. a.web # "none"
          BY <4>1, <4>2, <4>3 DEF Totals
        <4>5. row \in RowSet
          BY <1>4 DEF RowIs
        <4>6. Totals(MergeInto(a, row))
          BY <1>4, <4>1, <4>2, <4>3, <4>4, <4>5, MergedTotals
        <4>7. MergeInto(a, row).instances = a.instances \cup {k}
          BY <1>4, <4>1, MergedIs DEF IInv
        <4>8. new = MergeInto(a, row)
          BY <3>1
        <4> HIDE DEF a, new
        <4> QED
          BY <4>2, <4>6, <4>7, <4>8
      <3>2. CASE at \notin DOMAIN groups
        <4>1. new = row /\ Totals(row)
          BY <3>2, RowOfTotals
        <4>2. \A j \in Done : KeyAt(j) # at
          BY <1>6, <1>8, <3>2
        <4> QED
          BY <1>4, <4>1, <4>2
      <3> QED
        BY <3>1, <3>2
    <2>3. singles = {RowOf(j) : j \in {i \in Done \cup {k} : KeyAt(i) = NoGroup}}
      BY <1>6, <1>8
    <2> HIDE DEF new, row
    <2>4. /\ DOMAIN groups' = DOMAIN groups \cup {at} /\ groups'[at] = new
          /\ \A g \in DOMAIN groups \ {at} : groups'[g] = groups[g]
      BY <2>1
    <2>5. ASSUME NEW g \in DOMAIN groups'
          PROVE  /\ g # NoGroup /\ groups'[g].instances = {j \in Done \cup {k} : KeyAt(j) = g}
                 /\ Totals(groups'[g])
      <3>1. CASE g = at
        BY <1>8, <2>2, <2>4, <3>1
      <3>2. CASE g # at
        <4>1. g \in DOMAIN groups /\ groups'[g] = groups[g]
          BY <2>4, <3>2
        <4>2. {j \in Done \cup {k} : KeyAt(j) = g} = {j \in Done : KeyAt(j) = g}
          BY <3>2
        <4> QED
          BY <1>6, <4>1, <4>2
      <3> QED
        BY <3>1, <3>2
    <2>6. \A j \in Done \cup {k} : KeyAt(j) # NoGroup => KeyAt(j) \in DOMAIN groups'
      BY <1>6, <2>4
    <2>7. singles' = {RowOf(j)' : j \in {i \in Done' : KeyAt(i)' = NoGroup}}
      BY <1>3, <1>5, <2>1, <2>3
    <2>8. \A g \in DOMAIN groups' :
             /\ g # NoGroup /\ groups'[g].instances = {j \in Done' : KeyAt(j)' = g}
             /\ Totals(groups[g])'
      BY <1>3, <1>5, <2>5
    <2>9. \A j \in Done' : KeyAt(j)' # NoGroup => KeyAt(j)' \in DOMAIN groups'
      BY <1>3, <1>5, <2>6
    <2> HIDE DEF at
    <2> QED
      BY <2>7, <2>8, <2>9 DEF Grouped
  <1> QED
    BY <1>7, <1>8

LEMMA NothingToGroup ==
    ASSUME groups' = <<>>, singles' = {}, stage' # "build" => Done' = {}
    PROVE  Grouped'
  BY DEF Grouped

LEMMA NextGrouped == IInv /\ VInv /\ ReadOk /\ Grouped /\ [Next]_vars => Grouped'
  <1> SUFFICES ASSUME IInv, VInv, ReadOk, Grouped, [Next]_vars PROVE Grouped'
    OBVIOUS
  <1>1. CASE GroupContract
    BY <1>1, GroupGrouped
  <1>2. CASE TakeEntry \/ DecodeContract \/ BuildDone
    <2>1. groups' = <<>> /\ singles' = {}
      BY <1>2 DEF TakeEntry, DecodeContract, BuildDone, table, VInv, GroupOk
    <2>2. CASE TakeEntry \/ DecodeContract
      <3>1. stage' = "build"
        BY <2>2 DEF TakeEntry, DecodeContract
      <3> QED
        BY <2>1, <3>1, NothingToGroup
    <2>3. CASE BuildDone
      <3>1. gateways' = gateways /\ todo' = Hosted /\ stage' = "group"
        BY <2>3 DEF BuildDone, build
      <3>2. Hosted' = Hosted
        BY <3>1, SameGateways
      <3>3. Done' = {}
        BY <3>1, <3>2 DEF Done, Left
      <3> QED
        BY <2>1, <3>3, NothingToGroup
    <2> QED
      BY <1>2, <2>2, <2>3
  <1>3. CASE ListRows \/ SyncEffect \/ OnGraph \/ UNCHANGED vars
    <2>1. UNCHANGED <<todo, gateways, meta, groups, singles>>
      BY <1>3 DEF ListRows, SyncEffect, OnGraph, vars, viewVars, build, table
    <2>2. Hosted' = Hosted
      BY <2>1, SameGateways
    <2>3. Left' = Left /\ (stage' # "build" => stage # "build")
      <3>1. CASE ListRows
        BY <3>1 DEF ListRows, Left
      <3>2. CASE SyncEffect
        BY <3>2 DEF SyncEffect, Left
      <3>3. CASE OnGraph \/ UNCHANGED vars
        <4>1. stage' = stage
          BY <3>3 DEF OnGraph, vars, viewVars
        <4> QED
          BY <2>1, <4>1 DEF Left
      <3> QED
        BY <1>3, <3>1, <3>2, <3>3
    <2>4. Done' = Done
      BY <2>2, <2>3 DEF Done
    <2> QED
      BY <2>1, <2>3, <2>4, SameGrouped
  <1>4. CASE News \/ ResetKnown
    <2>1. groups' = <<>> /\ singles' = {} /\ stage' = "build"
      BY <1>4 DEF News, ResetKnown, StartRender
    <2> QED
      BY <2>1, NothingToGroup
  <1> QED
    BY <1>1, <1>2, <1>3, <1>4 DEF Next, Render, RenderNext

LEMMA InitGrouped == Init => Grouped
  BY DEF Init, RenderInit, Grouped

LEMMA ReadInductive == Spec => [](IInv /\ VInv /\ ReadOk /\ Grouped)
  <1>1. Init => IInv /\ VInv /\ ReadOk /\ Grouped
    BY InitInv, InitView, InitRead, InitGrouped
  <1>2. IInv /\ VInv /\ ReadOk /\ Grouped /\ [Next]_vars => IInv' /\ VInv' /\ ReadOk' /\ Grouped'
    BY NextInv, NextView, NextRead, NextGrouped
  <1> QED
    BY <1>1, <1>2, PTL DEF Spec

-----------------------------------------------------------------------------
(***************************************************************************)
(* When the list is made, every report has been read, and what a contract  *)
(* is known for is what was said of it.                                    *)
(***************************************************************************)
LEMMA AllHosted ==
    ASSUME VInv, Listed
    PROVE  Hosted = ReportedKeys /\ Done = Hosted /\ stage # "build"
  <1>1. \A p \in DOMAIN reported : \A k \in Keys : k \in ViewOf(p).contracts <=> p \in HostsOf(k)
    BY ViewIs
  <1>2. Gateways = {ViewOf(p) : p \in DOMAIN reported}
    BY ListedGateways
  <1>3. Hosted \subseteq Keys
    <2>1. \A k \in Hosted : \E row \in Rows : k \in row.instances
      BY ListedRows DEF Rows
    <2>2. \A row \in Rows : row.instances \subseteq Keys
      BY ListedRows, RowFields DEF RowIs
    <2> QED
      BY <2>1, <2>2
  <1>4. Hosted = ReportedKeys
    <2>1. \A k \in Hosted : k \in ReportedKeys
      BY <1>1, <1>2, <1>3 DEF Hosted, ReportedKeys
    <2>2. \A k \in ReportedKeys : k \in Hosted
      <3> SUFFICES ASSUME NEW k \in ReportedKeys PROVE k \in Hosted
        OBVIOUS
      <3>1. k \in Keys /\ \E p \in DOMAIN reported : p \in HostsOf(k)
        BY DEF ReportedKeys, HostsOf
      <3> QED
        BY <1>1, <1>2, <3>1 DEF Hosted
    <2> QED
      BY <2>1, <2>2
  <1>5. Left = {} /\ stage # "build"
    BY DEF Left, Listed
  <1> QED
    BY <1>4, <1>5 DEF Done

Speaks(p, i, k, y) ==
    /\ p \in DOMAIN reported /\ i \in DOMAIN reported[p].contracts
    /\ reported[p].contracts[i].key = k /\ y = Delivered(reported[p].contracts[i])

LEMMA SaidIs ==
    ASSUME NEW k, NEW y
    PROVE  y \in Said(k) <=> \E p, i : Speaks(p, i, k, y)
  <1>1. ASSUME y \in Said(k)
        PROVE  \E p, i : Speaks(p, i, k, y)
    <2>1. PICK p \in HostsOf(k) : \E x \in Range(reported[p].contracts) : x.key = k /\ y = Delivered(x)
      BY <1>1 DEF Said
    <2>2. p \in DOMAIN reported
      BY DEF HostsOf
    <2>3. PICK i \in DOMAIN reported[p].contracts :
             reported[p].contracts[i].key = k /\ y = Delivered(reported[p].contracts[i])
      BY <2>1 DEF Range
    <2> QED
      BY <2>2, <2>3 DEF Speaks
  <1>2. ASSUME NEW p, NEW i, Speaks(p, i, k, y)
        PROVE  y \in Said(k)
    <2> DEFINE x == reported[p].contracts[i]
    <2>1. p \in HostsOf(k)
      BY <1>2 DEF Speaks, HostsOf
    <2>2. x \in Range(reported[p].contracts) /\ x.key = k /\ y = Delivered(x)
      BY <1>2 DEF Speaks, Range
    <2> HIDE DEF x
    <2>3. x \in UNION {Range(reported[q].contracts) : q \in HostsOf(k)}
      BY <2>1, <2>2
    <2> QED
      BY <2>2, <2>3 DEF Said
  <1> QED
    BY <1>1, <1>2

LEMMA SaidIsHanded ==
    ASSUME VInv, Listed, NEW k \in Keys
    PROVE  About(k, Handed) = Said(k)
  <1>1. Handed = UNION {ReportsOf(p) : p \in DOMAIN reported}
    BY DEF Handed, Untaken, Listed
  <1>2. \A p \in DOMAIN reported : \A i \in DOMAIN reported[p].contracts :
           Delivered(reported[p].contracts[i]).key = reported[p].contracts[i].key
    <2> SUFFICES ASSUME NEW p \in DOMAIN reported, NEW i \in DOMAIN reported[p].contracts
                 PROVE  Delivered(reported[p].contracts[i]).key = reported[p].contracts[i].key
      OBVIOUS
    <2>1. reported[p] \in NodeReport
      BY DEF VInv, SourceOk, ReportsOk
    <2>2. reported[p].contracts[i] \in ContractReport
      BY <2>1, ReportFields
    <2> QED
      BY <2>2, DeliveredType
  <1>3. ASSUME NEW y
        PROVE  y \in About(k, Handed) <=> \E p, i : Speaks(p, i, k, y)
    <2>1. y \in Handed <=> \E p \in DOMAIN reported : y \in ReportsOf(p)
      BY <1>1
    <2>2. \A p : y \in ReportsOf(p) <=> \E i \in DOMAIN reported[p].contracts :
                                           y = Delivered(reported[p].contracts[i])
      BY DEF ReportsOf
    <2>3. y \in About(k, Handed) <=> y \in Handed /\ y.key = k
      BY DEF About
    <2> QED
      BY <1>2, <2>1, <2>2, <2>3 DEF Speaks
  <1>4. \A y : y \in Said(k) <=> \E p, i : Speaks(p, i, k, y)
    BY SaidIs
  <1>5. \A y : y \in About(k, Handed) <=> y \in Said(k)
    BY <1>3, <1>4
  <1> QED
    BY <1>5 DEF About

LEMMA AllRead ==
    ASSUME VInv, ReadOk, Listed, NEW k \in Keys
    PROVE  Sums(MetaOf(k), Said(k)) /\ Said(k) \subseteq Handed
  <1>1. rest = <<>>
    BY DEF ReadOk, Listed
  <1>2. Pending = {}
    BY <1>1 DEF Pending
  <1>3. PICK H : Gathers(H)
    BY DEF ReadOk
  <1>4. H = Handed
    BY <1>2, <1>3 DEF Gathers
  <1>5. Sums(MetaOf(k), About(k, Handed)) /\ About(k, Handed) \subseteq Handed
    BY <1>3, <1>4 DEF Gathers, About
  <1> QED
    BY <1>5, SaidIsHanded

(* If nobody contradicts anybody, the row of a contract says it all.       *)
LEMMA RowSays ==
    ASSUME VInv, ReadOk, Listed, Agreed, NEW k \in Keys
    PROVE  /\ SaidTitles(k) = Single(MetaOf(k).title, None)
           /\ SaidHashes(k) = Single(MetaOf(k).hash, NoHash)
           /\ IsApp(k) <=> MetaOf(k).web = "yes"
           /\ SaidWebs(k) \subseteq {"yes", "no"}
           /\ "no" \in SaidWebs(k) => MetaOf(k).web # "none"
           /\ SaidWebs(k) = {} /\ SaidHashes(k) = {} => MetaOf(k).web = "none"
  <1> DEFINE m == MetaOf(k)
             S == Said(k)
  <1>1. /\ Sums(m, S)
        /\ \A r \in S : (r.title # None => r.web = "yes") /\ r.web \in {"yes", "no", "none"}
    BY AllRead, HandedFields DEF ContractReport
  <1>3. /\ SaidTitles(k) = {r.title : r \in S} \ {None}
        /\ SaidHashes(k) = {r.hash : r \in S} \ {NoHash}
        /\ SaidWebs(k) = {r.web : r \in S} \ {"none"}
        /\ \A s, t \in SaidTitles(k) : s = t
        /\ \A g, h \in SaidHashes(k) : g = h
    BY DEF SaidTitles, SaidHashes, SaidWebs, Agreed
  <1> HIDE DEF m, S
  <1>4. SaidTitles(k) = Single(m.title, None)
    <2>1. /\ m.title = None \/ \E r \in S : m.title = r.title
          /\ m.title = None <=> \A r \in S : r.title = None
      BY <1>1 DEF Sums
    <2>2. \A t : t \in SaidTitles(k) <=> t # None /\ \E r \in S : t = r.title
      BY <1>3
    <2>3. \A s, t \in SaidTitles(k) : s = t
      BY <1>3
    <2>4. m.title = None => SaidTitles(k) = {}
      BY <2>1, <2>2
    <2>5. m.title # None => SaidTitles(k) = {m.title}
      BY <2>1, <2>2, <2>3
    <2> QED
      BY <2>4, <2>5 DEF Single
  <1>5. SaidHashes(k) = Single(m.hash, NoHash)
    <2>1. /\ m.hash = NoHash \/ \E r \in S : m.hash = r.hash
          /\ m.hash = NoHash <=> \A r \in S : r.hash = NoHash
      BY <1>1 DEF Sums
    <2>2. \A h : h \in SaidHashes(k) <=> h # NoHash /\ \E r \in S : h = r.hash
      BY <1>3
    <2>3. \A g, h \in SaidHashes(k) : g = h
      BY <1>3
    <2>4. m.hash = NoHash => SaidHashes(k) = {}
      BY <2>1, <2>2
    <2>5. m.hash # NoHash => SaidHashes(k) = {m.hash}
      BY <2>1, <2>2, <2>3
    <2> QED
      BY <2>4, <2>5 DEF Single
  <1>6. /\ IsApp(k) <=> m.web = "yes"
        /\ SaidWebs(k) \subseteq {"yes", "no"}
    BY <1>1, <1>3 DEF Sums, IsApp
  <1>7. "no" \in SaidWebs(k) => m.web # "none"
    BY <1>1, <1>3 DEF Sums, Says
  <1>8. ASSUME SaidWebs(k) = {}, SaidHashes(k) = {}
        PROVE  m.web = "none"
    <2>1. \A r \in S : r.web = "none" /\ r.hash = NoHash
      BY <1>3, <1>8
    <2>2. \A r \in S : r.title = None
      BY <1>1, <2>1
    <2> QED
      BY <1>1, <2>1, <2>2 DEF Sums, Says
  <1> QED
    BY <1>4, <1>5, <1>6, <1>7, <1>8 DEF m

(* And contracts are put in one group when they are the same app.          *)
LEMMA KeyAtIs ==
    ASSUME VInv, ReadOk, NEW k \in Keys
    PROVE  KeyAt(k) = IF MetaOf(k).web = "yes" /\ MetaOf(k).title # None
                      THEN [title |-> Lower(MetaOf(k).title), hash |-> NoHash]
                      ELSE IF MetaOf(k).hash # NoHash
                      THEN [title |-> None, hash |-> MetaOf(k).hash]
                      ELSE NoGroup
  <1>1. /\ RowOf(k).web = MetaOf(k).web /\ RowOf(k).title = MetaOf(k).title
        /\ RowOf(k).hashes = Single(MetaOf(k).hash, NoHash)
    BY RowOfFields
  <1>2. Trim(MetaOf(k).title) = MetaOf(k).title
    BY MetaTrimmed
  <1>3. \A h : (CHOOSE x \in {h} : TRUE) = h
    OBVIOUS
  <1> QED
    BY <1>1, <1>2, <1>3 DEF KeyAt, GroupKey, Single

LEMMA LowerIsNone ==
    ASSUME NEW t \in Text, t # None
    PROVE  Lower(t) # None
  <1>1. t \in Seq(Byte)
    BY TextIsBytes
  <1>2. DOMAIN t # {}
    <2> HIDE DEF Byte
    <2>1. Len(t) \in Nat /\ Len(t) # 0 /\ DOMAIN t = 1 .. Len(t)
      BY <1>1 DEF None
    <2> QED
      BY <2>1
  <1>3. DOMAIN Lower(t) = DOMAIN t
    BY DEF Lower
  <1>4. DOMAIN None = {}
    BY DEF None
  <1> QED
    BY <1>2, <1>3, <1>4

LEMMA GroupedTogether ==
    ASSUME VInv, ReadOk, Listed, Agreed, NEW j \in Keys, NEW k \in Keys
    PROVE  SameApp(j, k) <=> j = k \/ (KeyAt(j) = KeyAt(k) /\ KeyAt(j) # NoGroup)
  <1> DEFINE a == MetaOf(j)
             b == MetaOf(k)
             named(m) == m.web = "yes" /\ m.title # None
  <1>1. /\ SaidTitles(j) = Single(a.title, None) /\ SaidHashes(j) = Single(a.hash, NoHash)
        /\ IsApp(j) <=> a.web = "yes"
        /\ SaidTitles(k) = Single(b.title, None) /\ SaidHashes(k) = Single(b.hash, NoHash)
        /\ IsApp(k) <=> b.web = "yes"
    BY RowSays
  <1>2. a.title \in Text /\ b.title \in Text
    BY MetaFields DEF VInv
  <1>3. (a.title # None => Lower(a.title) # None) /\ (b.title # None => Lower(b.title) # None)
    BY <1>2, LowerIsNone
  <1>4. KeyAt(j) = IF named(a) THEN [title |-> Lower(a.title), hash |-> NoHash]
                   ELSE IF a.hash # NoHash THEN [title |-> None, hash |-> a.hash] ELSE NoGroup
    BY KeyAtIs
  <1>5. KeyAt(k) = IF named(b) THEN [title |-> Lower(b.title), hash |-> NoHash]
                   ELSE IF b.hash # NoHash THEN [title |-> None, hash |-> b.hash] ELSE NoGroup
    BY KeyAtIs
  <1>6. SameApp(j, k) <=>
           \/ j = k
           \/ /\ IsApp(j) /\ IsApp(k)
              /\ \E s \in SaidTitles(j), t \in SaidTitles(k) : Lower(s) = Lower(t)
           \/ /\ ~IsApp(j) \/ SaidTitles(j) = {}
              /\ ~IsApp(k) \/ SaidTitles(k) = {}
              /\ SaidHashes(j) \cap SaidHashes(k) # {}
    BY DEF SameApp
  <1> HIDE DEF a, b
  <1>7. SameApp(j, k) <=>
           \/ j = k
           \/ named(a) /\ named(b) /\ Lower(a.title) = Lower(b.title)
           \/ ~named(a) /\ ~named(b) /\ a.hash = b.hash /\ a.hash # NoHash
    BY <1>1, <1>6 DEF Single
  <1>8. \A s, t, g, h : [title |-> s, hash |-> g] = [title |-> t, hash |-> h] <=> s = t /\ g = h
    OBVIOUS
  <1>9. KeyAt(j) = KeyAt(k) /\ KeyAt(j) # NoGroup <=>
           \/ named(a) /\ named(b) /\ Lower(a.title) = Lower(b.title)
           \/ ~named(a) /\ ~named(b) /\ a.hash = b.hash /\ a.hash # NoHash
    BY <1>3, <1>4, <1>5, <1>8 DEF NoGroup
  <1> QED
    BY <1>7, <1>9

LEMMA ListedClasses ==
    ASSUME VInv, ReadOk, Grouped, Listed, Agreed
    PROVE  {row.instances : row \in Rows} = {{j \in ReportedKeys : SameApp(j, k)} : k \in ReportedKeys}
  <1> DEFINE class(k) == {j \in Done : SameApp(j, k)}
  <1>1. /\ Done = ReportedKeys /\ stage # "build" /\ Rows = AllRows
        /\ \A row \in Rows : row.instances # {} /\ row.instances \subseteq Done
    BY AllHosted, ListedRows DEF RowIs
  <1>2. Done \subseteq Keys
    BY <1>1 DEF ReportedKeys
  <1>3. /\ \A at \in DOMAIN groups : at # NoGroup /\ groups[at].instances = {j \in Done : KeyAt(j) = at}
        /\ singles = {RowOf(j) : j \in {i \in Done : KeyAt(i) = NoGroup}}
        /\ \A j \in Done : KeyAt(j) # NoGroup => KeyAt(j) \in DOMAIN groups
    BY <1>1 DEF Grouped
  <1>4. \A j, k \in Done : SameApp(j, k) <=> j = k \/ (KeyAt(j) = KeyAt(k) /\ KeyAt(j) # NoGroup)
    BY <1>2, GroupedTogether
  <1>5. ASSUME NEW k \in Done, KeyAt(k) = NoGroup
        PROVE  class(k) = {k}
    BY <1>4, <1>5
  <1>6. ASSUME NEW k \in Done, KeyAt(k) # NoGroup
        PROVE  class(k) = {j \in Done : KeyAt(j) = KeyAt(k)}
    BY <1>4, <1>6
  <1>7. \A k : RowOf(k).instances = {k}
    BY RowOfFields
  <1> HIDE DEF class
  <1>8. ASSUME NEW row \in Rows
        PROVE  \E k \in Done : row.instances = class(k)
    <2>1. CASE row \in singles
      <3>1. PICK k \in Done : KeyAt(k) = NoGroup /\ row = RowOf(k)
        BY <1>3, <2>1
      <3> QED
        BY <1>5, <1>7, <3>1
    <2>2. CASE \E at \in DOMAIN groups : row = groups[at]
      <3>1. PICK at \in DOMAIN groups : row = groups[at]
        BY <2>2
      <3>2. row.instances = {j \in Done : KeyAt(j) = at} /\ at # NoGroup
        BY <1>3, <3>1
      <3>3. PICK k \in Done : KeyAt(k) = at
        BY <1>1, <3>2
      <3> QED
        BY <1>6, <3>2, <3>3
    <2> QED
      BY <1>1, <2>1, <2>2 DEF AllRows
  <1>9. ASSUME NEW k \in Done
        PROVE  \E row \in Rows : row.instances = class(k)
    <2>1. CASE KeyAt(k) = NoGroup
      <3>1. RowOf(k) \in Rows
        BY <1>1, <1>3, <2>1 DEF AllRows
      <3> QED
        BY <1>5, <1>7, <2>1, <3>1
    <2>2. CASE KeyAt(k) # NoGroup
      <3>1. groups[KeyAt(k)] \in Rows
        BY <1>1, <1>3, <2>2 DEF AllRows
      <3>2. groups[KeyAt(k)].instances = class(k)
        BY <1>3, <1>6, <2>2
      <3> QED
        BY <3>1, <3>2
    <2> QED
      BY <2>1, <2>2
  <1>10. {row.instances : row \in Rows} = {class(k) : k \in Done}
    BY <1>8, <1>9
  <1> QED
    BY <1>1, <1>10 DEF class

LEMMA ListedContents ==
    ASSUME VInv, ReadOk, Grouped, Listed, Agreed, NEW row \in Rows
    PROVE  LET titles == UNION {SaidTitles(k) : k \in row.instances}
               webs == UNION {SaidWebs(k) : k \in row.instances}
           IN  /\ row.variants = titles
               /\ IF titles = {} THEN row.title = None ELSE row.title \in titles
               /\ row.hashes = UNION {SaidHashes(k) : k \in row.instances}
               /\ row.web = "yes" <=> "yes" \in webs
               /\ webs = {"no"} => row.web = "no"
               /\ webs = {} /\ row.hashes = {} => row.web = "none"
  <1> DEFINE I == row.instances
  <1>1. Totals(row)
    <2>1. row \in AllRows /\ stage # "build"
      BY AllHosted, ListedRows
    <2>2. CASE row \in singles
      BY <2>1, <2>2, RowOfTotals DEF Grouped
    <2>3. CASE row \notin singles
      BY <2>1, <2>3 DEF Grouped, AllRows
    <2> QED
      BY <2>2, <2>3
  <1>2. row \in RowSet /\ row.web \in {"yes", "no", "none"} /\ I \subseteq Keys
    BY ListedRows, RowFields DEF RowIs, RowSet
  <1>3. \A k \in I : /\ RowOf(k).variants = SaidTitles(k) /\ RowOf(k).hashes = SaidHashes(k)
                     /\ RowOf(k).web = "yes" <=> "yes" \in SaidWebs(k)
                     /\ "no" \in SaidWebs(k) => RowOf(k).web # "none"
                     /\ SaidWebs(k) = {} /\ SaidHashes(k) = {} => RowOf(k).web = "none"
    BY <1>2, RowSays, RowOfFields DEF IsApp
  <1>4. /\ row.variants = UNION {RowOf(k).variants : k \in I}
        /\ row.hashes = UNION {RowOf(k).hashes : k \in I}
        /\ row.title = None <=> row.variants = {}
        /\ row.title # None => row.title \in row.variants
        /\ row.web = "yes" <=> \E k \in I : RowOf(k).web = "yes"
        /\ row.web = "none" <=> \A k \in I : RowOf(k).web = "none"
    BY <1>1 DEF Totals, Variants, Codes
  <1> HIDE DEF I
  <1>5. /\ row.variants = UNION {SaidTitles(k) : k \in I}
        /\ row.hashes = UNION {SaidHashes(k) : k \in I}
    BY <1>3, <1>4
  <1> DEFINE webs == UNION {SaidWebs(k) : k \in I}
  <1>6. /\ row.web = "yes" <=> "yes" \in webs
        /\ webs = {"no"} => row.web = "no"
        /\ webs = {} /\ row.hashes = {} => row.web = "none"
    <2>1. \A x : x \in webs <=> \E k \in I : x \in SaidWebs(k)
      OBVIOUS
    <2>2. webs = {} /\ row.hashes = {} => \A k \in I : SaidWebs(k) = {} /\ SaidHashes(k) = {}
      BY <1>5
    <2> HIDE DEF webs
    <2>3. row.web = "yes" <=> "yes" \in webs
      BY <1>3, <1>4, <2>1
    <2>4. webs = {"no"} => row.web # "yes" /\ row.web # "none"
      BY <1>3, <1>4, <2>1, <2>3
    <2>5. webs = {} /\ row.hashes = {} => row.web = "none"
      BY <1>3, <1>4, <2>2
    <2> QED
      BY <1>2, <2>3, <2>4, <2>5
  <1>7. IF row.variants = {} THEN row.title = None ELSE row.title \in row.variants
    BY <1>4
  <1> QED
    BY <1>5, <1>6, <1>7 DEF I

(***************************************************************************)
(* Whatever publishers that agree report, and in whatever order the two    *)
(* loops take it: the list has the apps they reported, by the grouping of  *)
(* the README, with their titles and hashes, and the verdict of whoever    *)
(* had one.  A contract without a verdict but with a hash is left open:    *)
(* the code calls it data, where the documentation says unknown.           *)
(***************************************************************************)
THEOREM ListShowsReports == Spec => []ListIsReported
  <1>1. ASSUME IInv, VInv, ReadOk, Grouped
        PROVE  ListIsReported
    <2> SUFFICES ASSUME Listed, Agreed
                 PROVE  ListIsReported
      BY DEF ListIsReported
    <2>1. {row.instances : row \in Rows} = {{j \in ReportedKeys : SameApp(j, k)} : k \in ReportedKeys}
      BY <1>1, ListedClasses
    <2>2. ASSUME NEW row \in Rows
          PROVE  LET titles == UNION {SaidTitles(k) : k \in row.instances}
                     webs == UNION {SaidWebs(k) : k \in row.instances}
                 IN  /\ row.variants = titles
                     /\ IF titles = {} THEN row.title = None ELSE row.title \in titles
                     /\ row.hashes = UNION {SaidHashes(k) : k \in row.instances}
                     /\ row.web = "yes" <=> "yes" \in webs
                     /\ webs = {"no"} => row.web = "no"
                     /\ webs = {} /\ row.hashes = {} => row.web = "none"
      BY <1>1, ListedContents
    <2> QED
      BY <2>1, <2>2 DEF ListIsReported
  <1> QED
    BY <1>1, ReadInductive, PTL

-----------------------------------------------------------------------------
(***************************************************************************)
(* The page is in a state the code can make sense of: no node without a    *)
(* label, none public that is no gateway, no row without an instance.      *)
(***************************************************************************)
THEOREM TypeCorrect == Spec => []TypeOK
  <1>1. ASSUME IInv, VInv
        PROVE  TypeOK
    <2>1. stage \in Stages /\ DOMAIN remote \subseteq Publishers
      BY <1>1 DEF IInv, InputOk, VInv, BuildOk
    <2>2. todo \subseteq Publishers \cup Keys
      <3>1. \A g \in Gateways : g \in GatewaySet
        BY <1>1, GatewayList DEF IInv, Gateways
      <3>2. Hosted \subseteq Keys
        BY <3>1 DEF Hosted, GatewaySet
      <3>3. CASE stage = "build"
        BY <1>1, <2>1, <3>3 DEF IInv, InputOk
      <3>4. CASE stage # "build"
        BY <1>1, <2>1, <3>2, <3>4 DEF VInv, GroupOk, Stages
      <3> QED
        BY <3>3, <3>4
    <2>3. DOMAIN meta \subseteq Keys /\ \A k \in DOMAIN meta : meta[k] \in MetaSet
      BY <1>1 DEF VInv, BuildOk
    <2>4. \A k \in DOMAIN meta :
             /\ meta[k].web \in {"yes", "no"} /\ meta[k].title \in Text
             /\ meta[k].hash \in Hashes \cup {NoHash} /\ meta[k].probed \in Nat
      BY <2>3 DEF MetaSet
    <2>5. \A i \in DOMAIN rows : rows[i].instances # {} /\ rows[i].instances \subseteq Keys
      <3>1. CASE Listed
        <4> SUFFICES ASSUME NEW i \in DOMAIN rows
                     PROVE  rows[i].instances # {} /\ rows[i].instances \subseteq Keys
          OBVIOUS
        <4>1. RowIs(rows[i])
          BY <1>1, <3>1, ListedRows DEF Rows
        <4> QED
          BY <4>1, RowFields DEF RowIs
      <3>2. CASE ~Listed
        BY <1>1, <3>2 DEF Listed, VInv, ListOk
      <3> QED
        BY <3>1, <3>2
    <2>6. nodes \in NodeMaps /\ edges \subseteq SUBSET Ids /\ shown \subseteq Ids
          /\ panning \in BOOLEAN /\ button \in BOOLEAN
      BY <1>1 DEF IInv, GraphOk
    <2>7. /\ DOMAIN nodes \subseteq Ids
          /\ \A id \in DOMAIN nodes :
                /\ nodes[id].label # <<>>
                /\ nodes[id].at \in Cursors \cup Spots \cup {Seed}
                /\ nodes[id].isPublic => nodes[id].isGateway
      BY <2>6, MapFields, NodeFields DEF Labels, Places
    <2>8. pinned = NoPin \/ (pinned.id \in Ids /\ pinned.cursor \in Cursors)
      BY <1>1 DEF IInv, GraphOk, PinSet
    <2> QED
      BY <2>1, <2>2, <2>3, <2>4, <2>5, <2>6, <2>7, <2>8 DEF TypeOK
  <1> QED
    BY <1>1, ViewInductive, PTL
=============================================================================
