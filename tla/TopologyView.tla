---------------------------- MODULE TopologyView ----------------------------
(***************************************************************************)
(* What the dashboard makes of the verified entries it holds               *)
(* (frontend/src/main.rs): build_topology, flat_contracts with merge_into, *)
(* flat_nodes, compute_highlight_set, the filters of the contract list and *)
(* the lookups of the drill-down.                                          *)
(*                                                                         *)
(* Both aggregations iterate a HashMap, whose order is random and, for the *)
(* map of contracts, another one in every render.  So each step of a loop  *)
(* takes any element that is left.  Locations, colours and the "ago"       *)
(* strings, which this data source never has, are left out.                *)
(***************************************************************************)
EXTENDS EntryCodec, FiniteSets

CONSTANTS
    Publishers,         \* public keys; their first 8 hex digits differ
    Keys,               \* contract instance ids, as text
    Hashes,             \* code hashes
    Addresses,          \* host:port
    NoAddress,          \* a payload's external_address is empty
    NoPublisher

ASSUME ViewAssumption ==
    /\ NoPublisher \notin Publishers /\ NoAddress \notin Addresses /\ NoHash \notin Hashes
    /\ Keys \subseteq Seq(0 .. 255)

VARIABLES
    remote,             \* remote_entries: the newest verified payload of each publisher
    known,              \* settings.known_nodes
    stage,              \* where the render is
    todo,               \* entries or contracts the loop has not taken
    rest,               \* contracts of the entry being taken
    gateways,           \* Topology.gateways
    meta,               \* Topology.contract_meta
    groups, singles,    \* rows of flat_contracts: by group key, and the others
    rows                \* flat_contracts' result

input == <<remote, known>>
build == <<gateways, meta>>
table == <<groups, singles, rows>>
viewVars == <<input, stage, todo, rest, build, table>>

Stages == {"build", "group", "listed", "synced"}

-----------------------------------------------------------------------------
(***************************************************************************)
(* Names.  A gateway is called by its operator's display name or by its    *)
(* public key, and known by its address or else by its name.               *)
(***************************************************************************)
Label(p, e) == [name |-> Trim(e.name), publisher |-> p]

NoLabel == [name |-> None, publisher |-> NoPublisher]

Addressed(a) == [address |-> a, label |-> NoLabel]

GatewayId(g) ==
    IF g.address = NoAddress THEN [address |-> NoAddress, label |-> g.label]
    ELSE Addressed(g.address)

GatewayView(p, e) ==
    [label |-> Label(p, e), address |-> e.address, peers |-> e.neighbors,
     contracts |-> {e.contracts[i].key : i \in DOMAIN e.contracts}, seen |-> e.time]

(***************************************************************************)
(* build_topology: contract_meta gathers what entries say of a contract.   *)
(* Any webapp verdict wins; the first title and the first hash stay.  A    *)
(* contract of which only the hash is known is entered as no webapp.       *)
(***************************************************************************)
NoMeta == [web |-> "none", title |-> None, hash |-> NoHash, probed |-> 0]

MetaOf(k) == IF k \in DOMAIN meta THEN meta[k] ELSE NoMeta

Says(r) == r.web # "none" \/ r.title # None \/ r.hash # NoHash

Noted(r, time) ==
    LET m == MetaOf(r.key)
    IN  [web |-> IF r.web = "yes" \/ m.web = "yes" THEN "yes" ELSE "no",
         title |-> IF m.title = None THEN r.title ELSE m.title,
         hash |-> IF m.hash = NoHash THEN r.hash ELSE m.hash,
         probed |-> IF time > m.probed THEN time ELSE m.probed]

TakeEntry ==
    /\ stage = "build" /\ rest = <<>>
    /\ \E p \in todo :
          /\ todo' = todo \ {p}
          /\ gateways' = Append(gateways, GatewayView(p, remote[p]))
          /\ rest' = remote[p].contracts
    /\ UNCHANGED <<input, stage, meta, table>>

DecodeContract ==
    /\ stage = "build" /\ rest # <<>>
    /\ LET r == Decode(Head(rest))
           time == gateways[Len(gateways)].seen
       IN  meta' = IF Says(r)
                   THEN [k \in DOMAIN meta \cup {r.key} |->
                            IF k = r.key THEN Noted(r, time) ELSE meta[k]]
                   ELSE meta
    /\ rest' = Tail(rest)
    /\ UNCHANGED <<input, stage, todo, gateways, table>>

Gateways == {gateways[i] : i \in DOMAIN gateways}

Hosted == UNION {g.contracts : g \in Gateways}

BuildDone ==
    /\ stage = "build" /\ todo = {} /\ rest = <<>>
    /\ stage' = "group"
    /\ todo' = Hosted
    /\ UNCHANGED <<input, rest, build, table>>

-----------------------------------------------------------------------------
(***************************************************************************)
(* flat_contracts: one row for each contract, then rows of the same app    *)
(* are merged.                                                             *)
(***************************************************************************)
Hosts(k) == {g \in Gateways : k \in g.contracts}

Single(x, none) == IF x = none THEN {} ELSE {x}

RowOf(k) ==
    [instances |-> {k},
     seenBy    |-> {g.label : g \in Hosts(k)},
     web       |-> MetaOf(k).web,
     title     |-> MetaOf(k).title,
     variants  |-> Single(MetaOf(k).title, None),
     hashes    |-> Single(MetaOf(k).hash, NoHash),
     seen      |-> Max({g.seen : g \in Hosts(k)})]

(* By title for webapps that have one, else by code hash; a webapp whose   *)
(* title is blank, and a contract with neither, stays alone.               *)
NoGroup == [title |-> None, hash |-> NoHash]

GroupKey(row) ==
    IF row.web = "yes" /\ row.title # None
    THEN [title |-> Lower(Trim(row.title)), hash |-> NoHash]
    ELSE IF row.hashes # {} THEN [title |-> None, hash |-> CHOOSE h \in row.hashes : TRUE]
    ELSE NoGroup

MergeInto(dst, src) ==
    [dst EXCEPT !.instances = @ \cup src.instances,
                !.seenBy = @ \cup src.seenBy,
                !.variants = @ \cup {t \in src.variants : Trim(t) # None},
                !.title = IF @ = None THEN src.title ELSE @,
                !.web = IF @ = "yes" THEN @ ELSE src.web,
                !.hashes = @ \cup src.hashes,
                !.seen = Max({@, src.seen})]

GroupContract ==
    /\ stage = "group"
    /\ \E k \in todo :
          LET row == RowOf(k)
              at == GroupKey(row)
          IN  /\ todo' = todo \ {k}
              /\ IF at = NoGroup
                 THEN singles' = singles \cup {row} /\ UNCHANGED groups
                 ELSE /\ groups' = [g \in DOMAIN groups \cup {at} |->
                                       IF g # at THEN groups[g]
                                       ELSE IF at \in DOMAIN groups
                                            THEN MergeInto(groups[at], row) ELSE row]
                      /\ UNCHANGED singles
    /\ UNCHANGED <<input, stage, rest, build, rows>>

(* A row goes by its least instance. *)
KeyOf(row) == CHOOSE k \in row.instances :
                 \A other \in row.instances \ {k} : TextBefore(k, other)

Bucket(row) == CASE row.web = "yes" -> 0 [] row.web = "none" -> 1 [] OTHER -> 2

Name(row) == Lower(IF row.title = None THEN KeyOf(row) ELSE row.title)

(* The default order: by kind, name and key.                               *)
Before(a, b) ==
    \/ Bucket(a) < Bucket(b)
    \/ Bucket(a) = Bucket(b) /\ TextBefore(Name(a), Name(b))
    \/ Bucket(a) = Bucket(b) /\ Name(a) = Name(b) /\ TextBefore(KeyOf(a), KeyOf(b))

(* sort_contracts: the orders the user may choose instead, most first where  *)
(* they count something.  Every one ends with the key.                     *)
Axes == {"kind", "subscribers", "instances", "update", "name"}

Rank(axis, row) ==
    CASE axis = "subscribers" -> -Cardinality(row.seenBy)
      [] axis = "instances" -> -Cardinality(row.instances)
      [] axis = "update" -> -row.seen
      [] OTHER -> 0

(* Mutated: without the key. *)
LessByName(axis, a, b) ==
    IF axis = "kind" THEN Before(a, b)
    ELSE \/ Rank(axis, a) < Rank(axis, b)
         \/ Rank(axis, a) = Rank(axis, b) /\ axis # "update" /\ TextBefore(Name(a), Name(b))

Less(axis, a, b) ==
    IF axis = "kind" THEN Before(a, b)
    ELSE \/ Rank(axis, a) < Rank(axis, b)
         \/ /\ Rank(axis, a) = Rank(axis, b)
            /\ IF axis # "update" /\ Name(a) # Name(b)
               THEN TextBefore(Name(a), Name(b)) ELSE TextBefore(KeyOf(a), KeyOf(b))

AllRows == {groups[g] : g \in DOMAIN groups} \cup singles

(* What sort_by may make of rows that come in any order.                   *)
Listings(S) ==
    {list \in Bijection(1 .. Cardinality(S), S) :
        \A i, j \in DOMAIN list : i < j => ~Before(list[j], list[i])}

ListRows ==
    /\ stage = "group" /\ todo = {}
    /\ stage' = "listed"
    /\ rows' \in Listings(AllRows)
    /\ UNCHANGED <<input, todo, rest, build, groups, singles>>

RenderNext ==
    TakeEntry \/ DecodeContract \/ BuildDone \/ GroupContract \/ ListRows

(***************************************************************************)
(* A render of App starts over from the entries and settings it is given.  *)
(***************************************************************************)
StartRender(entries, nodes) ==
    /\ stage' = "build"
    /\ remote' = entries /\ known' = nodes
    /\ todo' = DOMAIN entries
    /\ rest' = <<>> /\ gateways' = <<>> /\ meta' = <<>>
    /\ groups' = <<>> /\ singles' = {} /\ rows' = <<>>

RenderInit(entries, nodes) ==
    /\ stage = "build"
    /\ remote = entries /\ known = nodes
    /\ todo = DOMAIN entries
    /\ rest = <<>> /\ gateways = <<>> /\ meta = <<>>
    /\ groups = <<>> /\ singles = {} /\ rows = <<>>

-----------------------------------------------------------------------------
(***************************************************************************)
(* flat_nodes: the list of nodes, one for each address.                    *)
(***************************************************************************)
PeerIds(g) == {Addressed(g.peers[i].address) : i \in DOMAIN g.peers}

KnownIds == {Addressed(known[i].address) : i \in DOMAIN known}

NodeIds == {GatewayId(g) : g \in Gateways} \cup KnownIds \cup UNION {PeerIds(g) : g \in Gateways}

FlatNode(id) ==
    LET here == {g \in Gateways : GatewayId(g) = id}
    IN  [isGateway |-> \/ here # {} \/ id \in KnownIds
                       \/ \E g \in Gateways : \E i \in DOMAIN g.peers :
                             Addressed(g.peers[i].address) = id /\ g.peers[i].isGateway,
         seenBy    |-> {g.label : g \in {h \in Gateways : id \in PeerIds(h)}},
         seen      |-> Max({0} \cup {g.seen : g \in here})]

(***************************************************************************)
(* compute_highlight_set, for a contract and for a node.                   *)
(***************************************************************************)
(* Mutated: the gateway's name as its node, also when it has an address.   *)
HighlightContractByName(k) == {[address |-> NoAddress, label |-> g.label] : g \in Hosts(k)}

HighlightContract(k) == {GatewayId(g) : g \in Hosts(k)}

HighlightNode(id) ==
    LET own == {g \in Gateways : GatewayId(g) = id}
        seers == {g \in Gateways : id \in PeerIds(g)}
    IN  IF own \cup seers = {} THEN {}
        ELSE {id} \cup {GatewayId(g) : g \in seers} \cup UNION {PeerIds(g) : g \in own}

(***************************************************************************)
(* render_contracts_list: the facets and the filter by publisher; and the  *)
(* name of a publisher as the drill-down puts it together for that filter. *)
(***************************************************************************)
Passes(row, kind, instance, subscribers, publisher) ==
    /\ kind = "any" \/ row.web = kind
    /\ instance = "multi" => Cardinality(row.instances) > 1
    /\ instance = "solo" => Cardinality(row.instances) = 1
    /\ Cardinality(row.seenBy) >= subscribers
    /\ publisher # NoLabel => publisher \in row.seenBy

(* Mutated: the name as the lookup of the drill-down writes it. *)
FilterLabelSynthetic(p) == [name |-> None, publisher |-> p]

FilterLabel(p) == [name |-> Trim(remote[p].name), publisher |-> p]

(* find_remote_entry_for_selection: the entries it may find.  It writes    *)
(* the name of a publisher without address as if it had no display name.   *)
FindsEntry(p, id) ==
    id = IF remote[p].address = NoAddress
         THEN [address |-> NoAddress, label |-> [name |-> None, publisher |-> p]]
         ELSE Addressed(remote[p].address)
=============================================================================
