-------------------------------- MODULE Page --------------------------------
(***************************************************************************)
(* The page as a whole: publishers encode what their daemons found, App    *)
(* renders the lists from whatever entries it holds, the graph is synced   *)
(* with the same topology, and the mouse acts on the graph in between.     *)
(*                                                                         *)
(* Which entries replace which is the matter of Dashboard; here any of     *)
(* EntryPool may follow any other, as a publisher may be missing, come     *)
(* back, or be shown by an older entry.  The browser runs one callback at  *)
(* a time, so the mouse does nothing during a render.                      *)
(***************************************************************************)
EXTENDS Layout

CONSTANTS
    EntryPool,          \* what publishers may report: sets of payloads, by publisher
    KnownPool,          \* lists of known nodes the settings may be loaded with
    DefaultKnown,       \* default_known_nodes()
    MaxRenders          \* bound on the renders after the first

Text == Seq(0 .. 255)

Title == {t \in Text : IsUtf8(t)}

PeerReport == [address : Addresses, isGateway : BOOLEAN]

KnownNode == [name : Text, address : Addresses]

ContractReport ==
    [key : Keys, web : {"yes", "no", "none"}, title : Title, hash : Hashes \cup {NoHash}]

NodeReport ==
    [name : Text, address : Addresses \cup {NoAddress}, time : Nat,
     neighbors : Seq(PeerReport), contracts : Seq(ContractReport), dialect : {"own", "foreign"}]

ASSUME PoolAssumption ==
    /\ \A entries \in EntryPool :
          DOMAIN entries \subseteq Publishers /\ \A p \in DOMAIN entries : entries[p] \in NodeReport
    /\ KnownPool \subseteq Seq(KnownNode) /\ DefaultKnown \in Seq(KnownNode)

VARIABLES
    reported,           \* history: the reports behind remote
    renders

vars == <<viewVars, layoutVars, reported, renders>>

-----------------------------------------------------------------------------
(***************************************************************************)
(* build_payload encodes each report.  A daemon of another version may     *)
(* order segments differently and send ones this dashboard does not know.  *)
(***************************************************************************)
Dialect(d, raw) ==
    IF d = "foreign"
    THEN [raw EXCEPT !.segments = <<Segment("x", None, NoHash)>> \o Reverse(@)]
    ELSE raw

Published(entries) ==
    [p \in DOMAIN entries |->
        [entries[p] EXCEPT !.contracts =
            [i \in DOMAIN @ |-> Dialect(entries[p].dialect, Encode(@[i]))]]]

Init ==
    /\ \E nodeList \in KnownPool : RenderInit(<<>>, nodeList)
    /\ LayoutInit
    /\ reported = <<>>
    /\ renders = 0

(* A render, and the effect that syncs the graph with its topology.        *)
Render == stage \in {"build", "group"} /\ RenderNext /\ UNCHANGED <<layoutVars, reported, renders>>

SyncEffect ==
    /\ stage = "listed"
    /\ Sync
    /\ stage' = "synced"
    /\ UNCHANGED <<input, todo, rest, build, table, reported, renders>>

(* What makes App render a new topology: entries, or the list of known     *)
(* nodes, which only a reset of the settings changes.                      *)
News ==
    /\ stage = "synced" /\ renders < MaxRenders
    /\ \E entries \in EntryPool :
          /\ entries # reported
          /\ StartRender(Published(entries), known)
          /\ reported' = entries
    /\ renders' = renders + 1
    /\ UNCHANGED layoutVars

ResetKnown ==
    /\ stage = "synced" /\ renders < MaxRenders
    /\ known # DefaultKnown
    /\ StartRender(remote, DefaultKnown)
    /\ renders' = renders + 1
    /\ UNCHANGED <<layoutVars, reported>>

OnGraph == stage = "synced" /\ (Tick \/ Gesture) /\ UNCHANGED <<viewVars, reported, renders>>

Next == Render \/ SyncEffect \/ News \/ ResetKnown \/ OnGraph

Spec == Init /\ [][Next]_vars

-----------------------------------------------------------------------------
Ids == [address : Addresses \cup {NoAddress},
        label : [name : Text, publisher : Publishers \cup {NoPublisher}]]

TypeOK ==
    /\ stage \in Stages
    /\ DOMAIN remote \subseteq Publishers
    /\ todo \subseteq Publishers \cup Keys
    /\ DOMAIN meta \subseteq Keys
    /\ \A k \in DOMAIN meta :
          /\ meta[k].web \in {"yes", "no"} /\ meta[k].title \in Text
          /\ meta[k].hash \in Hashes \cup {NoHash} /\ meta[k].probed \in Nat
    /\ \A i \in DOMAIN rows : rows[i].instances # {} /\ rows[i].instances \subseteq Keys
    /\ DOMAIN nodes \subseteq Ids
    /\ \A id \in DOMAIN nodes :
          /\ nodes[id].label # <<>>
          /\ nodes[id].at \in Cursors \cup Spots \cup {Seed}
          /\ nodes[id].isPublic => nodes[id].isGateway
    /\ edges \subseteq SUBSET Ids
    /\ pinned = NoPin \/ (pinned.id \in Ids /\ pinned.cursor \in Cursors)
    /\ panning \in BOOLEAN /\ button \in BOOLEAN
    /\ shown \subseteq Ids

-----------------------------------------------------------------------------
Listed == stage \in {"listed", "synced"}

Rows == {rows[i] : i \in DOMAIN rows}

HostsOf(k) ==
    {p \in DOMAIN reported : \E i \in DOMAIN reported[p].contracts :
                                reported[p].contracts[i].key = k}

ReportedKeys == {k \in Keys : HostsOf(k) # {}}

(* What the publishers say of a contract, put together without an order.   *)
Said(k) ==
    {Delivered(r) : r \in {x \in UNION {Range(reported[p].contracts) : p \in HostsOf(k)} :
                              x.key = k}}

SaidTitles(k) == {r.title : r \in Said(k)} \ {None}
SaidHashes(k) == {r.hash : r \in Said(k)} \ {NoHash}

(* The verdicts of the publishers who have one.                            *)
SaidWebs(k) == {r.web : r \in Said(k)} \ {"none"}

IsApp(k) == "yes" \in SaidWebs(k)

Agreed ==
    \A k \in Keys : /\ \A s, t \in SaidTitles(k) : s = t
                   /\ \A g, h \in SaidHashes(k) : g = h

SameApp(j, k) ==
    \/ j = k
    \/ /\ IsApp(j) /\ IsApp(k)
       /\ \E s \in SaidTitles(j), t \in SaidTitles(k) : Lower(s) = Lower(t)
    \/ /\ \A i \in {j, k} : ~IsApp(i) \/ SaidTitles(i) = {}
       /\ SaidHashes(j) \cap SaidHashes(k) # {}

(***************************************************************************)
(* The list shows what the publishers reported, through the encoding, the  *)
(* decoding and two loops over hash maps: if they do not contradict each   *)
(* other, the rows are the classes of SameApp ("title (lowercased) ->      *)
(* code_hash -> key", topology-publisher/README.md:287-288), each has the  *)
(* titles and hashes of its contracts, and the verdict on a row is theirs  *)
(* if anybody had one, in whatever order it was read.  Contracts of which  *)
(* only the hash was said are left open: the code lists them as data,      *)
(* although None is "unknown" (main.rs:307-308 of the publisher).          *)
(***************************************************************************)
ListIsReported ==
    Listed /\ Agreed =>
        /\ {row.instances : row \in Rows} = {{j \in ReportedKeys : SameApp(j, k)} : k \in ReportedKeys}
        /\ \A row \in Rows :
              LET titles == UNION {SaidTitles(k) : k \in row.instances}
              IN  /\ row.variants = titles
                  /\ IF titles = {} THEN row.title = None ELSE row.title \in titles
                  /\ row.hashes = UNION {SaidHashes(k) : k \in row.instances}
                  /\ LET webs == UNION {SaidWebs(k) : k \in row.instances}
                     IN  /\ row.web = "yes" <=> "yes" \in webs
                         /\ webs = {"no"} => row.web = "no"
                         /\ webs = {} /\ row.hashes = {} => row.web = "none"

(***************************************************************************)
(* Also when publishers contradict each other, nothing is lost or counted  *)
(* twice by merging rows: each contract is in one row, a row names exactly *)
(* the publishers of its contracts and the time of the newest, and every   *)
(* sort of the list puts any two rows in one order ("breaks every tie      *)
(* deterministically", the comment in sort_contracts says).                *)
(***************************************************************************)
RowsAccount ==
    Listed =>
        /\ \A k \in ReportedKeys : Cardinality({i \in DOMAIN rows : k \in rows[i].instances}) = 1
        /\ \A row \in Rows :
              LET from == UNION {HostsOf(k) : k \in row.instances}
              IN  /\ row.seenBy = {FilterLabel(p) : p \in from}
                  /\ row.seen = Max({reported[p].time : p \in from})
        /\ \A i, j \in DOMAIN rows : \A axis \in Axes :
              i < j => (Less(axis, rows[i], rows[j]) <=> ~Less(axis, rows[j], rows[i]))

(***************************************************************************)
(* Picking a row lights up nodes that are on the graph, each of which is a *)
(* publisher of that row (not all of them, as main.rs:724-727 has it: only *)
(* those of the canonical instance); picking a node lights up it and its   *)
(* neighbours along the edges the graph draws.                             *)
(***************************************************************************)
RowHighlights ==
    stage = "synced" =>
        /\ \A row \in Rows :
              LET lit == HighlightContract(KeyOf(row))
              IN  /\ lit # {}
                  /\ lit \subseteq DOMAIN nodes
                  /\ \A id \in lit : \E g \in Gateways :
                        GatewayId(g) = id /\ g.label \in row.seenBy
        /\ \A id \in DOMAIN nodes :
              HighlightNode(id) \ {id} = {j \in DOMAIN nodes \ {id} : {id, j} \in edges}

(***************************************************************************)
(* The drill-down of a node, if it opens (that of a publisher with a name  *)
(* and no address does not), opens on an entry of that node, and the       *)
(* filter it sets shows the contracts that entry's publisher hosts, all of *)
(* them and nothing else, together with the other facets.                  *)
(***************************************************************************)
FilterIsHosted ==
    Listed =>
        \A p \in DOMAIN remote :
            /\ \A g \in Gateways :
                  FindsEntry(p, GatewayId(g)) =>
                      \E h \in Gateways : h.label.publisher = p /\ GatewayId(h) = GatewayId(g)
            /\ \A n \in 1 .. 2, instance \in {"any", "solo", "multi"} :
                  {row \in Rows : Passes(row, "any", instance, n, FilterLabel(p))} =
                  {row \in Rows :
                      /\ \E k \in row.instances : p \in HostsOf(k)
                      /\ Cardinality(UNION {HostsOf(k) : k \in row.instances}) >= n
                      /\ instance # "any" =>
                            (instance = "solo" <=> \A k \in row.instances : row.instances = {k})}

-----------------------------------------------------------------------------
(***************************************************************************)
(* The graph, which survives renders, shows the same nodes as the list,    *)
(* which is made anew: none is missing, none left over, edges have both    *)
(* ends, and a node is no less a gateway and no older than the list says.  *)
(***************************************************************************)
GraphMatchesList ==
    stage = "synced" =>
        /\ DOMAIN nodes = NodeIds
        /\ \A e \in edges : e \subseteq DOMAIN nodes
        /\ \A id \in DOMAIN nodes :
              /\ FlatNode(id).isGateway => nodes[id].isGateway
              /\ FlatNode(id).seen <= nodes[id].seen

(***************************************************************************)
(* sync appends gateways' names to a label and replaces one that lacks the *)
(* name of a known node, but labels do not grow or change for ever:        *)
(* publishers report every minute, and from the second report on that      *)
(* brings no new name, labels stay as they are.                            *)
(***************************************************************************)
LabelsSettle ==
    stage = "synced" =>
        LET twice == Synced(Synced(nodes))
        IN  \A id \in DOMAIN nodes : twice[id].label = Synced(nodes)[id].label

(***************************************************************************)
(* New entries never move a node that stays: it is where the forces left   *)
(* it or under the cursor, and not back where it started.                  *)
(***************************************************************************)
KeepsPlace ==
    [][SyncEffect => \A id \in DOMAIN nodes \cap DOMAIN nodes' : nodes'[id].at = nodes[id].at]_vars

(***************************************************************************)
(* "either pan OR drag a node, not both": with nodes coming and going      *)
(* under the cursor, a press is one of the two, and it ends with the       *)
(* button.                                                                 *)
(***************************************************************************)
OneGesture ==
    /\ ~(panning /\ pinned # NoPin)
    /\ panning \/ pinned # NoPin => button
=============================================================================
