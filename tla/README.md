# net-graph in TLA+

net-graph draws a live map of the Freenet network. Operators run a small daemon beside
their freenet node; every minute it signs a snapshot of what its node sees and sends it to
one *topology contract*. A dashboard in the browser subscribes to that contract and draws
the union of all snapshots. This directory holds TLA+ models of those parts, the TLC runs
that check them on small instances, and TLAPS proofs for all values of the parameters.

## 1. The system

| Component | Source | State | Operations |
|---|---|---|---|
| Entries, states, deltas, summaries | `shared/src/contract.rs` | per publisher key, the newest signed entry | `verify`, `apply`, `summarize`, `delta_against`, the contract entry codec |
| Topology contract | `topology-contract/src/lib.rs` | none of its own: a node hands it the replica | `validate_state`, `update_state`, `summarize_state`, `get_state_delta` |
| Publisher: sessions and cycles | `topology-publisher/src/main.rs` | WebSocket session, backoff, whether the node supports queries, the answers of the running cycle | `main`, `run_session`, `publish_one_cycle`, `build_payload`, `build_skeleton_payload` |
| Publisher: probe cache | `topology-publisher/src/probe.rs` | verdict and date per contract key | `refresh_cache`, `probe_one` |
| Publisher: health | `topology-publisher/src/health.rs` | the last `HealthSnapshot` | the session writes it; an HTTP server renders it |
| Publisher: process | `topology-publisher/src/main.rs:165-198`, `topology-publisher.service` | the key file, the only thing that outlives the process | `load_or_create_key`; systemd starts the process again |
| Dashboard: client | `frontend/src/contract_client.rs`, `ws_shim.rs` | a WebSocket and its handlers | `start`, `onopen`, `onmessage`, `onclose`, `Drop` |
| Dashboard: App | `frontend/src/main.rs:107-566` | `remote_entries`, `contract_status`, settings, selection, history | `on_entry`, `on_status`, the subscription effect |
| Dashboard: view | `frontend/src/main.rs:589-1120`, `1284-1781` | none: rebuilt at each render | `build_topology`, `flat_nodes`, `flat_contracts`, `merge_into`, `compute_highlight_set`, `sort_contracts`, the facets and the drill-down |
| Dashboard: layout | `frontend/src/graph.rs` | nodes with label, flags and place, edges, pin, pan, zoom; it outlives renders | `sync`, `step`, mouse handlers |
| Dashboard: settings | `frontend/src/settings.rs` | in memory, in localStorage and in the URL fragment | `load_from_storage`, `save_to_storage`, `normalize`, `clear_storage`, the fragment functions |
| Scraper | `scraper/src/lib.rs` | none | an HTML parser that nothing calls any more |

How they interact. The publisher talks to its node over one WebSocket (queries, subscribe,
update) and over HTTP (probes). Its update reaches the contract on that node, and the
nodes bring their replicas together by exchanging summaries, deltas and whole states:
that is freenet-core, which is not in the repository, and nothing is assumed of it that
the code does not rely on. A dashboard talks to its own node over one WebSocket. Within the
dashboard every render builds the topology anew from the entries and the list of known
nodes; the graph, which is not rebuilt, is synced with it by an effect after the render.

What is hard in it, and what correctness means:

* **Contract.** Updates are lost, duplicated, reordered, damaged, and computed against old
  summaries. Replicas must hold only what publishers signed, never go back, and agree in
  the end.
* **Publisher.** Answers arrive late, in any order, or never; refusals and lost
  connections look alike; sessions end at any await. The daemon must go on publishing, and
  what it carries over a reconnect (verdicts, the support flag, the snapshot) must stay
  consistent. The process may die at any time; its identity must not change.
* **Probe cache.** Probes end in any order and may fail; re-probing is capped. Nothing may
  starve.
* **Dashboard.** Callbacks outlive the render that made them, settings change while frames
  are in flight, sockets close. What is shown must be what was received, and the status
  must tell the truth.
* **View and graph.** Both aggregations iterate hash maps whose order is random, in part
  another one in each render. The list must not depend on it, must lose nothing when it
  merges rows, and must agree with the graph, which is updated in place while the mouse acts
  on it.
* **Settings.** Three places hold them, several tabs write one of them, and a sandboxed page
  loses another with each reload. Values come back as they were saved, in their ranges, and a
  reset is final.

The hazards are listed one by one, with their lines and the properties that watch them,
under `hazards` in `PROJECT.json`.

## 2. Modules

```
TopologyEntries ── LwwStore (abstract)
   │        │          ▲ implements
   │        └── TopologyContract ── MCTopologyContract, TopologyContract_proofs
   ├── UpdateState ── MCUpdateState, UpdateState_proofs
   └── Dashboard ── Dashboard_proofs
Publisher ── MCPublisher, Publisher_proofs
ProbeCache ── MCProbeCache, ProbeCache_proofs
EntryCodec ── TopologyView ── Layout ── Page ── MCPage, Page_proofs
Settings ── MCSettings, Settings_proofs
NaturalSets: facts about sets of numbers and about loops, which three of the proofs share
```

Loops that the proofs speak of are recursive functions over their iterations (`SyncGateways`,
`Decode`, `PctDecode`), and no module declares a recursive operator.

**TopologyEntries** has the data and the pure operations. A payload is reduced to its key,
its timestamp and a `body`; `ok` is what `verify` returns. `Beats`, `Accepts` and `Apply`
are `ContractState::apply`; `Merge` says without a loop what applying a list amounts to;
`Join` is the same for a list with at most one entry per key, which is what states, deltas
and publications are. `Known` keeps the detail that a key missing from a summary counts as
known at time 0.

**UpdateState** is one call of `update_state`, one step per loop iteration: which variants
are taken, where bytes that do not deserialize end the call, and that an entry that does
not verify is dropped alone. The host keeps its old state when the call fails. The state
the host passes is one a call returned before, so it deserializes. `Over` is the call after
its return: with it, a state of the loop that has no next step is a deadlock TLC reports, so
the run also shows that the loop never gets stuck. `validate_state` is not modelled as an
operation: it looks at signatures and bytes, but not at whether an entry sits under its own
key, which `ContractState` builds in because `apply` is all that ever inserts.

**TopologyContract** runs the contract on several nodes. `signed` is what publishers have
signed, `replica[n]` the state node *n* holds, `heard[n][m]` the last summary *n* got from
*m*, `net` the updates in flight. Each contract function is one step; the network may lose,
repeat, reorder and damage updates, and use summaries of any age. `StrictClock` says
whether publishers' clocks can repeat or go back: `contract.rs:84` leaves monotonicity to
the publisher, and the publisher takes the wall clock as it is. **LwwStore** is what all
that should amount to: registers that move to newer signed snapshots, and never back.

**Publisher** is the daemon: `phase` is where it is (`connect`, `tick`, `collect`, `probe`,
`send`, `drain`, `backoff`), `inbox` what the node has sent and nobody has read. The node is
external: `behaviour` fixes what it does with each kind of request, it may go down, come
back, and notify at any time. A refusal and a lost connection both reach the daemon as an
error of `recv`, which it tells apart by its text in one place (`CollectRefusal`) and not
in the other (`DrainFails`). Timers are modelled by what may happen when they fire. `Crash`
ends the process in any phase and takes with it all that `main` keeps; `Start` and `WriteKey`
are the two halves of `load_or_create_key` on a first run, between which a crash leaves a
file that does not parse (`keyFile.is = "partial"`) and that every later start fails on
(`StartFails`). A seed is a number; a fresh one differs from all that signed before.

**ProbeCache** has `refresh_cache` in three kinds of step: choose the keys, end one probe,
insert the results. Dates are ranks: `rank` gives every cached key its place by age, oldest
first, and the first `expired` are past the TTL. Each key is named `Copies[k]` times, because `publish_one_cycle` concatenates three
lists without removing duplicates. The cap of 16 probes at a time is left out: probes end
in any order anyway.

**Dashboard** has the client, the socket and the App state. The callback `on_entry` reads
`remote_entries` through the handle of the render that made it; a yew state handle always
shows the value of its own render, so that value is a variable of its own (`captured`), set
when the effect runs and at no other time. `ShownAfter` is what a frame's entries, taken one
after the other, leave shown. Browser callbacks are atomic. `seen`, `failed` and `overruled`
are history variables.

Dropping the client (`Configure`) detaches its handlers only once its socket has opened. Until
then the `WsShim` owns the closure `_on_open`, which owns the onopen handler, which owns a clone
of the `Rc` that holds the `WsShim` (`ws_shim.rs:43, 124-130`, `contract_client.rs:123-124`): the
cycle keeps them all alive, and `WsShim::drop` does not run. `abandoned` counts these clients.
One whose socket opens still sends its requests and sets the status, and is dropped at the end
of that handler, before any answer (`AbandonedOpens`); one whose socket fails sets an error
(`AbandonedFails`). Its callbacks are those of an old render, but it gets no entries.

**EntryCodec** is the wire format of a contract entry: text is a sequence of bytes, so that
percent encoding, trimming and the UTF-8 check are the real ones (`IsUtf8` is the standard's
table of well-formed sequences, as `String::from_utf8` has it); a wire entry is a key and a
sequence of segments, that is, the string already split at its `|`, which no encoded title
contains. `PctStep` is one byte of the decoder's loop, `ReadSegment` one segment of the
other's.

**TopologyView** is a render. Each iteration of a loop over a hash map is a step that takes any
element left (`TakeEntry`, `GroupContract`), the loop over the contracts of one entry goes in
order (`DecodeContract`). Sets stand for the lists whose order is fixed by a later sort, or
shown in no order. What does not depend on an order are operators: `FlatNode` and `NodeIds`
for `flat_nodes`, the two cases of `compute_highlight_set`, `Passes` for the facets, `Less` for
the sort axes. A publisher's label is its trimmed display name and its key, of which the code
takes the first 8 hex digits: they are assumed to differ. `Listings` is what `sort_by` may
leave: every list of the rows in which no row comes before a lesser one.

**Layout** is the graph: `Synced` is `sync`, in the order of the code (a gateway, its peers, then
the known nodes, then what is gone), on nodes with the parts of their label, flags and a
place; `Tick` is the interval, with the forces abstracted to a choice of one of `Spots` for each
node that is not held; a new node starts at `Seed`, which is none of them, so that a node that
is started again can be told from one that is left alone. `NewIds` are the ids `sync` collects
itself, and not those `flat_nodes` lists. The gestures are the handlers of the `svg` and its
circles. `shown` keeps apart what the last render drew, whose
handlers a press reaches, from what `sync` has made of the nodes since.

**Page** composes the three: reports are encoded (by this daemon, or by one of another version,
`Dialect`), rendered, synced, and replaced by other reports or another list of known nodes,
while the mouse acts. Which entries replace which is the matter of **Dashboard**; here any may
follow any. `reported` remembers what the publishers meant, and the properties compare the
screen with it.

**Settings** has tabs that share a blob or, in the sandbox of the freenet shell, have one each
that a reload empties; the fragment of each tab's URL, set by the page itself or by the shell
when it gets to the message; and the callbacks that change settings. One field stands for
each way a field is treated: `known_nodes` and `sidebar_width`, which are mirrored in the
fragment, `filter_mode`, which is not, and `tick_ms`, for the numbers that are clamped. Within
a drag the tab does nothing else. `history.replaceState` with an empty hash may leave the old
fragment (`Replaced`); the HTML standard says so of an empty URL.

The names of actions and operators follow the source; `map` in `PROJECT.json` gives the
lines of each. Definitions marked "Mutated" are wrong on purpose: each replaces the
definition after it in a run that must then find the named property violated (`mutants`).

## 3. Runs

| Run | Shows | Instance |
|---|---|---|
| `update_state_loop` | `LoopIsMerge`: after every iteration the working copy is the merge of what was applied. `NothingOverlooked`: a call that succeeds has taken account of every verified entry. `FailsIffMalformed`. No deadlock: the call always returns | 2 publishers, times 0-2, ties, bad entries; all deltas of up to 3 of 6 entries, all calls of up to 2 updates of every variant, well formed or not |
| `contract_any_clock` | `OnlySigned`, `HeardIsBehind`, `DeltaSuffices`, `NeverRegress`, `ImplementsLww` with clocks that repeat and go back | 2 nodes, 2 publishers, 2 times, 2 updates in flight; nodes and publishers symmetric (no temporal property but action properties and the refinement's step) |
| `contract_converges` | `SummaryDetermines`, `OrderIrrelevant`, and `Converges`, with strict clocks | 2 nodes, 1 publisher, 2 times, 2 bodies |
| `equal_timestamps` | violation of `OrderIrrelevant` without strict clocks | as above |
| `publisher` | `AliveInSession`, `HealthMatchesPayload`, `VerdictsSurvive`, `NotAskedAgain`, `OneSlot`, `KeepsPublishing` | 1 contract, 6 kinds of node, 2 responses waiting, 1 drained, backoff 1-2; any number of crashes |
| `probe` | `ReprobesBounded`, `RedeployShows` | 3 keys, one named twice, one flaky; budget 2 |
| `probe_starves` | violation of `RedeployShows` | 2 keys, the flaky one named twice; budget 2 |
| `dashboard` | `StatusTruth`, `NewsShows`, `EverySnapshotSeen` | 1 feed, 1 publisher, 3 times, 2 frames in flight, 2 abandoned clients |
| `stale_closure` | violation of `PerPublisherLww` | 2 publishers, 2 times |
| `dropped_client` | violation of `DroppedIsSilent` | 1 publisher, 2 times, 1 frame in flight, 1 abandoned client |
| `page` | `ListIsReported`: where publishers agree, the rows are the classes of same apps with their titles and hashes, and with the verdict of whoever had one, whatever the hash order. `RowsAccount`: also where they disagree nothing is lost or counted twice, and every sort is total. `RowHighlights`, `FilterIsHosted`, `GraphMatchesList`, `LabelsSettle`, `OneGesture`, `KeepsPlace` | 2 publishers with 3 payloads each, or absent, 3 contracts, 3 addresses, 3 lists of known nodes, 2 further renders |
| `settings` | `InRange`, `SandboxRemembers`, `TabKeepsOwn`, `ResetSticks` | 2 symmetric tabs, sandboxed or not, 4 lists, 5 blobs, 3 fragments, 4 things users do |

Why the bounds are enough. Two nodes have every kind of link, two updates in flight every
race between two of them (loss, repetition and reordering), two publishers the interference
of keys, two or three times an older, an equal and a newer entry; the theorems of section 5
remove the bounds for the safety properties of the contract. In the publisher one contract
is enough because contracts do not influence each other there; a drain limit of 1 and an
inbox of 2 reach both ends of the drain loop and a backlog that outlasts a cycle. Three
probed keys have a key at the head, in the middle and at the end of the order, and a budget
of 2 against copies 2, 1 and 1 cuts between keys and inside one. In the dashboard one publisher
has an older, an equal and a newer entry with three times, and two abandoned clients can
contradict each other and the client that is on; what publishers do to each other is the
matter of `stale_closure`, which has two, and of the proofs, which have any number.

The payloads of `page` are chosen to meet: keys that differ in case only, titles that differ in
case, are padded, end in an escape or have a letter of two bytes, contracts of which nothing,
only a hash or only a verdict is known, publishers with and without name and address, one of
which is the other's peer or has its address. Two further renders make a node vanish and come
back, under the cursor or not; one place for the cursor, one for the forces and the one where
nodes start tell a node that is held from one that is not and one that is new. Four things users do suffice for a drag with a change (three) and a reload, for a save in each tab
and a reload of each, and for a change, a reset and two reloads; the shell's steps are not
counted. Deadlock is not checked there, because users may have done all they are allowed.

What the violations mean:

* `equal_timestamps`: `topology-contract/src/lib.rs:15` claims that the order of deltas does
  not matter. It does between two entries of one publisher with equal timestamps, and no
  delta repairs it. It takes two publications within a millisecond, or a clock set back.
* `probe_starves`: keys that had a verdict and whose probes fail from now on keep their old
  dates, so they are the oldest in every cycle; once they fill the budget of 64 (22 keys do
  if each is named three times) no redeploy is picked up without a restart, contrary to
  `topology-publisher/README.md:304-306`.
* `stale_closure`: the map set by one message is forgotten by the next. A publisher shown
  from the initial state disappears when another one publishes, contrary to
  `frontend/src/main.rs:130-131`.
* `dropped_client`: the comments at `frontend/src/main.rs:142-144` and `contract_client.rs:69-71`
  say that dropping a client closes its socket. Who disables the subscription, or changes the
  instance, while the dashboard is connecting sees "subscribing" or an error of the old client
  in place of "disabled" or of what the new one does. `StatusTruth` says what remains true.

The models contain further behaviour that a comment or a document contradicts. No run checks those
sentences; the properties beside them leave the point open rather than take either side:

* The comment at `main.rs:691` of the publisher takes every receive error in the drain loop for a
  dead connection. A local node refuses both queries, the first refusal ends the collection and
  the second one a session whose connection is up (`DrainFails`). It costs one reconnect: by
  then the daemon asks no more (`NotAskedAgain`).
* `topology-publisher/README.md:343-345` has `session_alive` flip immediately on disconnect. Nobody
  reads the socket between ticks, so a scraper is told of a session for up to a minute after the
  connection is gone (`Disconnect` leaves `health` alone). `AliveInSession` says that the flag is
  up as long as the connection is, and down once the session has ended.
* The help text of the webapp metric (`health.rs:209-210`) speaks of the contracts in the last
  payload; `main.rs:654` counts everything the probes ever found (`Webapps`).
* A contract that nobody has classified, but whose code hash is known, is listed as data
  (`frontend/src/main.rs:643`, `Noted`), although `topology-publisher/src/main.rs:307-308` and
  `frontend/src/main.rs:49` call that "unknown". `ListIsReported` says nothing of such a verdict.
* `shared/src/contract.rs:206-210` makes the code hash the primary grouping key; `flat_contracts`
  groups by title first, as `topology-publisher/README.md:287-288` has it. `ListIsReported` follows
  the latter.
* A row merged from instances on several nodes lights up the hosts of the canonical instance only,
  although `frontend/src/main.rs:724-727` says that it surfaces all. `RowHighlights` says that what
  lights up is right.
* `find_remote_entry_for_selection` derives a node's id without the display name, contrary to
  `frontend/src/main.rs:1468-1471`, so a named publisher without address never opens.
  `FilterIsHosted` speaks of those that do.

## 4. Fairness

* `TopologyContract` (`FairSpec`, only for `Converges`): nodes keep exchanging summaries and
  deltas, an update does not stay in flight for ever, and one that would bring news is not
  lost every time (strong fairness: between two such updates others may come). The code
  cannot guarantee this; it is what an eventually consistent store assumes of its network.
* `Publisher`: weak fairness of the daemon's steps, which include the start of the process
  (`Restart=on-failure` in the unit file), and of the deadline: a timer of 10 s fires however
  many responses arrive. Nothing is assumed of the node; `KeepsPublishing` speaks of
  behaviours in which node, connection and process stop failing at some time.
* `ProbeCache`: cycles come round, each probe ends (it has timeouts), time passes.
* `Dashboard`: the browser runs callbacks that are ready, a connection attempt of the client
  that is on ends, and the node handles requests; abandoned clients need not end. The
  node is assumed to handle `Subscribe` before `Get` (`SubscribesFirst`), the order in which
  the client sends them; if a node does not, an update between the two is missed.

## 5. Proofs

`TopologyContract_proofs` proves, for all nodes, publishers, bodies, times and bounds:

* `TypeCorrect`, `HoldsOnlySigned`, `HeardNeverAhead` from the inductive invariant `IInv` =
  `TypeOK`, `OnlySigned`, `NetSigned`, `HeardIsBehind`. `OnlySigned` alone is not inductive:
  a replica learns from the network, so `NetSigned` must say that what is in flight was
  signed unless it was damaged. `HeardIsBehind` rests on `JoinAdvances` and `AdvanceCovers`: a
  replica that advances still covers every summary it ever gave.
* `NeverRegresses`: every step advances every replica, by `JoinAdvances`.
* `DeltaIsEnough`, under `FirstTime > 0`: a delta against a summary that is behind has the
  effect of the whole state (`DeltaJoin`). With a clock that shows 0 it is false: such an
  entry is in no delta.
* `SummaryDeterminesState` and `OrderDoesNotMatter`, under `StrictClock`, from the invariant
  that publishers never sign two snapshots for one time (`SignedInvariance`). Without the
  assumption the run `equal_timestamps` refutes the second.
* `Implements`: the refinement of `LwwStore`: `Publish` maps to `Write`, `Receive` to `Learn`,
  everything else stutters.

`UpdateState_proofs` proves that the loop computes `Merge` for every call
(`LoopComputesMerge`; the key step is `MergeStep`, how one more entry changes the winners), and
`KeyedMergeIsJoin`: on a list with at most one entry per key, in any order, `Merge` is `Join`.
That is what lets `TopologyContract` treat a call as one step.

`Publisher_proofs` proves, for any finite set of contracts, any node and all bounds:

* `TypeCorrect`: `TypeOK` is inductive. Payloads have finite contract sets, so that the counts
  of the snapshot are numbers, and `Double` keeps the backoff between its bounds.
* `SnapshotIsLive` and `SnapshotIsOfLastPayload`: the flag is set exactly in the phases of a
  session (`AliveByPhase`, inductive with `HealthMatchesPayload` and `TypeOK`), because every
  error leaves through `EndSession`, which clears it and keeps the counts, and because only
  `Connect` begins a session. `AliveInSession` follows, as the connection is only up in one.
* `VerdictsAreKept` and `RefusalIsRemembered`: action properties, by cases on the steps; the
  second holds because neither `Connect` nor `EndSession` touches `diagnosticsSupported`. Both
  speak of one run of the process.
* `KeepsItsSlot`: every payload ever sent is signed with one seed. `OneSlot` is not inductive: it
  says nothing of the seed the process holds, nor of the one on the disk. `SlotInv` adds that
  before the file is written nothing was signed, and that from then on process and payloads
  use the seed in the file. The proof rests on `Start` going on only after it has read the
  seed, or after `WriteKey` has put it on the disk.

`UpdateState_proofs` also proves `SuccessOverlooksNothing` and `ErrorIffMalformed`. At every
step each verified entry of the updates taken so far is covered by the working copy or still
to come in the running update (`TakenSoFar`), and every update that does not parse has ended
the call, except the one whose delta part is to be read next (`ParsedSoFar`).

`ProbeCache_proofs` proves, for any keys, copies, budget and ages:

* `DatesStayOrdered`: `TypeOK` says that ranks are a bijection onto `1 .. n`. Inserting results
  moves the refreshed keys to the young end together and keeps the order of the others; the
  proof counts, for each key, those with an older date.
* `BudgetKept`: `ReprobesBounded`. The chosen keys are those up to some rank whose copies fit
  in the budget; the key with the latest date among them bounds all.

`Dashboard_proofs` proves, for any feeds, publishers and frames:

* `TypeCorrect` and `StatusIsTrue`: `TypeOK` and `StatusTruth` are inductive together with
  `SocketInv`: there is a socket for a feed and for nothing else, and only an open one has
  requests, notifications and frames. Abandoned clients are in it: they only ever set
  "subscribing" or an error, so what "subscribed", "connecting" and "disabled" say stays true, and
  the other direction is stated until one of them has set the status.
* `FrameShows`: `NewsShows`. The map a callback starts from may be old, but never holds an entry
  newer than the one shown (`ShownCoversCaptured`); what a frame's parts make of it is followed
  part by part.

`Settings_proofs` proves, for any tabs, blobs and values, from one inductive invariant:

* `SettingsInRange`: values in memory are normalized whatever supplied them.
* `ReloadRemembers`, `ReloadKeepsOwn` and `ResetIsLasting`. What a reload brings back depends on
  three places. The invariant says that messages wait for the shell only in the sandbox
  (`PostsInSandbox`); that the last fragment a tab wrote, on its URL or on its way there, is
  the mirror of what it saved last (`MirrorsSaved`); and that after a reset the slot of the tab
  holds the defaults or nothing (`ResetStored`).

`Page_proofs` proves, for any publishers, reports, known nodes and numbers of them:

* `GraphShowsList`, `SyncMovesNothing`, `PanOrDrag` from the inductive invariant `IInv` = `InputOk`
  (what sync reads is well formed), `GraphOk`, `GraphMatchesList`, `OneGesture`. The heart are
  the three nested loops of `sync`: `Iterates` gives the values of a loop, `RoundInduction` goes
  through its rounds, and `Grows` is what every round does: no node is lost, moved, made
  older, or made less of a gateway. So what a report brought is there at the end
  (`ReportStays`), and what nobody brought is what `Retain` drops, because the ids `sync` collects
  are those the list has (`SameIds`).
* `NothingLostOrTwice`, `PickLightsUp`, `FilterShowsHosted` and `TypeCorrect` from the invariant
  `VInv` of the render's loops, inductive together with `IInv`. It says that the gateways are
  those of the entries taken (`BuildOk`); that rows have disjoint instances, which together
  are the contracts taken (`GroupOk`), and that each row is what its instances make it
  (`RowIs`): the names and the newest time of their publishers. `MergedIs` shows that merging
  two such rows gives one, in whatever order contracts come. The finished list is a
  bijection onto the rows (`ListOk`). On top of that `OneFirst` and `LeastText` show that
  the order of texts is total and that every finite set of texts has a least one, hence that a
  row has a key, that rows have different ones and that every sort ends in one order.

* `NamesSettle`: `LabelsSettle`. A gateway's name is added to a label that lacks it; a known node's
  name that no part of the label shows replaces the whole label. So a label that is replaced
  ends, whatever it was before, with the first known name of the address that shows all those
  after it (`IsLast`): after a sync a label shows every name its node is given, or is that one name alone
  (`Settled`, kept by `LabelsOk`). From either the next sync makes a label that all further ones
  leave alone (`Resynced`). The proof unrolls the three loops of two syncs side by side and
  follows one node through them (`GatewaysLabels`, `KnownSettles`).
* `RoundTrip`: decoding undoes encoding, for every title that is UTF-8 and both dialects. Three
  inductions: the parts of the flattened text stand where their lengths say (`FlattenedParts`);
  `pct_decode` has read as many bytes as `pct_encode` wrote after each part (`PctRoundTrip`),
  because each part is one byte that is no percent sign or a whole escape (`PctByteReads`); and
  segments that do not contradict each other tell the same in any order (`DecodeTells`). That
  trimming leaves UTF-8 (`TrimTitle`) rests on a space being no part of a longer character.
* `ListShowsReports`: `ListIsReported`, from two invariants on top of `VInv`. `ReadOk` is for the
  first loop: some set of reports has been gathered, which with those still to be decoded makes
  up all that the entries taken carry, and of each contract the metadata sums it up: `yes` if
  one says so, a title and a hash that someone reported, none only if nobody did (`Sums`).
  `Grouped` is for the second: a group has all contracts of its key taken so far and totals
  what their rows say (`Totals`). `ReadOk` uses `RoundTrip` where an entry is taken. When the list
  is made and publishers agree, a row has the titles, hashes and verdicts that were said
  (`RowSays`), and two contracts have one key when they are the same app (`GroupedTogether`).
  Nothing is claimed of the verdict on a contract that nobody classified but that has a hash.

The assumptions of all this are on constants and named in the modules: what storage and URLs
may supply has the types the parser gives it (`StoredAssumption`), reports are what
`build_payload` can be asked to encode (`PoolAssumption`), model values that stand for nothing
are no publisher, address or hash (`ViewAssumption`).

The provers cannot instantiate an induction theorem with an operator, so inductions are done
with sets: `SetInduction` and `RoundInduction` of `NaturalSets` say that a set of numbers that
holds 0 and is closed under successor (up to a bound) holds all, and each proof defines the
set of rounds after which its claim is true.

Only model-checked is liveness (`Converges`, `KeepsPublishing`, `RedeployShows`,
`EverySnapshotSeen`), which is out of the prover's reach. Every invariant and every action property of
the passing runs is proved.

## 6. Not modelled

* Signatures and bincode: an entry verifies or not, bytes parse or not.
* Durations, so also the arithmetic that a first cycle over 620 contracts whose probes run into
  their three timeouts of 3 s, 16 at a time, takes up to 351 s and is killed by
  `WatchdogSec=180` before anything is cached.
* A key file that is there but cannot be read: `load_or_create_key` (`main.rs:166`) then makes a new
  identity and overwrites the file, so `OneSlot` would not hold. Nor one that somebody edits or
  deletes.
* The HTTP server of the snapshot and the systemd notifications, which are I/O.
* The forces of the layout, zoom, and the position of the view: floating-point arithmetic.
* Ring locations, colours, tooltips, the cut of long labels (`trim_label` cuts at a byte and
  panics within a letter of several bytes), open groups, the text search, the copy mark and
  the sparklines: presentation, or one assignment each.
* The contract's entries are never removed, although `topology-publisher/README.md:211-212`
  speaks of garbage collection; `NeverRegress` states what the code does.
* The scraper and the example that writes an empty state: nothing calls them.

## 7. What could come next

*NetGraph*: publisher, contract and dashboard composed, in which a snapshot that is published is
shown in the end. Today each of the three is checked against any behaviour of the freenet node
between them.
