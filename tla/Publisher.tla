----------------------------- MODULE Publisher -----------------------------
(***************************************************************************)
(* The publisher daemon (topology-publisher/src/main.rs): the reconnect    *)
(* loop of main, the publish loop of run_session, and the query, payload   *)
(* and send sequence of publish_one_cycle, with the health snapshot they   *)
(* keep (health.rs) and the probe cache they carry.                        *)
(*                                                                         *)
(* The local freenet node at the other end of the WebSocket is external.   *)
(* It answers requests in any order, late, or never; it may refuse the two *)
(* queries ("not supported") and fail to subscribe or update; it sends     *)
(* notifications; and it, or the connection alone, may go down at any      *)
(* time.  Responses wait in `inbox`, in the order the node sent them.  A   *)
(* refusal and any other error reach the daemon as an Err of api.recv(),   *)
(* exactly as the loss of the connection does.                             *)
(*                                                                         *)
(* The process may be killed at any time (a crash, systemd's watchdog, a   *)
(* reboot) and is started again by systemd (Restart=on-failure).  What it  *)
(* keeps then is the key file, which holds the seed that names its slot in *)
(* the contract.  The file is read back as it was written; nobody deletes  *)
(* or edits it.                                                            *)
(*                                                                         *)
(* Timers are modelled by what may happen when they fire: the 10 s         *)
(* deadline of a collection and the 10 ms of a drain may pass whenever the *)
(* daemon waits, and a tick comes at some time.                            *)
(***************************************************************************)
EXTENDS Naturals, Sequences, FiniteSets

CONSTANTS
    Contracts,      \* base58 keys of contracts the node may host
    Behaviours,     \* what the node does with each request: see Answer
    MaxInbox,       \* bound on the responses waiting
    DrainLimit,     \* how many responses are drained after a cycle (16)
    BackoffMin, BackoffMax

ASSUME PublisherAssumption ==
    /\ Behaviours \subseteq [{"subscribe", "diagnostics", "hosting", "update"} ->
                                {"answers", "refuses", "ignores"}]
    /\ IsFiniteSet(Contracts)
    /\ MaxInbox \in Nat /\ DrainLimit \in Nat
    /\ BackoffMin \in Nat \ {0} /\ BackoffMax \in Nat /\ BackoffMin <= BackoffMax

Queries == {"diagnostics", "hosting"}

Requests == Queries \cup {"subscribe", "update"}

Verdicts == {"unknown", "webapp", "data"}

(* Responses: an answer to a query with the contracts it names, a          *)
(* notification or acknowledgement, a refusal, or another error.           *)
Response ==
    [what : Queries, contracts : SUBSET Contracts]
        \cup [what : {"other", "refused", "error"}, contracts : {{}}]

NoAnswer == [what |-> "none", contracts |-> {}]

NoPayload == [sent |-> FALSE, contracts |-> {}]

VARIABLES
    behaviour,      \* what the node does with each query
    up,             \* whether the node is running
    stable,         \* whether node, connection and process have stopped failing
    keyFile,        \* what is on the disk
    identity,       \* the seed the process signs with; 0 is none
    slots,          \* history: the seeds a payload was signed with
    link,           \* whether the WebSocket is connected
    owed,           \* requests the node has received and not answered
    inbox,          \* responses the daemon has not read
    phase,          \* where the daemon is: see TypeOK
    diagnosticsSupported,
    diag, hosting,  \* the answers collected in this cycle
    drained,        \* responses drained after this cycle
    probeCache,     \* verdict held for each contract
    backoff,
    health,         \* HealthSnapshot
    lastPayload     \* history: the last payload sent

node == <<behaviour, up, stable>>
process == <<keyFile, identity, slots>>
wire == <<link, owed, inbox>>
cycle == <<diag, hosting, drained>>
vars == <<behaviour, up, stable, keyFile, identity, slots, link, owed, inbox, phase,
          diagnosticsSupported, diag, hosting, drained, probeCache, backoff, health, lastPayload>>

InSession == {"tick", "collect", "probe", "send", "drain"}

Running == InSession \cup {"connect", "backoff"}

NoKeyFile == [is |-> "absent", seed |-> 0]

NoHealth == [published |-> FALSE, alive |-> FALSE, contracts |-> 0, webapps |-> 0]

TypeOK ==
    /\ behaviour \in Behaviours
    /\ up \in BOOLEAN /\ stable \in BOOLEAN /\ link \in BOOLEAN
    /\ owed \subseteq Requests
    /\ inbox \in Seq(Response) /\ Len(inbox) <= MaxInbox
    /\ keyFile \in [is : {"absent", "partial", "written"}, seed : Nat]
    /\ identity \in Nat /\ slots \subseteq Nat /\ IsFiniteSet(slots)
    /\ phase \in Running \cup {"down", "writing"}
    /\ diagnosticsSupported \in BOOLEAN
    /\ diag \in Response \cup {NoAnswer} /\ hosting \in Response \cup {NoAnswer}
    /\ drained \in 0 .. DrainLimit
    /\ probeCache \in [Contracts -> Verdicts]
    /\ backoff \in BackoffMin .. BackoffMax
    /\ health \in [published : BOOLEAN, alive : BOOLEAN, contracts : Nat, webapps : Nat]
    /\ lastPayload \in [sent : BOOLEAN, contracts : SUBSET Contracts]

(* The locals of publish_one_cycle and of the drain loop go with them.      *)
ForgetCycle == diag' = NoAnswer /\ hosting' = NoAnswer /\ drained' = 0

Init ==
    /\ behaviour \in Behaviours
    /\ up \in BOOLEAN
    /\ stable = FALSE
    /\ keyFile = NoKeyFile /\ identity = 0 /\ slots = {}
    /\ link = FALSE
    /\ owed = {}
    /\ inbox = <<>>
    /\ phase = "down"
    /\ diagnosticsSupported = TRUE
    /\ diag = NoAnswer /\ hosting = NoAnswer
    /\ drained = 0
    /\ probeCache = [c \in Contracts |-> "unknown"]
    /\ backoff = BackoffMin
    /\ health = NoHealth
    /\ lastPayload = NoPayload

-----------------------------------------------------------------------------
(***************************************************************************)
(* The node and the connection.                                            *)
(***************************************************************************)
Deliver(r) ==
    /\ link /\ Len(inbox) < MaxInbox
    /\ inbox' = Append(inbox, r)
    /\ UNCHANGED <<node, process, link, phase, diagnosticsSupported, cycle, probeCache, backoff,
                   health, lastPayload>>

Reply(what) == [what |-> what, contracts |-> {}]

Answer(q) ==
    /\ q \in owed
    /\ owed' = owed \ {q}
    /\ \/ /\ behaviour[q] = "answers"
          /\ IF q \in Queries
             THEN \E cs \in SUBSET Contracts : Deliver([what |-> q, contracts |-> cs])
             ELSE Deliver(Reply("other"))
       \/ /\ behaviour[q] = "refuses"
          /\ Deliver(Reply(IF q \in Queries THEN "refused" ELSE "error"))

(* An update notification of the contract subscribed to. *)
Notify ==
    /\ Deliver(Reply("other"))
    /\ UNCHANGED owed

Disconnect ==
    /\ ~stable
    /\ link
    /\ link' = FALSE
    /\ up' \in BOOLEAN
    /\ owed' = {}
    /\ UNCHANGED <<behaviour, stable, process, inbox, phase, diagnosticsSupported, cycle,
                   probeCache, backoff, health, lastPayload>>

Restart ==
    /\ ~stable
    /\ ~link
    /\ up' = ~up
    /\ UNCHANGED <<behaviour, stable, process, wire, phase, diagnosticsSupported, cycle, probeCache,
                   backoff, health, lastPayload>>

(* From here on the node is up, and neither the connection nor the process *)
(* fails.                                                                  *)
Stabilize ==
    /\ up
    /\ ~stable
    /\ stable' = TRUE
    /\ UNCHANGED <<behaviour, up, process, wire, phase, diagnosticsSupported, cycle, probeCache,
                   backoff, health, lastPayload>>

NodeNext ==
    \/ \E q \in Requests : Answer(q)
    \/ Notify
    \/ Disconnect \/ Restart \/ Stabilize

-----------------------------------------------------------------------------
(***************************************************************************)
(* main: load_or_create_key.  Without a key file a fresh seed is drawn,    *)
(* the file created and then written; the file of an earlier start is      *)
(* read.  One that does not parse ends the process, and the next start     *)
(* finds the same file.                                                    *)
(***************************************************************************)
FreshSeed == 1 + Cardinality(slots)

(* Mutated: a key file that cannot be written is no reason to stop.        *)
StartUnsaved ==
    /\ phase = "down"
    /\ keyFile.is # "partial"
    /\ identity' = FreshSeed
    /\ phase' = "connect"
    /\ UNCHANGED <<node, keyFile, slots, wire, diagnosticsSupported, cycle, probeCache,
                   backoff, health, lastPayload>>

Start ==
    /\ phase = "down"
    /\ \/ /\ keyFile.is = "absent"
          /\ identity' = FreshSeed
          /\ keyFile' = [is |-> "partial", seed |-> 0]
          /\ phase' = "writing"
       \/ /\ keyFile.is = "written"
          /\ identity' = keyFile.seed
          /\ phase' = "connect"
          /\ UNCHANGED keyFile
    /\ UNCHANGED <<node, slots, wire, diagnosticsSupported, cycle, probeCache, backoff, health,
                   lastPayload>>

StartFails ==
    /\ phase = "down"
    /\ keyFile.is = "partial"
    /\ UNCHANGED vars

WriteKey ==
    /\ phase = "writing"
    /\ keyFile' = [is |-> "written", seed |-> identity]
    /\ phase' = "connect"
    /\ UNCHANGED <<node, identity, slots, wire, diagnosticsSupported, cycle, probeCache,
                   backoff, health, lastPayload>>

(***************************************************************************)
(* The process is killed.  Whatever main keeps over sessions goes with it: *)
(* only the key file stays.                                                *)
(***************************************************************************)
Crash ==
    /\ ~stable
    /\ phase # "down"
    /\ phase' = "down"
    /\ identity' = 0
    /\ link' = FALSE /\ owed' = {} /\ inbox' = <<>>
    /\ ForgetCycle
    /\ diagnosticsSupported' = TRUE
    /\ probeCache' = [c \in Contracts |-> "unknown"]
    /\ backoff' = BackoffMin
    /\ health' = NoHealth
    /\ lastPayload' = NoPayload
    /\ UNCHANGED <<node, keyFile, slots>>

-----------------------------------------------------------------------------
(***************************************************************************)
(* main: run_session returned an error.  The snapshot says so before the   *)
(* daemon sleeps; the socket of the session is dropped with its unread     *)
(* responses; the probe cache and diagnosticsSupported stay.               *)
(***************************************************************************)
(* Mutated: the snapshot is left as it was, or starts afresh.              *)
SnapshotLeft == health
SnapshotReset == NoHealth

SnapshotDown == [health EXCEPT !.alive = FALSE]

(* Mutated: every session finds out for itself what the node supports.     *)
SupportReset == TRUE

SupportKept == diagnosticsSupported

EndSession ==
    /\ phase' = "backoff"
    /\ health' = SnapshotDown
    /\ diagnosticsSupported' = SupportKept
    /\ link' = FALSE
    /\ owed' = {}
    /\ inbox' = <<>>
    /\ ForgetCycle
    /\ UNCHANGED <<node, process, probeCache, backoff, lastPayload>>

(* Mutated: the bound is missing. *)
DoubleUnbounded(b) == 2 * b

(* sleep(backoff); backoff = (backoff * 2).min(backoff_max) *)
Double(b) == IF 2 * b > BackoffMax THEN BackoffMax ELSE 2 * b

BackoffDone ==
    /\ phase = "backoff"
    /\ backoff' = Double(backoff)
    /\ phase' = "connect"
    /\ UNCHANGED <<node, process, wire, diagnosticsSupported, cycle, probeCache, health,
                   lastPayload>>

(***************************************************************************)
(* run_session: connect, subscribe, mark the session live.                 *)
(***************************************************************************)
Connect ==
    /\ phase = "connect"
    /\ up
    /\ link' = TRUE
    /\ owed' = {"subscribe"} /\ inbox' = <<>>
    /\ health' = [health EXCEPT !.alive = TRUE]
    /\ phase' = "tick"
    /\ UNCHANGED <<node, process, diagnosticsSupported, cycle, probeCache, backoff, lastPayload>>

ConnectFails ==
    /\ phase = "connect"
    /\ ~stable
    /\ EndSession

(***************************************************************************)
(* A send on a connection that is down may fail, or be taken by a queue    *)
(* nobody reads any more.                                                  *)
(***************************************************************************)
Delivered(sent) == owed' = IF link THEN owed \cup sent ELSE owed

(* A tick: send the queries, unless the node has refused them before.      *)
(* Only a failure to send the first one is an error.                       *)
StartCycle ==
    /\ phase = "tick"
    /\ IF diagnosticsSupported
       THEN phase' = "collect" /\ Delivered(Queries)
       ELSE phase' = "send" /\ UNCHANGED owed
    /\ UNCHANGED <<node, process, link, inbox, diagnosticsSupported, cycle, probeCache, backoff,
                   health, lastPayload>>

SendFails ==
    /\ \/ phase = "tick" /\ diagnosticsSupported
       \/ phase = "send"
    /\ ~link
    /\ EndSession

-----------------------------------------------------------------------------
(***************************************************************************)
(* publish_one_cycle: collect the answers.                                 *)
(***************************************************************************)
StopCollecting(d) == phase' = IF d = NoAnswer THEN "send" ELSE "probe"

CollectAnswer ==
    /\ phase = "collect" /\ inbox # <<>>
    /\ LET r == Head(inbox)
       IN  /\ r.what \in Queries \cup {"other"}
           /\ diag' = IF r.what = "diagnostics" THEN r ELSE diag
           /\ hosting' = IF r.what = "hosting" THEN r ELSE hosting
    /\ inbox' = Tail(inbox)
    /\ IF diag' # NoAnswer /\ hosting' # NoAnswer
       THEN StopCollecting(diag')
       ELSE UNCHANGED phase
    /\ UNCHANGED <<node, process, link, owed, diagnosticsSupported, drained, probeCache, backoff,
                   health, lastPayload>>

(* "not supported": publish skeletons for the rest of the run, and stop    *)
(* waiting for the other answer.                                           *)
CollectRefusal ==
    /\ phase = "collect" /\ inbox # <<>>
    /\ Head(inbox).what = "refused"
    /\ diagnosticsSupported' = FALSE
    /\ inbox' = Tail(inbox)
    /\ StopCollecting(diag)
    /\ UNCHANGED <<node, process, link, owed, cycle, probeCache, backoff, health, lastPayload>>

CollectFails ==
    /\ phase = "collect"
    /\ IF inbox = <<>> THEN ~link ELSE Head(inbox).what = "error"
    /\ EndSession

(* Mutated: the collection waits for both answers however long they take. *)
DeadlineNever == FALSE /\ UNCHANGED vars

Deadline ==
    /\ phase = "collect"
    /\ UNCHANGED <<node, process, wire, diagnosticsSupported, cycle, probeCache, backoff, health,
                   lastPayload>>
    /\ StopCollecting(diag)

-----------------------------------------------------------------------------
(***************************************************************************)
(* refresh_cache over the keys of both answers: ProbeCache.tla models when *)
(* a key is probed.  A probe that fails leaves what the cache has.         *)
(***************************************************************************)
Named == diag.contracts \cup hosting.contracts

(* Mutated: a probe that fails overwrites what the cache has.              *)
RefreshedAnyway(found, c) == IF c \in Named THEN found[c] ELSE probeCache[c]

Refreshed(found, c) ==
    IF c \in Named /\ found[c] # "unknown" THEN found[c] ELSE probeCache[c]

Probe ==
    /\ phase = "probe"
    /\ \E found \in [Named -> Verdicts] :
          probeCache' = [c \in Contracts |-> Refreshed(found, c)]
    /\ phase' = "send"
    /\ UNCHANGED <<node, process, wire, diagnosticsSupported, cycle, backoff, health, lastPayload>>

(***************************************************************************)
(* build_payload lists the union of what both answers name; without a      *)
(* diagnostics answer build_skeleton_payload lists nothing.                *)
(***************************************************************************)
Payload ==
    [sent |-> TRUE, contracts |-> IF diag # NoAnswer THEN Named ELSE {}]

Webapps == {c \in Contracts : probeCache[c] = "webapp"}

(***************************************************************************)
(* Sign and send the update, then run_session stores a new snapshot.  The  *)
(* webapp count is that of the whole cache.                                *)
(***************************************************************************)
Publish ==
    /\ phase = "send"
    /\ lastPayload' = Payload
    /\ slots' = slots \cup {identity}
    /\ health' = [published |-> TRUE, alive |-> TRUE,
                  contracts |-> Cardinality(Payload.contracts),
                  webapps |-> Cardinality(Webapps)]
    /\ phase' = "drain"
    /\ Delivered({"update"})
    /\ ForgetCycle
    /\ UNCHANGED <<node, keyFile, identity, link, inbox, diagnosticsSupported, probeCache, backoff>>

-----------------------------------------------------------------------------
(***************************************************************************)
(* run_session: drain what arrived meanwhile, until nothing comes for      *)
(* 10 ms or DrainLimit responses have been read.  Any error ends the       *)
(* session.                                                                *)
(***************************************************************************)
Drain ==
    /\ phase = "drain" /\ drained < DrainLimit /\ inbox # <<>>
    /\ Head(inbox).what \notin {"refused", "error"}
    /\ inbox' = Tail(inbox)
    /\ drained' = drained + 1
    /\ UNCHANGED <<node, process, link, owed, phase, diagnosticsSupported, diag, hosting,
                   probeCache, backoff, health, lastPayload>>

DrainFails ==
    /\ phase = "drain" /\ drained < DrainLimit
    /\ IF inbox = <<>> THEN ~link ELSE Head(inbox).what \in {"refused", "error"}
    /\ EndSession

DrainDone ==
    /\ phase = "drain"
    /\ drained = DrainLimit \/ (inbox = <<>> /\ link)
    /\ phase' = "tick"
    /\ ForgetCycle
    /\ UNCHANGED <<node, process, wire, diagnosticsSupported, probeCache, backoff, health,
                   lastPayload>>

DaemonNext ==
    \/ Start \/ StartFails \/ WriteKey
    \/ Connect \/ ConnectFails \/ BackoffDone
    \/ StartCycle \/ SendFails
    \/ CollectAnswer \/ CollectRefusal \/ CollectFails \/ Deadline
    \/ Probe \/ Publish
    \/ Drain \/ DrainFails \/ DrainDone

Next == NodeNext \/ DaemonNext \/ Crash

(***************************************************************************)
(* The daemon keeps taking steps, systemd starts it again after a failure, *)
(* and the deadline of a collection passes however many responses keep     *)
(* coming.  The node owes it nothing.                                      *)
(***************************************************************************)
Spec == Init /\ [][Next]_vars /\ WF_vars(DaemonNext) /\ WF_vars(Deadline)

-----------------------------------------------------------------------------
(***************************************************************************)
(* The snapshot is live only during a session, so that whatever ends one,  *)
(* a reader of /healthz sees it for the whole of the backoff; and it is    *)
(* live as long as the connection is up.  That it "flips immediately on    *)
(* disconnect" (README.md:343-345) is not so: between ticks nobody reads   *)
(* the socket, and the claim stands until the next tick fails.             *)
(***************************************************************************)
AliveInSession ==
    /\ health.alive => phase \in InSession
    /\ link => health.alive

(***************************************************************************)
(* The contract count served is that of the last payload sent, also after  *)
(* sessions came and went.                                                 *)
(***************************************************************************)
HealthMatchesPayload ==
    /\ health.published = lastPayload.sent
    /\ health.contracts = Cardinality(lastPayload.contracts)

(***************************************************************************)
(* What a probe found out is never forgotten while the daemon runs: not by *)
(* a probe that fails later, nor by a reconnect.                           *)
(***************************************************************************)
VerdictsSurvive ==
    [][phase' # "down" =>
          \A c \in Contracts : probeCache[c] # "unknown" => probeCache'[c] # "unknown"]_vars

(***************************************************************************)
(* A node that has refused a query is not asked again, in this session or  *)
(* in any later one, until the process starts anew.                        *)
(***************************************************************************)
NotAskedAgain ==
    [][~diagnosticsSupported /\ phase' # "down" =>
          /\ ~diagnosticsSupported'
          /\ owed' \cap Queries \subseteq owed]_vars

(***************************************************************************)
(* Once the node and the connection stop failing, the daemon publishes     *)
(* again and again: with a node that answers, refuses or ignores either    *)
(* query, and with one that fails updates.  Only a node that answers the   *)
(* subscription with an error keeps it from publishing, because that error *)
(* ends every session during its first collection; and only a crash while  *)
(* the key file was being written keeps the process from running at all.   *)
(***************************************************************************)
Stuck == phase = "down" /\ keyFile.is = "partial"

KeepsPublishing ==
    <>stable /\ behaviour["subscribe"] # "refuses" => []<><<Publish>>_vars \/ <>Stuck

(***************************************************************************)
(* "restart -> same dashboard slot" (README.md:209-212): over any number   *)
(* of crashes, also between the creation of the key file and its writing,  *)
(* every payload is signed with one seed.                                  *)
(***************************************************************************)
OneSlot == \A s, t \in slots : s = t
=============================================================================
