----------------------------- MODULE Dashboard -----------------------------
(***************************************************************************)
(* The browser's subscription to the topology contract: ContractClient     *)
(* (frontend/src/contract_client.rs) over WsShim (ws_shim.rs), and the App *)
(* component's remote_entries, contract_status and the effect that starts  *)
(* and drops the client (frontend/src/main.rs).                            *)
(*                                                                         *)
(* A feed is a node URL together with a contract instance.  The node at    *)
(* the other end is external: it answers the two requests of a client, or  *)
(* fails them, sends a notification for every change while the client is   *)
(* subscribed, and may send anything else.  A WebSocket delivers frames in *)
(* order.                                                                  *)
(*                                                                         *)
(* The callbacks the browser runs are atomic: none of them awaits anything *)
(* that is not ready.                                                      *)
(***************************************************************************)
EXTENDS TopologyEntries, FiniteSetsExt

CONSTANTS
    Feeds,
    MaxFrames,          \* bound on the frames in flight to the browser
    MaxAbandoned,       \* bound on the clients dropped while they connect
    SubscribesFirst     \* whether the node handles Subscribe before Get

ASSUME DashboardAssumption ==
    /\ MaxFrames \in Nat
    /\ MaxAbandoned \in Nat
    /\ SubscribesFirst \in BOOLEAN
    /\ Feeds \cap {"off", "bad"} = {}

Requests == {"subscribe", "get"}

(* The bytes an update or a state carries: they may fail to decode, and    *)
(* entries of them may fail to verify.                                     *)
Part == [parses : BOOLEAN, batch : KeyedDelta]

Frame ==
    [what : {"subscribeResponse", "hostError", "garbled", "ignored"}, parts : {<<>>}]
        \cup [what : {"getResponse", "update"}, parts : Seq(Part)]

VARIABLES
    contract,   \* what the node of each feed holds
    setting,    \* settings.contract: a feed, "off", or "bad" (start fails)
    socket,     \* "none", "connecting", "open" or "closed"
    asked,      \* requests the node has not handled
    subscribed, \* whether the node notifies this client
    frames,     \* frames on their way to the browser
    captured,   \* remote_entries as the on_entry callback sees it
    remoteEntries,
    status,
    abandoned,  \* clients dropped while connecting, with their handlers on
    seen,       \* history: newest entry shown for each key, this client
    failed,     \* history: a request of this client failed
    overruled   \* history: an abandoned client set the status after this
                \* setting was made

conn == <<socket, asked, subscribed>>
shown == <<captured, remoteEntries, seen>>
left == <<abandoned, overruled>>
vars == <<contract, setting, socket, asked, subscribed, frames, captured,
          remoteEntries, status, abandoned, seen, failed, overruled>>

Settings == Feeds \cup {"off", "bad"}

TypeOK ==
    /\ contract \in [Feeds -> ContractState]
    /\ setting \in Settings
    /\ socket \in {"none", "connecting", "open", "closed"}
    /\ asked \subseteq Requests /\ subscribed \in BOOLEAN
    /\ frames \in Seq(Frame) /\ Len(frames) <= MaxFrames
    /\ captured \in ContractState
    /\ remoteEntries \in ContractState
    /\ status \in {"disabled", "connecting", "subscribing", "subscribed", "error"}
    /\ abandoned \in Nat /\ abandoned <= MaxAbandoned
    /\ seen \in ContractState
    /\ failed \in BOOLEAN /\ overruled \in BOOLEAN

-----------------------------------------------------------------------------
(***************************************************************************)
(* The effect on settings.contract.  It lets go of the client there is and *)
(* starts a new one, with callbacks made in this render.  A client that    *)
(* has opened, or that never dials, is dropped with its handlers: nothing  *)
(* it was sent reaches the app any more.  A client that is connecting is   *)
(* not, for its WsShim owns the onopen handler, and the onopen handler     *)
(* owns the WsShim: it is abandoned, and goes on dialling.                 *)
(***************************************************************************)
SocketOf(s) == IF s \in Feeds THEN "connecting" ELSE "none"

StatusOf(s) ==
    CASE s = "off" -> "disabled" [] s = "bad" -> "error" [] OTHER -> "connecting"

Init ==
    /\ contract \in [Feeds -> ContractState]
    /\ setting \in Settings
    /\ socket = SocketOf(setting)
    /\ status = StatusOf(setting)
    /\ asked = {} /\ subscribed = FALSE
    /\ frames = <<>>
    /\ captured = EmptyState /\ remoteEntries = EmptyState /\ seen = EmptyState
    /\ failed = FALSE
    /\ abandoned = 0 /\ overruled = FALSE

Abandoned == IF socket = "connecting" THEN abandoned + 1 ELSE abandoned

Configure(s) ==
    /\ s # setting
    /\ Abandoned <= MaxAbandoned
    /\ setting' = s
    /\ socket' = SocketOf(s)
    /\ status' = StatusOf(s)
    /\ asked' = {} /\ subscribed' = FALSE
    /\ frames' = <<>>
    /\ captured' = remoteEntries
    /\ seen' = remoteEntries
    /\ abandoned' = Abandoned
    /\ failed' = FALSE /\ overruled' = FALSE
    /\ UNCHANGED <<contract, remoteEntries>>

(* Mutated: Subscribe alone. *)
SendRequestsNoGet ==
    \/ asked' = {} /\ status' = "error" /\ failed' = TRUE
    \/ asked' = {"subscribe"} /\ status' = "subscribing" /\ UNCHANGED failed

(* Send Subscribe and, for what the contract holds already, Get.  Either   *)
(* send may fail; a Get that is not sent is only logged.                   *)
SendRequests ==
    \/ asked' = {} /\ status' = "error" /\ failed' = TRUE
    \/ asked' = {"subscribe"} /\ status' = "subscribing" /\ failed' = TRUE
    \/ asked' = Requests /\ status' = "subscribing" /\ UNCHANGED failed

OnOpen ==
    /\ socket = "connecting"
    /\ socket' = "open"
    /\ SendRequests
    /\ UNCHANGED <<contract, setting, subscribed, frames, shown, left>>

(***************************************************************************)
(* The socket of an abandoned client opens: the onopen handler sends its   *)
(* requests, sets the status, and is the last to let go of the client,     *)
(* which closes the socket before any answer.  Or it fails.                *)
(***************************************************************************)
AbandonedEnds ==
    /\ abandoned > 0
    /\ abandoned' = abandoned - 1
    /\ overruled' = TRUE
    /\ UNCHANGED <<contract, setting, conn, frames, shown, failed>>

AbandonedOpens == AbandonedEnds /\ status' \in {"subscribing", "error"}

AbandonedFails == AbandonedEnds /\ status' = "error"

Drops ==
    /\ socket \in {"connecting", "open"}
    /\ socket' = "closed"
    /\ asked' = {} /\ subscribed' = FALSE
    /\ frames' = <<>>
    /\ UNCHANGED <<contract, setting, shown, failed, left>>

(* Mutated: a close nobody listens to. *)
OnCloseUnheard == Drops /\ UNCHANGED status

(* onerror, onclose: nothing reconnects. *)
OnClose == Drops /\ status' = "error"

-----------------------------------------------------------------------------
(***************************************************************************)
(* The node.                                                               *)
(***************************************************************************)
Sends(what, parts) ==
    /\ socket = "open"
    /\ Len(frames) < MaxFrames
    /\ frames' = Append(frames, [what |-> what, parts |-> parts])

Whole(st) == [parses |-> TRUE, batch |-> st]

Unparsable == [parses |-> FALSE, batch |-> EmptyState]

AnswerSubscribe ==
    /\ "subscribe" \in asked
    /\ asked' = asked \ {"subscribe"}
    /\ \/ Sends("subscribeResponse", <<>>) /\ subscribed' = TRUE /\ UNCHANGED failed
       \/ Sends("hostError", <<>>) /\ failed' = TRUE /\ UNCHANGED subscribed
    /\ UNCHANGED <<contract, setting, socket, shown, status, left>>

AnswerGet ==
    /\ "get" \in asked
    /\ SubscribesFirst => "subscribe" \notin asked
    /\ asked' = asked \ {"get"}
    /\ \/ Sends("getResponse", <<Whole(contract[setting])>>) /\ UNCHANGED failed
       \/ Sends("getResponse", <<Unparsable>>) /\ failed' = TRUE
       \/ Sends("hostError", <<>>) /\ failed' = TRUE
    /\ UNCHANGED <<contract, setting, socket, subscribed, shown, status, left>>

(* An update reaches the node, which tells its subscribers by a delta, by  *)
(* the whole state, or by both.                                            *)
Change(f, e) ==
    LET changed == Apply(contract[f], e)
        delta   == [EmptyState EXCEPT ![e.key] = e]
    IN  /\ changed # contract[f]
        /\ contract' = [contract EXCEPT ![f] = changed]
        /\ IF f = setting /\ subscribed
           THEN \E parts \in {<<Whole(delta)>>, <<Whole(changed)>>,
                              <<Whole(changed), Whole(delta)>>} :
                    Sends("update", parts)
           ELSE UNCHANGED frames
        /\ UNCHANGED <<setting, conn, shown, status, failed, left>>

(* Anything else: an update that does not decode or whose entry does not   *)
(* verify, an error, a frame that is not a response, other responses.      *)
Noise ==
    /\ \/ \E what \in {"hostError", "garbled", "ignored"} : Sends(what, <<>>)
       \/ Sends("update", <<Unparsable>>)
       \/ \E e \in Entry : ~e.ok /\ Sends("update", <<Whole([EmptyState EXCEPT ![e.key] = e])>>)
    /\ UNCHANGED <<contract, setting, conn, shown, status, failed, left>>

-----------------------------------------------------------------------------
(***************************************************************************)
(* on_entry.  The handle the callback reads is the one of the render that  *)
(* made the callback: it still shows the entries of that time (captured),  *)
(* whatever was set since.  The entries that verify are folded into a copy *)
(* of it and, if any was taken, the copy is set.                           *)
(***************************************************************************)
(* Mutated: an entry the map has is not replaced.                          *)
OnEntryKeeps(part) ==
    IF part.parses
    THEN [k \in Pubkeys |-> IF captured[k] # NoEntry THEN captured[k]
                            ELSE Join(captured, part.batch)[k]]
    ELSE captured

(* The copy one part makes; it is set if it is another map than captured.  *)
OnEntry(part) == IF part.parses THEN Join(captured, part.batch) ELSE captured

(* The parts are handled in order, so of the maps set the last one stays.  *)
ShownAfter(parts) ==
    LET setters == {i \in DOMAIN parts : OnEntry(parts[i]) # captured}
    IN  IF setters = {} THEN remoteEntries ELSE OnEntry(parts[Max(setters)])

(***************************************************************************)
(* handle_host_response.  A Get answer that does not decode sets an error  *)
(* and then Subscribed over it; of an update with two parts the status is  *)
(* that of the last one.                                                   *)
(***************************************************************************)
StatusAfter(frame) ==
    CASE frame.what = "ignored" -> status
      [] frame.what \in {"hostError", "garbled"} -> "error"
      [] frame.what \in {"subscribeResponse", "getResponse"} -> "subscribed"
      [] frame.what = "update" ->
            IF frame.parts[Len(frame.parts)].parses THEN "subscribed" ELSE "error"

OnMessage ==
    /\ socket = "open" /\ frames # <<>>
    /\ frames' = Tail(frames)
    /\ remoteEntries' = ShownAfter(Head(frames).parts)
    /\ seen' = Join(seen, remoteEntries')
    /\ status' = StatusAfter(Head(frames))
    /\ UNCHANGED <<contract, setting, conn, captured, failed, left>>

Next ==
    \/ \E s \in Settings : Configure(s)
    \/ OnOpen \/ OnClose \/ OnMessage
    \/ AbandonedOpens \/ AbandonedFails
    \/ AnswerSubscribe \/ AnswerGet \/ Noise
    \/ \E f \in Feeds, e \in Entry : Change(f, e)

(***************************************************************************)
(* A connection attempt ends one way or the other, the browser runs its    *)
(* callbacks, and the node handles requests.  An open socket need not ever *)
(* close.                                                                  *)
(***************************************************************************)
Dialled == OnOpen \/ (socket = "connecting" /\ OnClose)

Spec ==
    /\ Init /\ [][Next]_vars
    /\ WF_vars(Dialled) /\ WF_vars(OnMessage)
    /\ SF_vars(AnswerSubscribe) /\ SF_vars(AnswerGet)

-----------------------------------------------------------------------------
(***************************************************************************)
(* The status pill tells a live dashboard from a broken one: whatever      *)
(* settings changed and frames arrived before, it says "subscribed" only   *)
(* over an open socket, and "disabled" and "connecting" only when that is  *)
(* so.  Unless an abandoned client has set it, it also says so when it is, *)
(* a closed socket shows as an error, and "subscribing" is of this client. *)
(***************************************************************************)
StatusTruth ==
    /\ status = "disabled" => setting = "off"
    /\ status = "connecting" => socket = "connecting"
    /\ status = "subscribed" => socket = "open"
    /\ ~overruled =>
          /\ setting = "off" => status = "disabled"
          /\ socket = "connecting" => status = "connecting"
          /\ status = "subscribing" => socket = "open"
          /\ socket = "closed" => status = "error"

(***************************************************************************)
(* "Dropping the previous client closes its WebSocket; the new one opens   *)
(* fresh": a dashboard whose subscription is disabled says "disabled",     *)
(* whatever clients there were before.                                     *)
(***************************************************************************)
DroppedIsSilent == setting = "off" => status = "disabled"

(***************************************************************************)
(* What a frame brings is shown once the frame is handled, or something    *)
(* newer is.  Of a frame with two parts this holds for the second only:    *)
(* the callback reads the same old handle for both.                        *)
(***************************************************************************)
AtLeast(st, batch) ==
    \A k \in Present(batch) :
        batch[k].ok => st[k] # NoEntry /\ st[k].ts >= batch[k].ts

NewsShows ==
    [][OnMessage /\ Head(frames).parts # <<>> =>
          LET news == Head(frames).parts[Len(Head(frames).parts)]
          IN  news.parses => AtLeast(remoteEntries', news.batch)]_vars

(***************************************************************************)
(* Every entry the contract holds, since before the page was loaded or by  *)
(* a later update, is shown at some time, unless the settings change, the  *)
(* connection closes, or the node fails a request.                         *)
(***************************************************************************)
EverySnapshotSeen ==
    \A f \in Feeds, k \in Pubkeys, t \in Time :
        setting = f /\ contract[f][k] # NoEntry /\ contract[f][k].ts >= t
            ~> \/ seen[k] # NoEntry /\ seen[k].ts >= t
               \/ setting # f \/ socket = "closed" \/ failed

(***************************************************************************)
(* "Per-publisher LWW: keyed by hex pubkey, replaced when an entry's       *)
(* timestamp_ms is strictly newer": what is shown of a publisher is only   *)
(* ever replaced by something newer of the same publisher.                 *)
(***************************************************************************)
PerPublisherLww ==
    [][\A k \in Pubkeys :
           \/ remoteEntries'[k] = remoteEntries[k]
           \/ remoteEntries'[k] # NoEntry /\ Beats(remoteEntries'[k], remoteEntries[k])]_vars
=============================================================================
