-------------------------- MODULE TopologyContract --------------------------
(***************************************************************************)
(* The topology contract as it is run: every node that holds the contract  *)
(* has a copy of its state and calls the four operations of                *)
(* topology-contract/src/lib.rs on it.  Publishers sign snapshots and hand *)
(* them to some node as a delta of one entry; nodes bring each other up to *)
(* date with whole states, or with the delta get_state_delta computes      *)
(* against the summary a node heard from its peer.                         *)
(*                                                                         *)
(* The nodes themselves and the network between them are freenet-core,     *)
(* which is not part of the repository.  All the model takes from it is    *)
(* that the contract's operations are called one at a time on a replica,   *)
(* and that nothing else is promised: updates may be lost, duplicated,     *)
(* reordered or damaged, and a summary may be out of date when it is used. *)
(* A damaged entry is one whose signature no longer verifies.              *)
(*                                                                         *)
(* A call of update_state is one step here, and its effect is Join;        *)
(* UpdateState.tla models the call loop iteration by loop iteration.       *)
(***************************************************************************)
EXTENDS TopologyEntries, FiniteSets

CONSTANTS
    Nodes,          \* holders of a replica
    StrictClock,    \* TRUE if no publisher ever reuses or goes back in time
    FirstTime,      \* the earliest timestamp a publisher's clock can show
    MaxInFlight     \* bound on the updates in flight

ASSUME NodesAssumption ==
    /\ StrictClock \in BOOLEAN
    /\ FirstTime \in Nat
    /\ MaxInFlight \in Nat

VARIABLES
    signed,     \* the entries publishers have signed so far
    replica,    \* replica[n]: the contract state node n holds
    heard,      \* heard[n][m]: the last summary n received from m
    net         \* updates in flight

vars == <<signed, replica, heard, net>>

Message == [from : Nodes \cup Pubkeys, to : Nodes, delta : KeyedDelta]

Links == {l \in Nodes \X Nodes : l[1] # l[2]}

TypeOK ==
    /\ signed \subseteq {e \in Entry : e.ok}
    /\ replica \in [Nodes -> ContractState]
    /\ heard \in [Nodes -> [Nodes -> ContractSummary]]
    /\ net \subseteq Message

EmptySummary == [k \in {} |-> 0]

Init ==
    /\ signed = {}
    /\ replica = [n \in Nodes |-> EmptyState]
    /\ heard = [n \in Nodes |-> [m \in Nodes |-> EmptySummary]]
    /\ net = {}

-----------------------------------------------------------------------------
Send(from, to, d) ==
    /\ Cardinality(net) < MaxInFlight
    /\ net' = net \cup {[from |-> from, to |-> to, delta |-> d]}

(***************************************************************************)
(* publish_one_cycle signs a snapshot with the time of its wall clock and  *)
(* sends it as ContractRequest::Update.  Nothing in the publisher compares *)
(* the time with that of its previous snapshot: StrictClock is an          *)
(* assumption about the host's clock.                                      *)
(***************************************************************************)
MayShow(p, t) ==
    /\ t >= FirstTime
    /\ StrictClock => \A e \in signed : e.key = p => e.ts < t

Publish(p, t, b, n) ==
    LET e == [key |-> p, ts |-> t, body |-> b, ok |-> TRUE]
    IN  /\ MayShow(p, t)
        /\ signed' = signed \cup {e}
        /\ Send(p, n, [EmptyState EXCEPT ![p] = e])
        /\ UNCHANGED <<replica, heard>>

(* summarize_state on m, and the summary reaching n. *)
Advertise(m, n) ==
    /\ heard' = [heard EXCEPT ![n][m] = Summarize(replica[m])]
    /\ UNCHANGED <<signed, replica, net>>

(* get_state_delta on n against what it last heard from m. *)
SendDelta(n, m) ==
    /\ Send(n, m, DeltaAgainst(replica[n], heard[n][m]))
    /\ UNCHANGED <<signed, replica, heard>>

(* The whole state, as UpdateData::State. *)
SendState(n, m) ==
    /\ Send(n, m, replica[n])
    /\ UNCHANGED <<signed, replica, heard>>

(***************************************************************************)
(* update_state on the receiver.  The update leaves the network, or stays  *)
(* to be received again.                                                   *)
(***************************************************************************)
Receive(msg, gone) ==
    /\ replica' = [replica EXCEPT ![msg.to] = Join(@, msg.delta)]
    /\ net' = net \ (IF gone THEN {msg} ELSE {})
    /\ UNCHANGED <<signed, heard>>

Lose(msg) ==
    /\ net' = net \ {msg}
    /\ UNCHANGED <<signed, replica, heard>>

(* One entry of an update no longer verifies. *)
Damage(msg, k) ==
    /\ msg.delta[k] # NoEntry
    /\ net' = (net \ {msg}) \cup {[msg EXCEPT !.delta[k].ok = FALSE]}
    /\ UNCHANGED <<signed, replica, heard>>

Publishing == \E p \in Pubkeys, t \in Time, b \in Bodies, n \in Nodes : Publish(p, t, b, n)

Syncing ==
    \E l \in Links :
        Advertise(l[1], l[2]) \/ SendDelta(l[1], l[2]) \/ SendState(l[1], l[2])

Delivering == \E msg \in net : Receive(msg, TRUE) \/ Receive(msg, FALSE)

Faulting == \E msg \in net : Lose(msg) \/ \E k \in Pubkeys : Damage(msg, k)

Next == Publishing \/ Syncing \/ Delivering \/ Faulting

Spec == Init /\ [][Next]_vars

-----------------------------------------------------------------------------
(***************************************************************************)
(* A replica never holds anything a publisher did not sign, and holds it   *)
(* under that publisher's key: an entry of one publisher cannot displace   *)
(* one of another, and a damaged entry goes nowhere.                       *)
(***************************************************************************)
OnlySigned ==
    \A n \in Nodes : \A k \in Present(replica[n]) :
        replica[n][k] \in signed /\ replica[n][k].key = k

(***************************************************************************)
(* What is in flight was signed, but for what was damaged on its way.      *)
(***************************************************************************)
NetSigned ==
    \A msg \in net : \A k \in Present(msg.delta) :
        msg.delta[k].ok => msg.delta[k] \in signed

(***************************************************************************)
(* What n heard from m is never ahead of what m holds, however old the     *)
(* summary is.  This is what makes it safe to leave out of a delta the     *)
(* entries the summary lists.                                              *)
(***************************************************************************)
HeardIsBehind == \A n, m \in Nodes : Covers(replica[m], heard[n][m])

(***************************************************************************)
(* Once a delta has been computed against a summary, the receiver lacks    *)
(* nothing: a delta sent now, whatever summary it was computed against,    *)
(* gives the receiver the same state as the whole state of the sender.     *)
(***************************************************************************)
DeltaSuffices ==
    \A n, m \in Nodes :
        Join(replica[m], DeltaAgainst(replica[n], heard[n][m]))
            = Join(replica[m], replica[n])

(***************************************************************************)
(* Two replicas with the same summary are the same.  If they were not, the *)
(* deltas between them would be empty for good and they would never agree. *)
(***************************************************************************)
SummaryDetermines ==
    \A n, m \in Nodes :
        Summarize(replica[n]) = Summarize(replica[m]) => replica[n] = replica[m]

(***************************************************************************)
(* "Order of update_state deltas does not affect the final state": any two *)
(* updates in flight to a node leave it in the same state in either order. *)
(***************************************************************************)
OrderIrrelevant ==
    \A x, y \in net : \A n \in Nodes :
        Join(Join(replica[n], x.delta), y.delta) = Join(Join(replica[n], y.delta), x.delta)

(***************************************************************************)
(* A replica never loses a key, and what it holds for a key is only ever   *)
(* replaced by something strictly newer.                                   *)
(***************************************************************************)
Advances(old, new) ==
    \A k \in Pubkeys :
        \/ new[k] = old[k]
        \/ new[k] # NoEntry /\ Beats(new[k], old[k])

NeverRegress == [][\A n \in Nodes : Advances(replica[n], replica'[n])]_vars

(***************************************************************************)
(* With a strict clock no publisher signs two snapshots for one time, and  *)
(* none is dated before the first time a clock can show.                   *)
(***************************************************************************)
SignedInTime == \A e \in signed : e.ts >= FirstTime

TimesDiffer == \A e, f \in signed : e.key = f.key /\ e.ts = f.ts => e = f

-----------------------------------------------------------------------------
(***************************************************************************)
(* The replicas implement a store of last-writer-wins registers: whatever  *)
(* the network does, each step either signs a snapshot or moves some       *)
(* registers of one node forward to signed snapshots of their publishers.  *)
(***************************************************************************)
Lww == INSTANCE LwwStore WITH Holders <- Nodes, written <- signed, register <- replica

ImplementsLww == Lww!Spec

-----------------------------------------------------------------------------
(***************************************************************************)
(* What the replicas come to agree on, if the network is fair: an update   *)
(* does not stay in flight for ever, every node keeps trying to bring      *)
(* every other up to date, and an update that would tell its receiver      *)
(* something new is not lost every time.                                   *)
(***************************************************************************)
News(n, m) ==
    \E msg \in net :
        /\ msg.from = n /\ msg.to = m
        /\ Receive(msg, TRUE)
        /\ replica' # replica

Drain == \E msg \in net : Receive(msg, TRUE) \/ Lose(msg)

Fairness ==
    /\ WF_vars(Drain)
    /\ \A l \in Links :
          /\ WF_vars(Advertise(l[1], l[2]))
          /\ SF_vars(SendDelta(l[1], l[2]))
          /\ SF_vars(News(l[1], l[2]))

FairSpec == Spec /\ Fairness

Agreement == \A n, m \in Nodes : replica[n] = replica[m]

(* All replicas end up the same and stay so. *)
Converges == <>[]Agreement
=============================================================================
