----------------------- MODULE TopologyContract_proofs -----------------------
(***************************************************************************)
(* What the replicas of the topology contract guarantee, for any nodes,    *)
(* publishers, timestamps and bounds.  The inductive invariant is          *)
(*                                                                         *)
(*      TypeOK /\ NetSigned /\ OnlySigned /\ HeardIsBehind                 *)
(*                                                                         *)
(* and, when clocks are strict, TimesDiffer beside it.                     *)
(***************************************************************************)
EXTENDS TopologyContract, TLAPS

-----------------------------------------------------------------------------
(***************************************************************************)
(* Facts about Join and the operations of ContractState.                   *)
(***************************************************************************)

(* A well-formed state has a well-formed entry at each key it has.         *)
LEMMA StateEntry ==
    ASSUME NEW st \in ContractState, NEW k \in Pubkeys, st[k] # NoEntry
    PROVE  st[k] \in Entry /\ st[k].key = k /\ st[k].ok /\ st[k].ts \in Nat
  BY DEF ContractState, Stored, Entry, Time

(* A contract state is a keyed delta: it can be sent as one.               *)
LEMMA StateIsDelta == ContractState \subseteq KeyedDelta
  BY DEF ContractState, KeyedDelta, Stored

(* Joining a delta into a contract state gives a contract state.           *)
LEMMA JoinType ==
    ASSUME NEW st \in ContractState, NEW d \in KeyedDelta
    PROVE  Join(st, d) \in ContractState
  <1>1. \A k \in Pubkeys :
            /\ Join(st, d)[k] \in Entry \cup {NoEntry}
            /\ Join(st, d)[k] = NoEntry \/ Join(st, d)[k] \in Stored(k)
    BY DEF Join, Accepts, ContractState, KeyedDelta, Stored
  <1>2. Join(st, d) \in [Pubkeys -> Entry \cup {NoEntry}]
    BY <1>1 DEF Join
  <1> QED
    BY <1>1, <1>2 DEF ContractState

(* Join keeps an entry or replaces it by one that beats it.                *)
LEMMA JoinAdvances ==
    ASSUME NEW st \in ContractState, NEW d \in KeyedDelta
    PROVE  Advances(st, Join(st, d))
  BY DEF Advances, Join, Accepts, KeyedDelta

(* A state that advances still covers every summary it covered.            *)
LEMMA AdvanceCovers ==
    ASSUME NEW old \in ContractState, NEW new \in ContractState, Advances(old, new),
           NEW s \in ContractSummary, Covers(old, s)
    PROVE  Covers(new, s)
  <1> SUFFICES ASSUME NEW k \in DOMAIN s
               PROVE  new[k] # NoEntry /\ new[k].ts >= s[k]
    BY DEF Covers
  <1>1. k \in Pubkeys /\ s[k] \in Nat
    BY DEF ContractSummary, Time
  <1>2. old[k] # NoEntry /\ old[k].ts >= s[k]
    BY DEF Covers
  <1>3. old[k].ts \in Nat
    BY <1>1, <1>2, StateEntry
  <1>4. CASE new[k] = old[k]
    BY <1>2, <1>4
  <1>5. CASE new[k] # NoEntry /\ Beats(new[k], old[k])
    <2>1. new[k].ts \in Nat
      BY <1>1, <1>5, StateEntry
    <2>2. old[k].ts < new[k].ts
      BY <1>2, <1>5 DEF Beats
    <2> QED
      BY <1>1, <1>2, <1>3, <1>5, <2>1, <2>2
  <1> QED
    BY <1>1, <1>4, <1>5 DEF Advances

(* A state's own summary is a summary, and the state covers it.            *)
LEMMA SummarizeFacts ==
    ASSUME NEW st \in ContractState
    PROVE  Summarize(st) \in ContractSummary /\ Covers(st, Summarize(st))
  <1>1. \A k \in Present(st) : k \in Pubkeys /\ st[k] # NoEntry /\ st[k].ts \in Time
    BY DEF Present, ContractState, Stored, Entry
  <1>2. Summarize(st) \in [Present(st) -> Time]
    BY <1>1 DEF Summarize
  <1>3. Present(st) \in SUBSET Pubkeys
    BY DEF Present
  <1>4. Summarize(st) \in ContractSummary
    BY <1>2, <1>3 DEF ContractSummary
  <1>5. Covers(st, Summarize(st))
    BY <1>1 DEF Covers, Summarize, Time
  <1> QED
    BY <1>4, <1>5

(* A delta is made of entries of the state it was computed from.           *)
LEMMA DeltaType ==
    ASSUME NEW st \in ContractState, NEW s
    PROVE  /\ DeltaAgainst(st, s) \in KeyedDelta
           /\ \A k \in Present(DeltaAgainst(st, s)) :
                 k \in Present(st) /\ DeltaAgainst(st, s)[k] = st[k]
  <1>1. DeltaAgainst(st, s) \in [Pubkeys -> Entry \cup {NoEntry}]
    BY DEF DeltaAgainst, ContractState
  <1>2. \A k \in Pubkeys : DeltaAgainst(st, s)[k] = NoEntry \/ DeltaAgainst(st, s)[k].key = k
    BY DEF DeltaAgainst, ContractState, Stored
  <1> QED
    BY <1>1, <1>2 DEF KeyedDelta, Present, DeltaAgainst

(* A delta against a summary its receiver covers tells it as much as the   *)
(* whole state, when no entry of the state is dated zero or the receiver   *)
(* has an entry for it.                                                    *)
LEMMA DeltaJoin ==
    ASSUME NEW st \in ContractState, NEW old \in ContractState, NEW s \in ContractSummary,
           Covers(old, s),
           \A k \in Present(st) : st[k].ts > 0
    PROVE  Join(old, DeltaAgainst(st, s)) = Join(old, st)
  <1> SUFFICES ASSUME NEW k \in Pubkeys
               PROVE  Join(old, DeltaAgainst(st, s))[k] = Join(old, st)[k]
    BY DEF Join
  <1>1. CASE st[k] = NoEntry
    BY <1>1 DEF Join, DeltaAgainst
  <1>2. CASE st[k] # NoEntry /\ st[k].ts > Known(s, k)
    BY <1>2 DEF Join, DeltaAgainst
  <1>3. CASE st[k] # NoEntry /\ ~(st[k].ts > Known(s, k))
    <2>1. st[k].ts \in Nat /\ st[k].key = k
      BY <1>3, StateEntry
    <2>2. k \in DOMAIN s
      BY <1>3, <2>1 DEF Known, Present
    <2>3. s[k] \in Nat /\ old[k] # NoEntry /\ old[k].ts >= s[k]
      BY <2>2 DEF Covers, ContractSummary, Time
    <2>4. old[k].ts \in Nat
      BY <2>3, StateEntry
    <2>5. ~Accepts(old, st[k])
      BY <1>3, <2>1, <2>2, <2>3, <2>4 DEF Accepts, Beats, Known
    <2> QED
      BY <1>3, <2>5 DEF Join, DeltaAgainst
  <1> QED
    BY <1>1, <1>2, <1>3

-----------------------------------------------------------------------------
(***************************************************************************)
(* The inductive invariant.                                                *)
(***************************************************************************)
IInv == TypeOK /\ NetSigned /\ OnlySigned /\ HeardIsBehind

LEMMA InitInv == Init => IInv
  <1> SUFFICES ASSUME Init PROVE IInv
    OBVIOUS
  <1>1. EmptyState \in ContractState
    BY DEF EmptyState, ContractState
  <1>2. EmptySummary \in ContractSummary
    <2>1. EmptySummary \in [{} -> Time]
      BY DEF EmptySummary
    <2> QED
      BY <2>1 DEF ContractSummary
  <1>3. TypeOK
    BY <1>1, <1>2 DEF Init, TypeOK
  <1>4. NetSigned
    BY DEF Init, NetSigned
  <1>5. OnlySigned
    BY DEF Init, OnlySigned, Present, EmptyState
  <1>6. HeardIsBehind
    BY DEF Init, HeardIsBehind, Covers, EmptySummary
  <1> QED
    BY <1>3, <1>4, <1>5, <1>6 DEF IInv

(* Sending something whose verified entries were signed keeps NetSigned.   *)
LEMMA SendKeeps ==
    ASSUME NetSigned, net \subseteq Message,
           NEW from \in Nodes \cup Pubkeys, NEW to \in Nodes, NEW d \in KeyedDelta,
           signed \subseteq signed',
           \A k \in Present(d) : d[k].ok => d[k] \in signed',
           Send(from, to, d)
    PROVE  NetSigned' /\ net' \subseteq Message
  <1>1. [from |-> from, to |-> to, delta |-> d] \in Message
    BY DEF Message
  <1>2. net' = net \cup {[from |-> from, to |-> to, delta |-> d]}
    BY DEF Send
  <1>3. NetSigned'
    <2> SUFFICES ASSUME NEW msg \in net', NEW k \in Present(msg.delta), msg.delta[k].ok
                 PROVE  msg.delta[k] \in signed'
      BY DEF NetSigned
    <2> QED
      BY <1>2 DEF NetSigned
  <1> QED
    BY <1>1, <1>2, <1>3

LEMMA PublishInv ==
    ASSUME IInv, NEW p \in Pubkeys, NEW t \in Time, NEW b \in Bodies, NEW n \in Nodes,
           Publish(p, t, b, n)
    PROVE  IInv'
  <1> DEFINE e == [key |-> p, ts |-> t, body |-> b, ok |-> TRUE]
             d == [EmptyState EXCEPT ![p] = e]
  <1>1. e \in Entry /\ e.ok /\ e.key = p
    BY DEF Entry
  <1>2. d \in KeyedDelta /\ \A k \in Present(d) : d[k] = e
    <2> HIDE DEF e
    <2> QED
      BY <1>1 DEF KeyedDelta, EmptyState, Present
  <1>3. signed' = signed \cup {e} /\ Send(p, n, d) /\ UNCHANGED <<replica, heard>>
    BY DEF Publish
  <1> HIDE DEF e, d
  <1>4. NetSigned' /\ net' \subseteq Message
    BY <1>2, <1>3, SendKeeps DEF IInv, TypeOK
  <1>5. TypeOK'
    BY <1>1, <1>3, <1>4 DEF IInv, TypeOK
  <1>6. OnlySigned'
    BY <1>3 DEF IInv, OnlySigned, Present
  <1>7. HeardIsBehind'
    BY <1>3 DEF IInv, HeardIsBehind, Covers
  <1> QED
    BY <1>4, <1>5, <1>6, <1>7 DEF IInv

LEMMA AdvertiseInv ==
    ASSUME IInv, NEW n \in Nodes, NEW m \in Nodes, Advertise(m, n)
    PROVE  IInv'
  <1>1. /\ heard' = [heard EXCEPT ![n][m] = Summarize(replica[m])]
        /\ UNCHANGED <<signed, replica, net>>
    BY DEF Advertise
  <1>2. Summarize(replica[m]) \in ContractSummary /\ Covers(replica[m], Summarize(replica[m]))
    BY SummarizeFacts DEF IInv, TypeOK
  <1>3. TypeOK'
    BY <1>1, <1>2 DEF IInv, TypeOK
  <1>4. NetSigned' /\ OnlySigned'
    BY <1>1 DEF IInv, NetSigned, OnlySigned, Present
  <1>5. HeardIsBehind'
    <2> SUFFICES ASSUME NEW i \in Nodes, NEW j \in Nodes
                 PROVE  Covers(replica[j], heard'[i][j])
      BY <1>1 DEF HeardIsBehind, Covers
    <2>1. CASE i = n /\ j = m
      BY <1>1, <1>2, <2>1 DEF IInv, TypeOK
    <2>2. CASE ~(i = n /\ j = m)
      <3>1. heard'[i][j] = heard[i][j]
        BY <1>1, <2>2 DEF IInv, TypeOK
      <3> QED
        BY <3>1 DEF IInv, HeardIsBehind
    <2> QED
      BY <2>1, <2>2
  <1> QED
    BY <1>3, <1>4, <1>5 DEF IInv

(* SendDelta and SendState send entries of the sender's replica.           *)
LEMMA SyncInv ==
    ASSUME IInv, NEW n \in Nodes, NEW m \in Nodes, NEW d \in KeyedDelta,
           \A k \in Present(d) : k \in Present(replica[n]) /\ d[k] = replica[n][k],
           Send(n, m, d), UNCHANGED <<signed, replica, heard>>
    PROVE  IInv'
  <1>1. \A k \in Present(d) : d[k] \in signed'
    BY DEF IInv, OnlySigned
  <1>2. NetSigned' /\ net' \subseteq Message
    BY <1>1, SendKeeps DEF IInv, TypeOK
  <1>3. TypeOK'
    BY <1>2 DEF IInv, TypeOK
  <1>4. OnlySigned' /\ HeardIsBehind'
    BY DEF IInv, OnlySigned, Present, HeardIsBehind, Covers
  <1> QED
    BY <1>2, <1>3, <1>4 DEF IInv

LEMMA ReceiveInv ==
    ASSUME IInv, NEW msg \in net, NEW gone \in BOOLEAN, Receive(msg, gone)
    PROVE  IInv' /\ \A n \in Nodes : Advances(replica[n], replica'[n])
  <1>1. /\ replica' = [replica EXCEPT ![msg.to] = Join(replica[msg.to], msg.delta)]
        /\ net' \subseteq net
        /\ UNCHANGED <<signed, heard>>
    BY DEF Receive
  <1>2. msg.to \in Nodes /\ msg.delta \in KeyedDelta
    BY DEF IInv, TypeOK, Message
  <1>3. \A n \in Nodes : replica[n] \in ContractState
    BY DEF IInv, TypeOK
  <1>4. /\ Join(replica[msg.to], msg.delta) \in ContractState
        /\ Advances(replica[msg.to], Join(replica[msg.to], msg.delta))
    BY <1>2, <1>3, JoinType, JoinAdvances
  <1>5. \A n \in Nodes : replica'[n] \in ContractState /\ Advances(replica[n], replica'[n])
    <2> TAKE n \in Nodes
    <2>1. CASE n = msg.to
      BY <1>1, <1>4, <2>1 DEF IInv, TypeOK
    <2>2. CASE n # msg.to
      BY <1>1, <1>3, <2>2 DEF IInv, TypeOK, Advances
    <2> QED
      BY <2>1, <2>2
  <1>6. TypeOK'
    BY <1>1, <1>5 DEF IInv, TypeOK
  <1>7. NetSigned'
    BY <1>1 DEF IInv, NetSigned
  <1>8. OnlySigned'
    <2> SUFFICES ASSUME NEW n \in Nodes, NEW k \in Present(replica'[n])
                 PROVE  replica'[n][k] \in signed /\ replica'[n][k].key = k
      BY <1>1 DEF OnlySigned
    <2>1. k \in Pubkeys /\ replica'[n][k] # NoEntry
      BY DEF Present
    <2>2. replica'[n][k].key = k
      BY <1>5, <2>1, StateEntry
    <2>3. CASE replica'[n][k] = replica[n][k]
      BY <2>1, <2>2, <2>3 DEF IInv, OnlySigned, Present
    <2>4. CASE replica'[n][k] # replica[n][k]
      <3>1. n = msg.to /\ replica'[n][k] = msg.delta[k] /\ msg.delta[k] # NoEntry /\ msg.delta[k].ok
        BY <1>1, <1>2, <2>1, <2>4 DEF Join, Accepts, IInv, TypeOK
      <3>2. k \in Present(msg.delta)
        BY <2>1, <3>1 DEF Present
      <3> QED
        BY <2>2, <3>1, <3>2 DEF IInv, NetSigned
    <2> QED
      BY <2>3, <2>4
  <1>9. HeardIsBehind'
    <2> SUFFICES ASSUME NEW n \in Nodes, NEW m \in Nodes
                 PROVE  Covers(replica'[m], heard[n][m])
      BY <1>1 DEF HeardIsBehind, Covers
    <2>1. heard[n][m] \in ContractSummary /\ Covers(replica[m], heard[n][m])
      BY DEF IInv, TypeOK, HeardIsBehind
    <2> QED
      BY <1>3, <1>5, <2>1, AdvanceCovers
  <1> QED
    BY <1>5, <1>6, <1>7, <1>8, <1>9 DEF IInv

LEMMA LoseInv ==
    ASSUME IInv, NEW msg \in net, Lose(msg)
    PROVE  IInv'
  BY DEF Lose, IInv, TypeOK, NetSigned, OnlySigned, HeardIsBehind, Present, Covers

LEMMA DamageInv ==
    ASSUME IInv, NEW msg \in net, NEW k \in Pubkeys, Damage(msg, k)
    PROVE  IInv'
  <1> DEFINE d == [msg.delta EXCEPT ![k] = [msg.delta[k] EXCEPT !.ok = FALSE]]
             bad == [msg EXCEPT !.delta = d]
  <1>1. msg \in Message /\ msg.delta \in KeyedDelta /\ msg.delta[k] # NoEntry
    BY DEF Damage, IInv, TypeOK, Message
  <1>2. [msg.delta[k] EXCEPT !.ok = FALSE] \in Entry
        /\ [msg.delta[k] EXCEPT !.ok = FALSE].key = k
        /\ ~[msg.delta[k] EXCEPT !.ok = FALSE].ok
    BY <1>1 DEF KeyedDelta, Entry
  <1>3. d \in KeyedDelta
    BY <1>1, <1>2 DEF KeyedDelta
  <1>4. bad \in Message
    BY <1>1, <1>3 DEF Message
  <1>5. net' = (net \ {msg}) \cup {bad} /\ UNCHANGED <<signed, replica, heard>>
    BY DEF Damage
  <1>6. TypeOK'
    BY <1>4, <1>5 DEF IInv, TypeOK
  <1>7. NetSigned'
    <2> SUFFICES ASSUME NEW x \in net', NEW j \in Present(x.delta), x.delta[j].ok
                 PROVE  x.delta[j] \in signed
      BY <1>5 DEF NetSigned
    <2>1. CASE x \in net
      BY <2>1 DEF IInv, NetSigned
    <2>2. CASE x = bad
      <3>1. x.delta = d
        BY <1>1, <2>2 DEF Message
      <3>2. j \in Pubkeys /\ j # k
        BY <1>1, <1>2, <3>1 DEF Present, KeyedDelta
      <3>3. x.delta[j] = msg.delta[j]
        BY <1>1, <3>1, <3>2 DEF KeyedDelta
      <3>4. j \in Present(msg.delta)
        BY <3>2, <3>3 DEF Present
      <3> QED
        BY <3>3, <3>4 DEF IInv, NetSigned
    <2> QED
      BY <1>5, <2>1, <2>2
  <1>8. OnlySigned' /\ HeardIsBehind'
    BY <1>5 DEF IInv, OnlySigned, HeardIsBehind, Present, Covers
  <1> QED
    BY <1>6, <1>7, <1>8 DEF IInv

LEMMA NextInv == IInv /\ [Next]_vars => IInv'
  <1> SUFFICES ASSUME IInv, [Next]_vars PROVE IInv'
    OBVIOUS
  <1>1. CASE Publishing
    BY <1>1, PublishInv DEF Publishing
  <1>2. CASE Syncing
    <2> PICK l \in Links :
            Advertise(l[1], l[2]) \/ SendDelta(l[1], l[2]) \/ SendState(l[1], l[2])
      BY <1>2 DEF Syncing
    <2>1. l[1] \in Nodes /\ l[2] \in Nodes /\ replica[l[1]] \in ContractState
      BY DEF Links, IInv, TypeOK
    <2>2. CASE Advertise(l[1], l[2])
      BY <2>1, <2>2, AdvertiseInv
    <2>3. CASE SendDelta(l[1], l[2])
      BY <2>1, <2>3, DeltaType, SyncInv DEF SendDelta
    <2>4. CASE SendState(l[1], l[2])
      BY <2>1, <2>4, StateIsDelta, SyncInv DEF SendState
    <2> QED
      BY <2>2, <2>3, <2>4
  <1>3. CASE Delivering
    BY <1>3, ReceiveInv DEF Delivering
  <1>4. CASE Faulting
    BY <1>4, LoseInv, DamageInv DEF Faulting
  <1>5. CASE UNCHANGED vars
    BY <1>5 DEF vars, IInv, TypeOK, NetSigned, OnlySigned, HeardIsBehind, Present, Covers
  <1> QED
    BY <1>1, <1>2, <1>3, <1>4, <1>5 DEF Next

(***************************************************************************)
(* What publishers sign is in time, and with strict clocks never twice for *)
(* the same time.                                                          *)
(***************************************************************************)
LEMMA SignedStep ==
    IInv /\ SignedInTime /\ (StrictClock => TimesDiffer) /\ [Next]_vars
        => SignedInTime' /\ (StrictClock => TimesDiffer)'
  <1> SUFFICES ASSUME IInv, SignedInTime, StrictClock => TimesDiffer, [Next]_vars
               PROVE  SignedInTime' /\ (StrictClock => TimesDiffer')
    OBVIOUS
  <1>1. CASE Publishing
    <2> PICK p \in Pubkeys, t \in Time, b \in Bodies, n \in Nodes : Publish(p, t, b, n)
      BY <1>1 DEF Publishing
    <2> DEFINE e == [key |-> p, ts |-> t, body |-> b, ok |-> TRUE]
    <2>1. signed' = signed \cup {e} /\ MayShow(p, t)
      BY DEF Publish
    <2>2. SignedInTime'
      BY <2>1 DEF SignedInTime, MayShow
    <2>3. ASSUME StrictClock PROVE TimesDiffer'
      <3> SUFFICES ASSUME NEW x \in signed', NEW y \in signed', x.key = y.key, x.ts = y.ts
                   PROVE  x = y
        BY DEF TimesDiffer
      <3>1. \A z \in signed : z.key = p => z.ts # t
        BY <2>1, <2>3 DEF MayShow, Time, IInv, TypeOK, Entry
      <3>2. CASE x \in signed /\ y \in signed
        BY <2>3, <3>2 DEF TimesDiffer
      <3>3. CASE x = e \/ y = e
        <4>1. e.key = p /\ e.ts = t
          OBVIOUS
        <4> HIDE DEF e
        <4> QED
          BY <2>1, <3>1, <3>3, <4>1
      <3> QED
        BY <2>1, <3>2, <3>3
    <2> QED
      BY <2>2, <2>3
  <1>2. CASE UNCHANGED signed
    BY <1>2 DEF SignedInTime, TimesDiffer
  <1>3. Syncing \/ Delivering \/ Faulting \/ UNCHANGED vars => UNCHANGED signed
    BY DEF Syncing, Delivering, Faulting, Advertise, SendDelta, SendState, Receive, Lose,
           Damage, vars
  <1> QED
    BY <1>1, <1>2, <1>3 DEF Next

-----------------------------------------------------------------------------
(***************************************************************************)
(* The theorems.                                                           *)
(***************************************************************************)

(* Every reachable state has the inductive invariant.                      *)
THEOREM Invariance == Spec => []IInv
  <1>1. IInv /\ [Next]_vars => IInv'
    BY NextInv
  <1> QED
    BY InitInv, <1>1, PTL DEF Spec

(* Every variable keeps its type.                                          *)
THEOREM TypeCorrect == Spec => []TypeOK
  <1>1. IInv => TypeOK
    BY DEF IInv
  <1> QED
    BY <1>1, Invariance, PTL

(* A replica only ever holds what its publisher signed, under its key.     *)
THEOREM HoldsOnlySigned == Spec => []OnlySigned
  <1>1. IInv => OnlySigned
    BY DEF IInv
  <1> QED
    BY <1>1, Invariance, PTL

(* A summary, however old, is never ahead of the replica it describes.     *)
THEOREM HeardNeverAhead == Spec => []HeardIsBehind
  <1>1. IInv => HeardIsBehind
    BY DEF IInv
  <1> QED
    BY <1>1, Invariance, PTL

LEMMA StepAdvances ==
    IInv /\ [Next]_vars => \A n \in Nodes : Advances(replica[n], replica'[n])
  <1> SUFFICES ASSUME IInv, [Next]_vars
               PROVE  \A n \in Nodes : Advances(replica[n], replica'[n])
    OBVIOUS
  <1>1. CASE Delivering
    BY <1>1, ReceiveInv DEF Delivering
  <1>2. CASE UNCHANGED replica
    BY <1>2 DEF Advances
  <1>3. Publishing \/ Syncing \/ Faulting \/ UNCHANGED vars => UNCHANGED replica
    BY DEF Publishing, Publish, Syncing, Faulting, Advertise, SendDelta, SendState, Lose,
           Damage, vars
  <1> QED
    BY <1>1, <1>2, <1>3 DEF Next

(* No step takes a key from a replica or an older entry to it.             *)
THEOREM NeverRegresses == Spec => NeverRegress
  <1>1. IInv /\ [Next]_vars => [\A n \in Nodes : Advances(replica[n], replica'[n])]_vars
    BY StepAdvances
  <1> QED
    BY <1>1, Invariance, PTL DEF Spec, NeverRegress

LEMMA InitSigned == Init => SignedInTime /\ (StrictClock => TimesDiffer)
  BY DEF Init, SignedInTime, TimesDiffer

(* What publishers sign is dated by their clocks: never before the first   *)
(* time these show and, with strict clocks, never twice for one time.      *)
THEOREM SignedInvariance == Spec => [](SignedInTime /\ (StrictClock => TimesDiffer))
  <1> USE DEF Spec
  <1> QED
    BY InitSigned, SignedStep, Invariance, PTL

(* A delta tells its receiver as much as the whole state would, however    *)
(* old the summary it is computed against, if no clock shows zero.         *)
THEOREM DeltaIsEnough ==
    ASSUME FirstTime > 0
    PROVE  Spec => []DeltaSuffices
  <1>1. IInv /\ SignedInTime => DeltaSuffices
    <2> SUFFICES ASSUME IInv, SignedInTime, NEW n \in Nodes, NEW m \in Nodes
                 PROVE  Join(replica[m], DeltaAgainst(replica[n], heard[n][m]))
                            = Join(replica[m], replica[n])
      BY DEF DeltaSuffices
    <2>1. \A k \in Present(replica[n]) : replica[n][k].ts > 0
      <3> TAKE k \in Present(replica[n])
      <3>1. replica[n][k] \in signed
        BY DEF IInv, OnlySigned
      <3>2. replica[n][k].ts >= FirstTime /\ replica[n][k].ts \in Nat
        BY <3>1 DEF SignedInTime, IInv, TypeOK, Entry, Time
      <3> QED
        BY <3>2, NodesAssumption
    <2> QED
      BY <2>1, DeltaJoin DEF IInv, TypeOK, HeardIsBehind
  <1> QED
    BY <1>1, Invariance, SignedInvariance, PTL

(* With strict clocks, replicas with equal summaries are equal.            *)
THEOREM SummaryDeterminesState ==
    ASSUME StrictClock
    PROVE  Spec => []SummaryDetermines
  <1>1. IInv /\ (StrictClock => TimesDiffer) => SummaryDetermines
    <2> SUFFICES ASSUME IInv, TimesDiffer, NEW n \in Nodes, NEW m \in Nodes,
                        Summarize(replica[n]) = Summarize(replica[m])
                 PROVE  replica[n] = replica[m]
      BY DEF SummaryDetermines
    <2>1. Present(replica[n]) = Present(replica[m])
      <3>1. \A st : DOMAIN Summarize(st) = Present(st)
        BY DEF Summarize
      <3> QED
        BY <3>1
    <2>2. ASSUME NEW k \in Pubkeys PROVE replica[n][k] = replica[m][k]
      <3>1. CASE k \notin Present(replica[n])
        BY <2>1, <3>1 DEF Present
      <3>2. CASE k \in Present(replica[n])
        <4>1. Summarize(replica[n])[k] = Summarize(replica[m])[k]
          OBVIOUS
        <4>2. replica[n][k].ts = replica[m][k].ts
          BY <2>1, <3>2, <4>1 DEF Summarize
        <4> QED
          BY <2>1, <3>2, <4>2 DEF IInv, OnlySigned, TimesDiffer
      <3> QED
        BY <3>1, <3>2
    <2> QED
      BY <2>2 DEF IInv, TypeOK, ContractState
  <1> QED
    BY <1>1, Invariance, SignedInvariance, PTL

(* With strict clocks, two updates in flight commute on every replica.     *)
THEOREM OrderDoesNotMatter ==
    ASSUME StrictClock
    PROVE  Spec => []OrderIrrelevant
  <1>1. IInv /\ (StrictClock => TimesDiffer) => OrderIrrelevant
    <2> SUFFICES ASSUME IInv, TimesDiffer, NEW x \in net, NEW y \in net, NEW n \in Nodes
                 PROVE  Join(Join(replica[n], x.delta), y.delta)
                            = Join(Join(replica[n], y.delta), x.delta)
      BY DEF OrderIrrelevant
    <2>1. x.delta \in KeyedDelta /\ y.delta \in KeyedDelta /\ replica[n] \in ContractState
      BY DEF IInv, TypeOK, Message
    <2> SUFFICES ASSUME NEW k \in Pubkeys
                 PROVE  Join(Join(replica[n], x.delta), y.delta)[k]
                            = Join(Join(replica[n], y.delta), x.delta)[k]
      BY DEF Join
    <2> DEFINE u == x.delta[k]
               v == y.delta[k]
               old == replica[n][k]
    <2>2. /\ u = NoEntry \/ (u.key = k /\ u.ts \in Nat /\ u.ok \in BOOLEAN)
          /\ v = NoEntry \/ (v.key = k /\ v.ts \in Nat /\ v.ok \in BOOLEAN)
          /\ old = NoEntry \/ old.ts \in Nat
      BY <2>1 DEF KeyedDelta, ContractState, Stored, Entry, Time
    <2>3. u # NoEntry /\ u.ok /\ v # NoEntry /\ v.ok /\ u.ts = v.ts => u = v
      BY <2>2 DEF IInv, NetSigned, TimesDiffer, Present
    <2>4. \A st : \A d \in KeyedDelta :
             Join(st, d)[k] = IF d[k] # NoEntry /\ d[k].ok /\ (st[k] = NoEntry \/ st[k].ts < d[k].ts)
                              THEN d[k] ELSE st[k]
      BY DEF Join, Accepts, Beats, KeyedDelta
    <2> QED
      BY <2>1, <2>2, <2>3, <2>4
  <1> QED
    BY <1>1, Invariance, SignedInvariance, PTL

(* The replicas implement the store of last-writer-wins registers.         *)
THEOREM Implements == Spec => ImplementsLww
  <1>1. Init => Lww!Init
    BY DEF Init, Lww!Init, EmptyState, Lww!EmptyState
  <1>2. IInv /\ IInv' /\ [Next]_vars => [Lww!Next]_<<signed, replica>>
    <2> SUFFICES ASSUME IInv, IInv', [Next]_vars
                 PROVE  Lww!Next \/ UNCHANGED <<signed, replica>>
      OBVIOUS
    <2>1. CASE Publishing
      <3> PICK p \in Pubkeys, t \in Time, b \in Bodies, n \in Nodes : Publish(p, t, b, n)
        BY <2>1 DEF Publishing
      <3>1. [key |-> p, ts |-> t, body |-> b, ok |-> TRUE] \in Entry
        BY DEF Entry
      <3>2. Lww!Write
        BY <3>1 DEF Publish, Lww!Write, Entry, Lww!Entry, Time, Lww!Time
      <3> QED
        BY <3>2 DEF Lww!Next
    <2>2. CASE Delivering
      <3> PICK msg \in net, gone \in BOOLEAN : Receive(msg, gone)
        BY <2>2 DEF Delivering
      <3>1. msg.to \in Nodes
        BY DEF IInv, TypeOK, Message
      <3>2. UNCHANGED signed
        BY DEF Receive
      <3>3. replica' = [replica EXCEPT ![msg.to] = replica'[msg.to]]
        BY <3>1 DEF Receive, IInv, TypeOK
      <3>4. Advances(replica[msg.to], replica'[msg.to])
        BY <3>1, StepAdvances
      <3>5. ASSUME NEW k \in Pubkeys, replica'[msg.to][k] # replica[msg.to][k]
            PROVE  Lww!Newer(msg.to, k)
        <4>1. replica'[msg.to][k] # NoEntry /\ Beats(replica'[msg.to][k], replica[msg.to][k])
          BY <3>4, <3>5 DEF Advances
        <4>2. replica'[msg.to][k] \in signed /\ replica'[msg.to][k].key = k
          BY <3>1, <3>2, <4>1 DEF IInv, OnlySigned, Present
        <4> QED
          BY <4>1, <4>2 DEF Lww!Newer, Lww!Beats, Beats
      <3>6. DOMAIN replica'[msg.to] = Pubkeys
        BY <3>1 DEF IInv, TypeOK, ContractState
      <3>7. Lww!Learn(msg.to)
        BY <3>2, <3>3, <3>5, <3>6 DEF Lww!Learn
      <3> QED
        BY <3>1, <3>7 DEF Lww!Next
    <2>3. Syncing \/ Faulting \/ UNCHANGED vars => UNCHANGED <<signed, replica>>
      BY DEF Syncing, Faulting, Advertise, SendDelta, SendState, Lose, Damage, vars
    <2> QED
      BY <2>1, <2>2, <2>3 DEF Next
  <1> QED
    BY <1>1, <1>2, Invariance, PTL DEF Spec, ImplementsLww, Lww!Spec
=============================================================================
