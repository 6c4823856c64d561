-------------------------- MODULE Dashboard_proofs --------------------------
(***************************************************************************)
(* Proofs about the browser's subscription: the types, what the status     *)
(* pill says, and that what a frame brings is shown, for any feeds, keys,  *)
(* timestamps and numbers of frames.                                       *)
(***************************************************************************)
EXTENDS Dashboard, NaturalSets, SequenceTheorems

(***************************************************************************)
(* There is a socket for a feed and for nothing else, and only an open one *)
(* has requests, notifications and frames.                                 *)
(***************************************************************************)
SocketInv ==
    /\ socket = "none" <=> setting \notin Feeds
    /\ socket # "open" => asked = {} /\ subscribed = FALSE /\ frames = <<>>

(* on_entry starts from an old map, but no newer one than the map shown.   *)
ShownCoversCaptured ==
    \A k \in Pubkeys :
        captured[k] # NoEntry =>
            remoteEntries[k] # NoEntry /\ remoteEntries[k].ts >= captured[k].ts

IInv == TypeOK /\ SocketInv /\ StatusTruth /\ ShownCoversCaptured

-----------------------------------------------------------------------------
(***************************************************************************)
(* Joining a state with a part.                                            *)
(***************************************************************************)
LEMMA EntryFields ==
    ASSUME NEW e \in Entry
    PROVE  e # NoEntry /\ e.key \in Pubkeys /\ e.ts \in Nat /\ e.ok \in BOOLEAN
  BY NoEntryAssumption DEF Entry, Time

LEMMA StateFields ==
    ASSUME NEW st \in ContractState
    PROVE  /\ DOMAIN st = Pubkeys /\ st \in KeyedDelta
           /\ \A k \in Pubkeys : st[k] # NoEntry =>
                 st[k] \in Entry /\ st[k].key = k /\ st[k].ok /\ st[k].ts \in Nat
  <1>1. st \in [Pubkeys -> Entry \cup {NoEntry}]
    BY DEF ContractState
  <1>2. \A k \in Pubkeys : st[k] # NoEntry => st[k] \in Entry /\ st[k].key = k /\ st[k].ok
    BY DEF ContractState, Stored
  <1>3. \A k \in Pubkeys : st[k] # NoEntry => st[k].ts \in Nat
    BY <1>2, EntryFields
  <1> QED
    BY <1>1, <1>2, <1>3 DEF KeyedDelta

LEMMA EmptyType == EmptyState \in ContractState
  BY DEF EmptyState, ContractState

LEMMA SingleType ==
    ASSUME NEW e \in Entry
    PROVE  [EmptyState EXCEPT ![e.key] = e] \in KeyedDelta
  BY EntryFields DEF EmptyState, KeyedDelta

LEMMA ApplyType ==
    ASSUME NEW st \in ContractState, NEW e \in Entry
    PROVE  Apply(st, e) \in ContractState
  <1>1. CASE Accepts(st, e)
    <2>1. e.key \in Pubkeys /\ e \in Stored(e.key)
      BY <1>1, EntryFields DEF Accepts, Stored
    <2> QED
      BY <1>1, <2>1 DEF Apply, ContractState
  <1>2. CASE ~Accepts(st, e)
    BY <1>2 DEF Apply
  <1> QED
    BY <1>1, <1>2

(* A join has everything both sides have, or something newer.              *)
LEMMA JoinFacts ==
    ASSUME NEW st \in ContractState, NEW d \in KeyedDelta
    PROVE  /\ Join(st, d) \in ContractState
           /\ AtLeast(Join(st, d), d)
           /\ \A k \in Pubkeys :
                 st[k] # NoEntry => Join(st, d)[k] # NoEntry /\ Join(st, d)[k].ts >= st[k].ts
  <1>1. \A k \in Pubkeys : d[k] # NoEntry =>
            d[k] \in Entry /\ d[k].key = k /\ d[k].ts \in Nat /\ d[k].ok \in BOOLEAN
    BY EntryFields DEF KeyedDelta
  <1>2. \A k \in Pubkeys :
            Join(st, d)[k] = IF d[k] # NoEntry /\ Accepts(st, d[k]) THEN d[k] ELSE st[k]
    BY DEF Join
  <1>3. \A k \in Pubkeys : st[k] # NoEntry => st[k].ts \in Nat
    BY StateFields
  <1>4. ASSUME NEW k \in Pubkeys
        PROVE  /\ Join(st, d)[k] = NoEntry \/ Join(st, d)[k] \in Stored(k)
               /\ d[k] # NoEntry /\ d[k].ok =>
                     Join(st, d)[k] # NoEntry /\ Join(st, d)[k].ts >= d[k].ts
               /\ st[k] # NoEntry =>
                     Join(st, d)[k] # NoEntry /\ Join(st, d)[k].ts >= st[k].ts
    <2>1. CASE d[k] # NoEntry /\ Accepts(st, d[k])
      <3>1. Join(st, d)[k] = d[k] /\ d[k].ok /\ d[k] \in Stored(k)
        BY <1>1, <1>2, <2>1 DEF Accepts, Stored
      <3>2. st[k] # NoEntry => st[k].ts < d[k].ts
        BY <1>1, <2>1 DEF Accepts, Beats
      <3> QED
        BY <1>1, <1>3, <2>1, <3>1, <3>2
    <2>2. CASE ~(d[k] # NoEntry /\ Accepts(st, d[k]))
      <3>1. Join(st, d)[k] = st[k]
        BY <1>2, <2>2
      <3>2. d[k] # NoEntry /\ d[k].ok => st[k] # NoEntry /\ st[k].ts >= d[k].ts
        BY <1>1, <1>3, <2>2 DEF Accepts, Beats
      <3>3. st[k] = NoEntry \/ st[k] \in Stored(k)
        BY DEF ContractState
      <3> QED
        BY <1>3, <3>1, <3>2, <3>3
    <2> QED
      BY <2>1, <2>2
  <1>5. Join(st, d) \in [Pubkeys -> Entry \cup {NoEntry}]
    BY <1>4 DEF Join, Stored
  <1>6. Join(st, d) \in ContractState
    BY <1>4, <1>5 DEF ContractState
  <1> QED
    BY <1>4, <1>6 DEF AtLeast, Present

-----------------------------------------------------------------------------
(***************************************************************************)
(* Frames: what the node sends, and what handling one shows.               *)
(***************************************************************************)
LEMMA PartTypes ==
    /\ Unparsable \in Part
    /\ \A d \in KeyedDelta : Whole(d) \in Part
    /\ \A st \in ContractState : Whole(st) \in Part
  BY EmptyType, StateFields DEF Unparsable, Whole, Part

LEMMA FrameTypes ==
    /\ \A what \in {"subscribeResponse", "hostError", "garbled", "ignored"} :
          [what |-> what, parts |-> <<>>] \in Frame
    /\ \A what \in {"getResponse", "update"}, parts \in Seq(Part) :
          [what |-> what, parts |-> parts] \in Frame
  BY DEF Frame

LEMMA SendsType ==
    ASSUME TypeOK, NEW what, NEW parts, Sends(what, parts),
           [what |-> what, parts |-> parts] \in Frame
    PROVE  frames' \in Seq(Frame) /\ Len(frames') <= MaxFrames /\ socket = "open"
  <1>1. frames' = Append(frames, [what |-> what, parts |-> parts]) /\ socket = "open"
        /\ Len(frames) < MaxFrames
    BY DEF Sends
  <1>2. frames' \in Seq(Frame) /\ Len(frames') = Len(frames) + 1 /\ Len(frames) \in Nat
    BY <1>1, AppendProperties DEF TypeOK
  <1> QED
    BY <1>1, <1>2, DashboardAssumption

LEMMA OnEntryType ==
    ASSUME TypeOK, NEW part \in Part
    PROVE  /\ OnEntry(part) \in ContractState
           /\ part.parses => AtLeast(OnEntry(part), part.batch)
           /\ \A k \in Pubkeys : captured[k] # NoEntry =>
                 OnEntry(part)[k] # NoEntry /\ OnEntry(part)[k].ts >= captured[k].ts
  <1>1. part.batch \in KeyedDelta /\ captured \in ContractState
    BY DEF Part, TypeOK
  <1>2. \A k \in Pubkeys : captured[k] # NoEntry => captured[k].ts >= captured[k].ts
    BY <1>1, StateFields
  <1> QED
    BY <1>1, <1>2, JoinFacts DEF OnEntry

(* What is shown after a frame is what was shown before or what one of its *)
(* parts makes of the old map; it has what the last part brings.           *)
LEMMA ShownAfterFacts ==
    ASSUME IInv, NEW parts \in Seq(Part)
    PROVE  /\ ShownAfter(parts) \in ContractState
           /\ \A k \in Pubkeys : captured[k] # NoEntry =>
                 ShownAfter(parts)[k] # NoEntry /\ ShownAfter(parts)[k].ts >= captured[k].ts
           /\ parts # <<>> /\ parts[Len(parts)].parses =>
                 AtLeast(ShownAfter(parts), parts[Len(parts)].batch)
  <1> DEFINE setters == {i \in DOMAIN parts : OnEntry(parts[i]) # captured}
             now == ShownAfter(parts)
             n == Len(parts)
  <1>0. n \in Nat /\ DOMAIN parts = 1 .. n /\ \A i \in 1 .. n : parts[i] \in Part
    OBVIOUS
  <1>1. setters \in SUBSET (1 .. n) /\ TypeOK
    BY <1>0 DEF IInv
  <1>2. now = IF setters = {} THEN remoteEntries ELSE OnEntry(parts[Max(setters)])
    BY DEF ShownAfter
  <1>3. setters # {} => Max(setters) \in setters /\ \A i \in setters : Max(setters) >= i
    BY <1>0, <1>1, MaxOfPositions
  <1>4. /\ now \in ContractState
        /\ \A k \in Pubkeys : captured[k] # NoEntry =>
              now[k] # NoEntry /\ now[k].ts >= captured[k].ts
    <2>1. CASE setters = {}
      BY <1>2, <2>1 DEF IInv, TypeOK, ShownCoversCaptured
    <2>2. CASE setters # {}
      BY <1>0, <1>1, <1>2, <1>3, <2>2, OnEntryType
    <2> QED
      BY <2>1, <2>2
  <1>5. ASSUME parts # <<>>, parts[n].parses
        PROVE  AtLeast(now, parts[n].batch)
    <2>1. n \in 1 .. n /\ parts[n] \in Part
      BY <1>0, <1>5
    <2>2. AtLeast(OnEntry(parts[n]), parts[n].batch)
      BY <1>1, <1>5, <2>1, OnEntryType
    <2>3. CASE n \in setters
      <3>1. Max(setters) = n
        <4> DEFINE m == Max(setters)
        <4>1. m \in setters /\ m >= n
          BY <1>3, <2>3
        <4>2. m \in 1 .. n
          BY <1>1, <4>1
        <4> HIDE DEF m, n
        <4>3. m = n
          BY <1>0, <4>1, <4>2
        <4> QED
          BY <4>3 DEF m
      <3> QED
        BY <1>2, <2>2, <2>3, <3>1
    <2>4. CASE n \notin setters
      <3>1. AtLeast(captured, parts[n].batch)
        BY <1>0, <2>1, <2>2, <2>4
      <3>2. /\ \A k \in Pubkeys : captured[k] # NoEntry => captured[k].ts \in Nat
            /\ \A k \in Pubkeys : now[k] # NoEntry => now[k].ts \in Nat
            /\ \A k \in Pubkeys : parts[n].batch[k] # NoEntry => parts[n].batch[k].ts \in Nat
        <4>1. parts[n].batch \in KeyedDelta
          BY <2>1 DEF Part
        <4> QED
          BY <1>1, <1>4, <4>1, StateFields, EntryFields DEF TypeOK, KeyedDelta
      <3> HIDE DEF now, n
      <3> QED
        BY <1>4, <3>1, <3>2 DEF AtLeast, Present
    <2> QED
      BY <2>3, <2>4
  <1> QED
    BY <1>4, <1>5

-----------------------------------------------------------------------------
(***************************************************************************)
(* Every step keeps the invariant.                                         *)
(***************************************************************************)
LEMMA ConfiguredInv ==
    ASSUME NEW s \in Settings
    PROVE  /\ SocketOf(s) \in {"none", "connecting"} /\ (SocketOf(s) = "none" <=> s \notin Feeds)
           /\ StatusOf(s) \in {"disabled", "error", "connecting"}
           /\ StatusOf(s) = "disabled" <=> s = "off"
           /\ StatusOf(s) = "connecting" <=> SocketOf(s) = "connecting"
  BY DashboardAssumption DEF Settings, SocketOf, StatusOf

LEMMA InitInv == Init => IInv
  <1> SUFFICES ASSUME Init PROVE IInv
    OBVIOUS
  <1>1. TypeOK
    <2>1. frames \in Seq(Frame) /\ Len(frames) <= MaxFrames
      BY DashboardAssumption DEF Init
    <2>2. abandoned \in Nat /\ abandoned <= MaxAbandoned
      BY DashboardAssumption DEF Init
    <2> QED
      BY <2>1, <2>2, EmptyType, ConfiguredInv DEF Init, TypeOK
  <1>2. SocketInv /\ StatusTruth
    BY ConfiguredInv, DashboardAssumption DEF Init, SocketInv, StatusTruth
  <1>3. ShownCoversCaptured
    BY DEF Init, ShownCoversCaptured, EmptyState
  <1> QED
    BY <1>1, <1>2, <1>3 DEF IInv

LEMMA ConfigureInv ==
    ASSUME IInv, NEW s \in Settings, Configure(s)
    PROVE  IInv'
  <1>1. frames' \in Seq(Frame) /\ Len(frames') <= MaxFrames
    BY DashboardAssumption DEF Configure
  <1>2. TypeOK'
    <2>1. abandoned' \in Nat /\ abandoned' <= MaxAbandoned
      BY DashboardAssumption DEF Configure, Abandoned, IInv, TypeOK
    <2> QED
      BY <1>1, <2>1, ConfiguredInv DEF Configure, IInv, TypeOK
  <1>3. SocketInv' /\ StatusTruth'
    BY ConfiguredInv, DashboardAssumption DEF Configure, SocketInv, StatusTruth
  <1>4. ShownCoversCaptured'
    BY StateFields DEF Configure, IInv, TypeOK, ShownCoversCaptured
  <1> QED
    BY <1>2, <1>3, <1>4 DEF IInv

LEMMA SocketEventInv ==
    ASSUME IInv, OnOpen \/ OnClose
    PROVE  IInv'
  <1>1. frames' \in Seq(Frame) /\ Len(frames') <= MaxFrames
    <2>1. CASE OnOpen
      BY <2>1 DEF OnOpen, IInv, TypeOK
    <2>2. CASE OnClose
      BY <2>2, DashboardAssumption DEF OnClose, Drops
    <2> QED
      BY <2>1, <2>2
  <1>2. TypeOK'
    BY <1>1 DEF OnOpen, SendRequests, OnClose, Drops, IInv, TypeOK, shown, left, Requests
  <1>3. SocketInv' /\ StatusTruth'
    BY DashboardAssumption
       DEF OnOpen, SendRequests, OnClose, Drops, IInv, TypeOK, SocketInv, StatusTruth, left
  <1>4. ShownCoversCaptured'
    BY DEF OnOpen, OnClose, Drops, IInv, shown, ShownCoversCaptured
  <1> QED
    BY <1>2, <1>3, <1>4 DEF IInv

(* What an abandoned client says is neither that nothing is subscribed nor *)
(* that anything is, and from then on it may be wrong.                     *)
LEMMA AbandonedInv ==
    ASSUME IInv, AbandonedOpens \/ AbandonedFails
    PROVE  IInv'
  <1>1. /\ status' \in {"subscribing", "error"} /\ overruled' = TRUE
        /\ abandoned > 0 /\ abandoned' = abandoned - 1
        /\ UNCHANGED <<contract, setting, conn, frames, shown, failed>>
    BY DEF AbandonedOpens, AbandonedFails, AbandonedEnds
  <1>2. abandoned' \in Nat /\ abandoned' <= MaxAbandoned
    BY <1>1, DashboardAssumption DEF IInv, TypeOK
  <1>3. TypeOK'
    BY <1>1, <1>2 DEF IInv, TypeOK, conn, shown
  <1>4. SocketInv' /\ StatusTruth' /\ ShownCoversCaptured'
    BY <1>1 DEF IInv, SocketInv, StatusTruth, ShownCoversCaptured, conn, shown
  <1> QED
    BY <1>3, <1>4 DEF IInv

(* The node answers, or sends something, over an open socket; nothing else *)
(* of the browser's state changes.                                         *)
LEMMA NodeInv ==
    ASSUME IInv, UNCHANGED <<setting, socket, shown, status, left>>,
           frames' \in Seq(Frame), Len(frames') <= MaxFrames,
           contract' \in [Feeds -> ContractState],
           asked' \subseteq asked, subscribed' \in BOOLEAN, failed' \in BOOLEAN,
           socket = "open" \/ UNCHANGED <<asked, subscribed, frames>>
    PROVE  IInv'
  <1>1. TypeOK'
    BY DEF IInv, TypeOK, shown, left
  <1>2. SocketInv' /\ StatusTruth' /\ ShownCoversCaptured'
    BY DEF IInv, SocketInv, StatusTruth, ShownCoversCaptured, shown, left
  <1> QED
    BY <1>1, <1>2 DEF IInv

LEMMA AnswersInv ==
    ASSUME IInv, AnswerSubscribe \/ AnswerGet
    PROVE  IInv'
  <1>1. PICK what, parts : Sends(what, parts) /\ [what |-> what, parts |-> parts] \in Frame
    <2>1. CASE AnswerSubscribe
      BY <2>1, FrameTypes DEF AnswerSubscribe
    <2>2. CASE AnswerGet
      <3>1. setting \in Feeds
        BY <2>2 DEF AnswerGet, IInv, SocketInv
      <3>2. <<Whole(contract[setting])>> \in Seq(Part) /\ <<Unparsable>> \in Seq(Part)
        BY <3>1, PartTypes DEF IInv, TypeOK
      <3> QED
        BY <2>2, <3>2, FrameTypes DEF AnswerGet
    <2> QED
      BY <2>1, <2>2
  <1>2. frames' \in Seq(Frame) /\ Len(frames') <= MaxFrames /\ socket = "open"
    BY <1>1, SendsType DEF IInv
  <1>3. /\ UNCHANGED <<setting, socket, shown, status, contract, left>>
        /\ asked' \subseteq asked /\ subscribed' \in BOOLEAN /\ failed' \in BOOLEAN
    BY DEF AnswerSubscribe, AnswerGet, IInv, TypeOK
  <1> QED
    BY <1>2, <1>3, NodeInv DEF IInv, TypeOK

LEMMA ChangeInv ==
    ASSUME IInv, NEW f \in Feeds, NEW e \in Entry, Change(f, e)
    PROVE  IInv'
  <1> DEFINE changed == Apply(contract[f], e)
             delta == [EmptyState EXCEPT ![e.key] = e]
  <1>1. changed \in ContractState /\ delta \in KeyedDelta
    BY ApplyType, SingleType DEF IInv, TypeOK
  <1>2. /\ contract' = [contract EXCEPT ![f] = changed]
        /\ UNCHANGED <<setting, conn, shown, status, failed, left>>
        /\ \/ UNCHANGED frames
           \/ \E parts \in {<<Whole(delta)>>, <<Whole(changed)>>, <<Whole(changed), Whole(delta)>>} :
                  Sends("update", parts)
    BY DEF Change
  <1> HIDE DEF changed, delta
  <1>3. contract' \in [Feeds -> ContractState]
    BY <1>1, <1>2 DEF IInv, TypeOK
  <1>4. Whole(delta) \in Part /\ Whole(changed) \in Part
    BY <1>1, PartTypes
  <1>5. {<<Whole(delta)>>, <<Whole(changed)>>, <<Whole(changed), Whole(delta)>>} \subseteq Seq(Part)
    BY <1>4
  <1>6. /\ frames' \in Seq(Frame) /\ Len(frames') <= MaxFrames
        /\ socket = "open" \/ UNCHANGED frames
    <2>1. CASE UNCHANGED frames
      BY <2>1 DEF IInv, TypeOK
    <2>2. CASE \E parts \in Seq(Part) : Sends("update", parts)
      BY <2>2, FrameTypes, SendsType DEF IInv
    <2> QED
      BY <1>2, <1>5, <2>1, <2>2
  <1> QED
    BY <1>2, <1>3, <1>6, NodeInv DEF conn, IInv, TypeOK

LEMMA NoiseInv ==
    ASSUME IInv, Noise
    PROVE  IInv'
  <1>1. UNCHANGED <<contract, setting, conn, shown, status, failed, left>>
    BY DEF Noise
  <1>2. <<Unparsable>> \in Seq(Part)
        /\ \A e \in Entry : <<Whole([EmptyState EXCEPT ![e.key] = e])>> \in Seq(Part)
    BY PartTypes, SingleType
  <1>3. PICK what, parts : Sends(what, parts) /\ [what |-> what, parts |-> parts] \in Frame
    BY <1>2, FrameTypes DEF Noise
  <1>4. frames' \in Seq(Frame) /\ Len(frames') <= MaxFrames /\ socket = "open"
    BY <1>3, SendsType DEF IInv
  <1> QED
    BY <1>1, <1>4, NodeInv DEF conn, IInv, TypeOK

LEMMA OnMessageInv ==
    ASSUME IInv, OnMessage
    PROVE  /\ IInv'
           /\ Head(frames).parts \in Seq(Part)
           /\ remoteEntries' = ShownAfter(Head(frames).parts)
  <1>1. /\ socket = "open" /\ frames # <<>> /\ frames' = Tail(frames)
        /\ remoteEntries' = ShownAfter(Head(frames).parts)
        /\ seen' = Join(seen, remoteEntries')
        /\ status' = StatusAfter(Head(frames))
        /\ UNCHANGED <<contract, setting, socket, asked, subscribed, captured, failed, left>>
    BY DEF OnMessage, conn
  <1>2. /\ Head(frames) \in Frame /\ Tail(frames) \in Seq(Frame)
        /\ Len(Tail(frames)) <= MaxFrames
    <2>1. Len(Tail(frames)) = Len(frames) - 1 /\ Len(frames) \in Nat
          /\ Head(frames) \in Frame /\ Tail(frames) \in Seq(Frame)
      BY <1>1, HeadTailProperties DEF IInv, TypeOK
    <2> QED
      BY <2>1, DashboardAssumption DEF IInv, TypeOK
  <1>3. Head(frames).parts \in Seq(Part)
    <2>1. Head(frames).parts \in {<<>>} \cup Seq(Part)
      BY <1>2 DEF Frame
    <2>2. <<>> \in Seq(Part)
      BY EmptySeq
    <2> QED
      BY <2>1, <2>2
  <1>4. /\ remoteEntries' \in ContractState /\ ShownCoversCaptured'
    BY <1>1, <1>3, ShownAfterFacts DEF ShownCoversCaptured
  <1>5. seen' \in ContractState
    BY <1>1, <1>4, JoinFacts, StateFields DEF IInv, TypeOK
  <1>6. status' \in {"subscribed", "error"} \/ status' = status
    BY <1>1, <1>2 DEF StatusAfter, Frame
  <1>7. TypeOK'
    BY <1>1, <1>2, <1>4, <1>5, <1>6 DEF IInv, TypeOK, left
  <1>8. SocketInv' /\ StatusTruth'
    <2>1. setting # "off"
      BY <1>1, DashboardAssumption DEF IInv, SocketInv
    <2> QED
      BY <1>1, <1>6, <2>1 DEF IInv, SocketInv, StatusTruth, left
  <1> QED
    BY <1>1, <1>3, <1>4, <1>7, <1>8 DEF IInv

LEMMA NextInv == IInv /\ [Next]_vars => IInv'
  <1> SUFFICES ASSUME IInv, [Next]_vars PROVE IInv'
    OBVIOUS
  <1>1. CASE UNCHANGED vars
    BY <1>1 DEF vars, IInv, TypeOK, SocketInv, StatusTruth, ShownCoversCaptured
  <1> QED
    BY <1>1, ConfigureInv, SocketEventInv, AbandonedInv, AnswersInv, ChangeInv, NoiseInv, OnMessageInv DEF Next

-----------------------------------------------------------------------------
(***************************************************************************)
(* The theorems.                                                           *)
(***************************************************************************)

(* Every variable keeps its type: what is shown was verified, and is under *)
(* the key that signed it.                                                 *)
THEOREM TypeCorrect == Spec => []TypeOK
  <1>1. IInv => TypeOK
    BY DEF IInv
  <1> QED
    BY InitInv, NextInv, <1>1, PTL DEF Spec

(* However clients are dropped, opened and abandoned, the status pill says *)
(* "subscribed", "connecting" and "disabled" only when that is so, and it  *)
(* always does until an abandoned client has set it.                       *)
THEOREM StatusIsTrue == Spec => []StatusTruth
  <1>1. IInv => StatusTruth
    BY DEF IInv
  <1> QED
    BY InitInv, NextInv, <1>1, PTL DEF Spec

(* What the last part of a frame brings is shown once the frame is         *)
(* handled, or something newer is, from however old a map on_entry starts. *)
THEOREM FrameShows == Spec => NewsShows
  <1>1. ASSUME IInv, OnMessage, Head(frames).parts # <<>>,
               Head(frames).parts[Len(Head(frames).parts)].parses
        PROVE  AtLeast(remoteEntries', Head(frames).parts[Len(Head(frames).parts)].batch)
    BY <1>1, OnMessageInv, ShownAfterFacts
  <1>2. IInv /\ [Next]_vars =>
          [OnMessage /\ Head(frames).parts # <<>> =>
              LET news == Head(frames).parts[Len(Head(frames).parts)]
              IN  news.parses => AtLeast(remoteEntries', news.batch)]_vars
    BY <1>1
  <1> QED
    BY InitInv, NextInv, <1>2, PTL DEF Spec, NewsShows
=============================================================================
