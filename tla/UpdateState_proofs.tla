-------------------------- MODULE UpdateState_proofs --------------------------
(***************************************************************************)
(* The loop of update_state computes Merge, for any lists of updates.      *)
(*                                                                         *)
(* The inductive invariant is the loop invariant, LoopIsMerge, with the    *)
(* types of the variables and HasWinner: for every key for which some      *)
(* entry beats the incumbent, one entry beats all others.  HasWinner is    *)
(* what makes the CHOOSE in Merge name something; it is carried along the  *)
(* loop because no entry list needs to be taken apart to establish it.     *)
(***************************************************************************)
EXTENDS UpdateState, TLAPS

HasWinner ==
    \A k \in Pubkeys :
        Candidates(input, applied, k) # {} =>
            \E i \in Candidates(input, applied, k) : Wins(input, applied, k, i)

(* Inside a loop, the update it belongs to has been taken.                 *)
InLoop == pc \in {"state", "delta"} => at > 1

IInv == TypeOK /\ InLoop /\ HasWinner /\ LoopIsMerge

-----------------------------------------------------------------------------
(***************************************************************************)
(* How far the call has got: the entries it has not accounted for yet are  *)
(* those in todo and, while the state part of an update runs, those of its *)
(* delta part; the same for the bytes that do not deserialize.             *)
(***************************************************************************)
Covered(st, e) == st[e.key] # NoEntry /\ st[e.key].ts >= e.ts

Pending(i, es, e) ==
    /\ i = at - 1
    /\ \/ pc \in {"state", "delta"} /\ \E m \in DOMAIN todo : todo[m] = e
       \/ pc = "state" /\ data[i].kind = "both" /\ es = data[i].delta

TakenSoFar ==
    pc # "error" =>
        \A i \in 1 .. at - 1 : \A es \in Parts(data[i]) : \A j \in DOMAIN es :
            es[j].ok => Covered(current, es[j]) \/ Pending(i, es, es[j])

ParsedSoFar ==
    /\ \A i \in 1 .. at - 1 :
          Malformed(data[i]) =>
              \/ pc = "error"
              \/ i = at - 1 /\ pc = "state" /\ data[i].kind = "both"
    /\ pc = "error" => \E i \in DOMAIN data : Malformed(data[i])

LoopOfUpdate ==
    /\ pc = "state" => data[at - 1].kind \in {"state", "both"} /\ data[at - 1].stateParses
    /\ pc = "modified" => at = Len(data) + 1

SInv == IInv /\ TakenSoFar /\ ParsedSoFar /\ LoopOfUpdate

-----------------------------------------------------------------------------
(***************************************************************************)
(* Facts about apply and about the candidates of a longer list.            *)
(***************************************************************************)
LEMMA ApplyType ==
    ASSUME NEW st \in ContractState, NEW e \in Entry
    PROVE  Apply(st, e) \in ContractState
  <1>1. CASE Accepts(st, e)
    <2>1. e.key \in Pubkeys /\ e \in Stored(e.key)
      BY <1>1 DEF Accepts, Stored, Entry
    <2>2. Apply(st, e) = [st EXCEPT ![e.key] = e]
      BY <1>1 DEF Apply
    <2> QED
      BY <2>1, <2>2 DEF ContractState
  <1>2. CASE ~Accepts(st, e)
    BY <1>2 DEF Apply
  <1> QED
    BY <1>1, <1>2

LEMMA CandidatesType ==
    ASSUME NEW st, NEW es \in Seq(Entry), NEW k, NEW i \in Candidates(st, es, k)
    PROVE  /\ i \in 1 .. Len(es) /\ i \in Nat
           /\ es[i] \in Entry /\ es[i].ts \in Nat
           /\ es[i].key = k /\ es[i].ok /\ Beats(es[i], st[k])
  <1>1. i \in DOMAIN es /\ es[i].key = k /\ es[i].ok /\ Beats(es[i], st[k])
    BY DEF Candidates
  <1>2. i \in 1 .. Len(es) /\ es[i] \in Entry
    BY <1>1
  <1> QED
    BY <1>1, <1>2 DEF Entry, Time

(* There is at most one winner.                                            *)
LEMMA WinnerUnique ==
    ASSUME NEW st, NEW es \in Seq(Entry), NEW k,
           NEW i, NEW j, Wins(st, es, k, i), Wins(st, es, k, j)
    PROVE  i = j
  <1>1. i \in Candidates(st, es, k) /\ j \in Candidates(st, es, k)
    BY DEF Wins
  <1>2. i \in Nat /\ j \in Nat /\ es[i].ts \in Nat /\ es[j].ts \in Nat
    BY <1>1, CandidatesType
  <1>3. /\ es[j].ts < es[i].ts \/ (es[j].ts = es[i].ts /\ i <= j)
        /\ es[i].ts < es[j].ts \/ (es[i].ts = es[j].ts /\ j <= i)
    BY <1>1 DEF Wins
  <1> QED
    BY <1>2, <1>3

(* What Merge holds for a key, given a winner.                             *)
LEMMA MergeAtWinner ==
    ASSUME NEW st, NEW es \in Seq(Entry), NEW k \in Pubkeys, NEW w, Wins(st, es, k, w)
    PROVE  Merge(st, es)[k] = es[w]
  <1> DEFINE c == CHOOSE i \in Candidates(st, es, k) : Wins(st, es, k, i)
  <1>1. w \in Candidates(st, es, k)
    BY DEF Wins
  <1>2. Wins(st, es, k, c)
    BY <1>1
  <1>3. c = w
    BY <1>2, WinnerUnique
  <1> HIDE DEF c
  <1>4. Merge(st, es)[k] = es[c]
    BY <1>1 DEF Merge, c
  <1> QED
    BY <1>3, <1>4

LEMMA AppendFacts ==
    ASSUME NEW es \in Seq(Entry), NEW e \in Entry
    PROVE  /\ Append(es, e) \in Seq(Entry)
           /\ Len(es) \in Nat
           /\ DOMAIN Append(es, e) = 1 .. (Len(es) + 1)
           /\ DOMAIN es = 1 .. Len(es)
           /\ Append(es, e)[Len(es) + 1] = e
           /\ \A i \in 1 .. Len(es) : Append(es, e)[i] = es[i]
  OBVIOUS

(* One more entry adds itself to the candidates, or nothing.               *)
LEMMA CandidatesAppend ==
    ASSUME NEW st, NEW es \in Seq(Entry), NEW e \in Entry, NEW k
    PROVE  Candidates(st, Append(es, e), k) =
              IF e.ok /\ e.key = k /\ Beats(e, st[k])
              THEN Candidates(st, es, k) \cup {Len(es) + 1}
              ELSE Candidates(st, es, k)
  BY AppendFacts DEF Candidates

-----------------------------------------------------------------------------
(***************************************************************************)
(* One iteration: if the prefix has its winners and the working copy is    *)
(* their merge, so it is with one entry more.                              *)
(***************************************************************************)
LEMMA MergeStep ==
    ASSUME NEW st \in ContractState, NEW es \in Seq(Entry), NEW e \in Entry,
           NEW k \in Pubkeys,
           Candidates(st, es, k) # {}
               => \E i \in Candidates(st, es, k) : Wins(st, es, k, i)
    PROVE  /\ Candidates(st, Append(es, e), k) # {}
               => \E i \in Candidates(st, Append(es, e), k) : Wins(st, Append(es, e), k, i)
           /\ Merge(st, Append(es, e))[k] = Apply(Merge(st, es), e)[k]
  <1> DEFINE more == Append(es, e)
             n == Len(es) + 1
             old == Merge(st, es)[k]
  <1>0. /\ more \in Seq(Entry) /\ more[n] = e /\ \A i \in 1 .. Len(es) : more[i] = es[i]
        /\ n \in Nat /\ n > Len(es) /\ Len(es) \in Nat
    BY AppendFacts
  <1>1. DOMAIN Merge(st, es) = Pubkeys
    BY DEF Merge
  <1>2. e.ts \in Nat
    BY DEF Entry, Time
  <1>3. st[k] = NoEntry \/ st[k].ts \in Nat
    BY DEF ContractState, Stored, Entry, Time
  <1>4. NoEntry \notin Entry
    BY NoEntryAssumption
  <1>5. CASE ~(e.ok /\ e.key = k /\ Beats(e, old))
    <2>1. Apply(Merge(st, es), e)[k] = old
      BY <1>1, <1>5 DEF Apply, Accepts
    <2>2. CASE Candidates(st, es, k) = {}
      <3>1. old = st[k]
        BY <2>2 DEF Merge
      <3>2. Candidates(st, more, k) = {}
        BY <1>5, <2>2, <3>1, CandidatesAppend
      <3>3. Merge(st, more)[k] = st[k]
        BY <3>2 DEF Merge
      <3> QED
        BY <2>1, <3>1, <3>2, <3>3
    <2>3. CASE Candidates(st, es, k) # {}
      <3>1. PICK w \in Candidates(st, es, k) : Wins(st, es, k, w)
        BY <2>3
      <3>2. old = es[w]
        BY <3>1, MergeAtWinner
      <3>3. w \in 1 .. Len(es) /\ w \in Nat /\ es[w] \in Entry /\ es[w].ts \in Nat
        BY CandidatesType
      <3>4. w \in Candidates(st, more, k)
        BY CandidatesAppend
      <3>5. ASSUME NEW j \in Candidates(st, more, k)
            PROVE  more[j].ts < more[w].ts \/ (more[j].ts = more[w].ts /\ w <= j)
        <4>1. CASE j \in Candidates(st, es, k)
          <5>1. es[j].ts < es[w].ts \/ (es[j].ts = es[w].ts /\ w <= j)
            BY <3>1, <4>1 DEF Wins
          <5>2. more[j] = es[j] /\ more[w] = es[w]
            BY <1>0, <3>3, <4>1, CandidatesType
          <5> QED
            BY <5>1, <5>2
        <4>2. CASE j \notin Candidates(st, es, k)
          <5>1. j = n /\ e.ok /\ e.key = k
            BY <4>2, CandidatesAppend
          <5>2. ~Beats(e, es[w])
            BY <1>5, <3>2, <5>1
          <5>3. e.ts <= es[w].ts
            BY <1>2, <1>4, <3>3, <5>2 DEF Beats
          <5> QED
            BY <1>0, <1>2, <3>3, <5>1, <5>3
        <4> QED
          BY <4>1, <4>2
      <3>6. Wins(st, more, k, w)
        BY <3>4, <3>5 DEF Wins
      <3>7. Merge(st, more)[k] = more[w]
        <4> HIDE DEF more
        <4> QED
          BY <1>0, <3>6, MergeAtWinner
      <3> QED
        BY <1>0, <2>1, <3>2, <3>3, <3>4, <3>6, <3>7
    <2> QED
      BY <2>2, <2>3
  <1>6. CASE e.ok /\ e.key = k /\ Beats(e, old)
    <2>1. Apply(Merge(st, es), e)[k] = e
      BY <1>1, <1>6 DEF Apply, Accepts
    <2>2. Beats(e, st[k]) /\ \A j \in Candidates(st, es, k) : es[j].ts < e.ts
      <3>1. CASE Candidates(st, es, k) = {}
        BY <1>6, <3>1 DEF Merge
      <3>2. CASE Candidates(st, es, k) # {}
        <4>1. PICK w \in Candidates(st, es, k) : Wins(st, es, k, w)
          BY <3>2
        <4>2. old = es[w] /\ es[w] \in Entry /\ es[w].ts \in Nat /\ Beats(es[w], st[k])
          BY <4>1, MergeAtWinner, CandidatesType
        <4>3. es[w].ts < e.ts
          BY <1>4, <1>6, <4>2 DEF Beats
        <4>4. ASSUME NEW j \in Candidates(st, es, k) PROVE es[j].ts < e.ts
          <5>1. es[j].ts \in Nat
            BY CandidatesType
          <5>2. es[j].ts <= es[w].ts
            BY <4>1, <4>2, <5>1 DEF Wins
          <5> QED
            BY <1>2, <4>2, <4>3, <5>1, <5>2
        <4>5. Beats(e, st[k])
          BY <1>2, <1>3, <4>2, <4>3 DEF Beats
        <4> QED
          BY <4>4, <4>5
      <3> QED
        BY <3>1, <3>2
    <2>3. Candidates(st, more, k) = Candidates(st, es, k) \cup {n}
      BY <1>6, <2>2, CandidatesAppend
    <2>4. ASSUME NEW j \in Candidates(st, more, k)
          PROVE  more[j].ts < more[n].ts \/ (more[j].ts = more[n].ts /\ n <= j)
      <3>1. CASE j = n
        BY <1>0, <3>1
      <3>2. CASE j \in Candidates(st, es, k)
        <4>1. more[j] = es[j]
          BY <1>0, <3>2, CandidatesType
        <4> QED
          BY <1>0, <2>2, <3>2, <4>1
      <3> QED
        BY <2>3, <3>1, <3>2
    <2>5. Wins(st, more, k, n)
      BY <2>3, <2>4 DEF Wins
    <2>6. Merge(st, more)[k] = e
      <3> HIDE DEF more, n
      <3> QED
        BY <1>0, <2>5, MergeAtWinner
    <2> QED
      BY <2>1, <2>3, <2>5, <2>6
  <1> QED
    BY <1>5, <1>6

-----------------------------------------------------------------------------
LEMMA InitInv == Init => IInv
  <1> SUFFICES ASSUME Init PROVE IInv
    OBVIOUS
  <1>1. TypeOK /\ InLoop
    BY CallsAssumption DEF Init, TypeOK, InLoop
  <1>2. \A k \in Pubkeys : Candidates(input, applied, k) = {}
    BY DEF Init, Candidates
  <1>3. HasWinner
    BY <1>2 DEF HasWinner
  <1>4. Merge(input, applied) = input
    <2>1. input \in [Pubkeys -> Entry \cup {NoEntry}]
      BY <1>1 DEF TypeOK, ContractState
    <2> QED
      BY <1>2, <2>1 DEF Merge
  <1>5. LoopIsMerge
    BY <1>4 DEF Init, LoopIsMerge
  <1> QED
    BY <1>1, <1>3, <1>5 DEF IInv

LEMMA ApplyEntryInv ==
    ASSUME IInv, ApplyEntry
    PROVE  IInv'
  <1> DEFINE e == Head(todo)
  <1>1. /\ current' = Apply(current, e) /\ applied' = Append(applied, e)
        /\ todo' = Tail(todo) /\ UNCHANGED <<input, data, at, pc>>
    BY DEF ApplyEntry
  <1>2. e \in Entry /\ Tail(todo) \in Seq(Entry)
    BY DEF ApplyEntry, IInv, TypeOK
  <1> HIDE DEF e
  <1>3. TypeOK' /\ InLoop'
    BY <1>1, <1>2, ApplyType, AppendFacts DEF IInv, TypeOK, InLoop
  <1>4. \A k \in Pubkeys :
            /\ Candidates(input, Append(applied, e), k) # {} =>
                  \E i \in Candidates(input, Append(applied, e), k) :
                      Wins(input, Append(applied, e), k, i)
            /\ Merge(input, Append(applied, e))[k] = Apply(Merge(input, applied), e)[k]
    BY <1>2, MergeStep DEF IInv, TypeOK, HasWinner
  <1>5. HasWinner'
    BY <1>1, <1>4 DEF HasWinner
  <1>6. LoopIsMerge'
    <2>1. Merge(input, Append(applied, e)) = [k \in Pubkeys |-> Apply(current, e)[k]]
      BY <1>4 DEF IInv, LoopIsMerge, Merge
    <2>2. Apply(current, e) \in [Pubkeys -> Entry \cup {NoEntry}]
      BY <1>2, ApplyType DEF IInv, TypeOK, ContractState
    <2> QED
      BY <1>1, <2>1, <2>2 DEF LoopIsMerge
  <1> QED
    BY <1>3, <1>5, <1>6 DEF IInv

(* Every other step leaves the working copy and what was applied alone.    *)
LEMMA ControlInv ==
    ASSUME IInv, TypeOK', InLoop', UNCHANGED <<input, current, applied>>
    PROVE  IInv'
  BY DEF IInv, HasWinner, LoopIsMerge

LEMMA NextInv == IInv /\ [Next]_vars => IInv'
  <1> SUFFICES ASSUME IInv, [Next]_vars PROVE IInv'
    OBVIOUS
  <1> USE DEF IInv, TypeOK, InLoop
  <1>1. CASE NextUpdate
    <2>1. data[at] \in Update
      BY <1>1, UpdatesAssumption DEF NextUpdate
    <2>2. data[at].delta \in Seq(Entry) /\ data[at].state \in Seq(Entry)
      BY <2>1 DEF Update
    <2>3. CASE TakeDelta(data[at])
      BY <1>1, <2>2, <2>3, ControlInv DEF NextUpdate, TakeDelta, Loop, Fail
    <2>4. CASE TakeState(data[at])
      BY <1>1, <2>2, <2>4, ControlInv DEF NextUpdate, TakeState, Loop, Fail
    <2>5. CASE SkipRelated(data[at])
      BY <1>1, <2>5, ControlInv DEF NextUpdate, SkipRelated
    <2> QED
      BY <1>1, <2>3, <2>4, <2>5 DEF NextUpdate
  <1>2. CASE ApplyEntry
    BY <1>2, ApplyEntryInv
  <1>3. CASE DeltaPart
    <2>1. at - 1 \in 1 .. Len(data)
      BY <1>3 DEF DeltaPart
    <2>2. data[at - 1] \in Update
      BY <2>1, UpdatesAssumption
    <2>3. data[at - 1].delta \in Seq(Entry)
      BY <2>2 DEF Update
    <2> QED
      BY <1>3, <2>3, ControlInv DEF DeltaPart, Loop, Fail
  <1>4. CASE UpdateDone
    BY <1>4, ControlInv DEF UpdateDone
  <1>5. CASE Return
    BY <1>5, ControlInv DEF Return
  <1>6. CASE Over \/ UNCHANGED vars
    BY <1>6, ControlInv DEF Over, vars
  <1> QED
    BY <1>1, <1>2, <1>3, <1>4, <1>5, <1>6 DEF Next

-----------------------------------------------------------------------------
(***************************************************************************)
(* Nothing overlooked, nothing malformed taken: step by step.              *)
(***************************************************************************)
LEMMA ApplyCovers ==
    ASSUME NEW st \in ContractState, NEW e \in Entry, NEW f \in Entry
    PROVE  /\ Covered(st, f) => Covered(Apply(st, e), f)
           /\ e.ok => Covered(Apply(st, e), e)
  <1>1. /\ e.ts \in Nat /\ f.ts \in Nat /\ e.key \in Pubkeys /\ f.key \in Pubkeys
        /\ e # NoEntry /\ e.ok \in BOOLEAN
    BY NoEntryAssumption DEF Entry, Time
  <1>2. \A k \in Pubkeys : st[k] # NoEntry => st[k].ts \in Nat
    BY DEF ContractState, Stored, Entry, Time
  <1>3. CASE Accepts(st, e)
    <2>1. /\ Apply(st, e)[e.key] = e
          /\ \A k \in Pubkeys : k # e.key => Apply(st, e)[k] = st[k]
      BY <1>1, <1>3 DEF Apply, ContractState
    <2>2. st[e.key] # NoEntry => st[e.key].ts < e.ts
      BY <1>3 DEF Accepts, Beats
    <2> QED
      BY <1>1, <1>2, <2>1, <2>2 DEF Covered
  <1>4. CASE ~Accepts(st, e)
    BY <1>1, <1>2, <1>4 DEF Apply, Accepts, Beats, Covered
  <1> QED
    BY <1>3, <1>4

LEMMA PartsType ==
    ASSUME NEW u \in Update, NEW es \in Parts(u)
    PROVE  /\ es \in Seq(Entry)
           /\ u.kind = "delta" => es = u.delta
           /\ u.kind = "state" => es = u.state
           /\ u.kind = "both" => es = u.state \/ es = u.delta
           /\ u.kind # "related"
  BY DEF Update, Kinds, Parts

LEMMA DataType ==
    ASSUME TypeOK, NEW i \in 1 .. Len(data)
    PROVE  data[i] \in Update /\ DOMAIN data = 1 .. Len(data) /\ Len(data) \in Nat
  BY UpdatesAssumption DEF TypeOK

LEMMA InitSoFar == Init => TakenSoFar /\ ParsedSoFar /\ LoopOfUpdate
  BY DEF Init, TakenSoFar, ParsedSoFar, LoopOfUpdate

(* A new update: those before it are done with, its own entries pend.      *)
LEMMA NextUpdateTakes ==
    ASSUME SInv, NextUpdate
    PROVE  TakenSoFar' /\ ParsedSoFar' /\ LoopOfUpdate'
  <1> USE DEF SInv, IInv
  <1> DEFINE u == data[at]
  <1>1. /\ pc = "next" /\ at \in 1 .. Len(data) /\ at \in Nat
        /\ u \in Update /\ DOMAIN data = 1 .. Len(data) /\ Len(data) \in Nat
    BY DataType DEF NextUpdate, TypeOK
  <1>2. \A i \in 1 .. at - 1 : \A es \in Parts(data[i]) : \A j \in DOMAIN es :
            es[j].ok => Covered(current, es[j])
    BY <1>1 DEF TakenSoFar, Pending
  <1>3. \A i \in 1 .. at - 1 : ~Malformed(data[i])
    BY <1>1 DEF ParsedSoFar
  <1>4. UNCHANGED <<data, current>>
    BY DEF NextUpdate, TakeDelta, TakeState, SkipRelated, Loop, Fail
  <1>5. CASE pc' = "error" /\ at' = at /\ Malformed(u)
    BY <1>1, <1>2, <1>3, <1>4, <1>5 DEF TakenSoFar, ParsedSoFar, LoopOfUpdate
  <1>6. ASSUME at' = at + 1, pc' \in {"next", "state", "delta"},
               \A es \in Parts(u) :
                  \/ es = todo' /\ pc' \in {"state", "delta"}
                  \/ pc' = "state" /\ u.kind = "both" /\ es = u.delta,
               Malformed(u) => pc' = "state" /\ u.kind = "both",
               pc' = "state" => u.kind \in {"state", "both"} /\ u.stateParses
        PROVE  TakenSoFar' /\ ParsedSoFar' /\ LoopOfUpdate'
    <2>1. \A i \in 1 .. at' - 1 : i \in 1 .. at - 1 \/ i = at
      BY <1>1, <1>6
    <2>2. at' - 1 = at
      BY <1>1, <1>6
    <2>3. ASSUME NEW i, i = at, NEW es \in Parts(u), NEW j \in DOMAIN es
          PROVE  Pending(i, es, es[j])'
      BY <1>4, <1>6, <2>2, <2>3 DEF Pending
    <2>4. TakenSoFar'
      BY <1>1, <1>2, <1>4, <1>6, <2>1, <2>3 DEF TakenSoFar
    <2> QED
      BY <1>3, <1>4, <1>6, <2>1, <2>2, <2>4 DEF ParsedSoFar, LoopOfUpdate
  <1>7. CASE TakeDelta(u)
    <2>1. CASE u.deltaParses
      BY <1>6, <1>7, <2>1, <1>1, PartsType DEF TakeDelta, Loop, Malformed
    <2>2. CASE ~u.deltaParses
      BY <1>5, <1>7, <2>2 DEF TakeDelta, Fail, Malformed
    <2> QED
      BY <2>1, <2>2
  <1>8. CASE TakeState(u)
    <2>1. CASE u.stateParses
      BY <1>6, <1>8, <2>1, <1>1, PartsType DEF TakeState, Loop, Malformed
    <2>2. CASE ~u.stateParses
      BY <1>5, <1>8, <2>2 DEF TakeState, Fail, Malformed
    <2> QED
      BY <2>1, <2>2
  <1>9. CASE SkipRelated(u)
    <2>1. u.kind = "related" /\ at' = at + 1 /\ pc' = "next"
      BY <1>1, <1>9 DEF SkipRelated
    <2> QED
      BY <1>1, <1>6, <2>1, PartsType DEF Malformed
  <1> QED
    BY <1>7, <1>8, <1>9 DEF NextUpdate

(* An entry applied is covered from then on; the others still pend.        *)
LEMMA ApplyEntryTakes ==
    ASSUME SInv, ApplyEntry
    PROVE  TakenSoFar' /\ ParsedSoFar' /\ LoopOfUpdate'
  <1> USE DEF SInv, IInv
  <1>1. /\ current' = Apply(current, Head(todo)) /\ todo' = Tail(todo)
        /\ UNCHANGED <<data, at, pc>>
        /\ todo \in Seq(Entry) /\ todo # <<>>
        /\ current \in ContractState /\ at \in Nat /\ at - 1 <= Len(data) /\ Len(data) \in Nat
    BY DEF ApplyEntry, TypeOK
  <1>2. /\ Head(todo) \in Entry
        /\ \A m \in DOMAIN todo :
              todo[m] = Head(todo) \/ \E n \in DOMAIN Tail(todo) : Tail(todo)[n] = todo[m]
    <2>1. ASSUME NEW m \in DOMAIN todo, m # 1
          PROVE  m - 1 \in DOMAIN Tail(todo) /\ Tail(todo)[m - 1] = todo[m]
      BY <1>1, <2>1
    <2> QED
      BY <1>1, <2>1
  <1>3. ASSUME NEW i \in 1 .. at - 1, NEW es \in Parts(data[i]), NEW j \in DOMAIN es, es[j].ok
        PROVE  pc # "error" => Covered(current', es[j]) \/ Pending(i, es, es[j])'
    <2>1. es[j] \in Entry
      BY <1>1, DataType, PartsType
    <2>2. CASE Covered(current, es[j])
      BY <1>1, <1>2, <2>1, <2>2, ApplyCovers
    <2>3. CASE Pending(i, es, es[j])
      BY <1>1, <1>2, <1>3, <2>3, ApplyCovers DEF Pending
    <2> QED
      BY <1>3, <2>2, <2>3 DEF TakenSoFar
  <1>4. TakenSoFar'
    BY <1>1, <1>3 DEF TakenSoFar
  <1> QED
    BY <1>1, <1>4 DEF ParsedSoFar, LoopOfUpdate

(* The state part is done with, the delta part pends or does not parse.    *)
LEMMA DeltaPartTakes ==
    ASSUME SInv, DeltaPart
    PROVE  TakenSoFar' /\ ParsedSoFar' /\ LoopOfUpdate'
  <1> USE DEF SInv, IInv
  <1> DEFINE u == data[at - 1]
  <1>1. /\ pc = "state" /\ todo = <<>> /\ u.kind = "both" /\ u.stateParses
        /\ at - 1 \in 1 .. Len(data) /\ DOMAIN data = 1 .. Len(data)
        /\ UNCHANGED <<data, at, current>>
    BY DataType DEF DeltaPart, InLoop, TypeOK, LoopOfUpdate, Loop, Fail
  <1>2. CASE u.deltaParses
    <2>1. pc' = "delta" /\ todo' = u.delta
      BY <1>2 DEF DeltaPart, Loop
    <2>2. ASSUME NEW i \in 1 .. at - 1, NEW es \in Parts(data[i]), NEW j \in DOMAIN es,
                 Pending(i, es, es[j])
          PROVE  Pending(i, es, es[j])'
      BY <1>1, <2>1, <2>2 DEF Pending
    <2>3. TakenSoFar'
      BY <1>1, <2>2 DEF TakenSoFar
    <2>4. ~Malformed(u)
      BY <1>1, <1>2 DEF Malformed
    <2>5. ParsedSoFar'
      BY <1>1, <2>1, <2>4 DEF ParsedSoFar
    <2> QED
      BY <2>1, <2>3, <2>5 DEF LoopOfUpdate
  <1>3. CASE ~u.deltaParses
    <2>1. pc' = "error" /\ Malformed(u)
      BY <1>1, <1>3 DEF DeltaPart, Fail, Malformed
    <2>2. ParsedSoFar' /\ LoopOfUpdate'
      BY <1>1, <2>1 DEF ParsedSoFar, LoopOfUpdate
    <2> QED
      BY <2>1, <2>2 DEF TakenSoFar
  <1> QED
    BY <1>2, <1>3

(* A loop that ends with nothing to apply leaves nothing pending.          *)
LEMMA UpdateDoneTakes ==
    ASSUME SInv, UpdateDone
    PROVE  TakenSoFar' /\ ParsedSoFar' /\ LoopOfUpdate'
  <1> USE DEF SInv, IInv
  <1>1. /\ todo = <<>> /\ pc' = "next"
        /\ pc = "delta" \/ (pc = "state" /\ data[at - 1].kind = "state")
        /\ UNCHANGED <<data, at, current>>
    BY DEF UpdateDone
  <1>2. \A i \in 1 .. at - 1 : \A es \in Parts(data[i]) : \A j \in DOMAIN es :
            ~Pending(i, es, es[j])
    BY <1>1 DEF Pending
  <1>3. TakenSoFar'
    BY <1>1, <1>2 DEF TakenSoFar
  <1> QED
    BY <1>1, <1>3 DEF ParsedSoFar, LoopOfUpdate

LEMMA SNextInv == SInv /\ [Next]_vars => SInv'
  <1> SUFFICES ASSUME SInv, [Next]_vars PROVE SInv'
    OBVIOUS
  <1>1. IInv'
    BY NextInv DEF SInv
  <1>2. CASE Return
    <2>1. at = Len(data) + 1 /\ pc = "next" /\ pc' = "modified" /\ UNCHANGED <<data, at, current, todo>>
      BY <1>2 DEF Return, SInv, IInv, TypeOK
    <2>2. TakenSoFar' /\ ParsedSoFar' /\ LoopOfUpdate'
      BY <2>1 DEF SInv, TakenSoFar, Pending, ParsedSoFar, LoopOfUpdate
    <2> QED
      BY <1>1, <2>2 DEF SInv
  <1>3. CASE Over \/ UNCHANGED vars
    BY <1>1, <1>3 DEF Over, vars, SInv, TakenSoFar, Pending, ParsedSoFar, LoopOfUpdate
  <1> QED
    BY <1>1, <1>2, <1>3, NextUpdateTakes, ApplyEntryTakes, DeltaPartTakes, UpdateDoneTakes
    DEF Next, SInv

-----------------------------------------------------------------------------
(***************************************************************************)
(* The theorems.                                                           *)
(***************************************************************************)

(* Whatever updates a host passes, at every point of the call the working  *)
(* copy is the merge of the entries applied so far.                        *)
THEOREM LoopComputesMerge == Spec => []LoopIsMerge
  <1>1. IInv => LoopIsMerge
    BY DEF IInv
  <1> QED
    BY InitInv, NextInv, <1>1, PTL DEF Spec

(* Every variable keeps its type.                                          *)
THEOREM TypeCorrect == Spec => []TypeOK
  <1>1. IInv => TypeOK
    BY DEF IInv
  <1> QED
    BY InitInv, NextInv, <1>1, PTL DEF Spec

(* A call that succeeds has taken account of every verified entry of every *)
(* update it was passed: the host then holds something at least as recent. *)
THEOREM SuccessOverlooksNothing == Spec => []NothingOverlooked
  <1>1. SInv => NothingOverlooked
    <2> SUFFICES ASSUME SInv, pc = "modified",
                        NEW i \in DOMAIN data, NEW es \in Parts(data[i]), NEW j \in DOMAIN es,
                        es[j].ok
                 PROVE  Covered(current, es[j])
      BY DEF NothingOverlooked, HostState, Covered
    <2>1. i \in 1 .. at - 1
      BY DEF SInv, IInv, TypeOK, LoopOfUpdate
    <2> QED
      BY <2>1 DEF SInv, TakenSoFar, Pending
  <1> QED
    BY InitInv, InitSoFar, SNextInv, <1>1, PTL DEF Spec, SInv

(* A call ends with an error exactly when some bytes of it do not          *)
(* deserialize; entries that do not verify never make it fail.             *)
THEOREM ErrorIffMalformed == Spec => []FailsIffMalformed
  <1>1. SInv => FailsIffMalformed
    <2> SUFFICES ASSUME SInv PROVE FailsIffMalformed
      OBVIOUS
    <2>1. ASSUME pc = "modified", NEW i \in DOMAIN data
          PROVE  ~Malformed(data[i])
      <3>1. i \in 1 .. at - 1
        BY <2>1 DEF SInv, IInv, TypeOK, LoopOfUpdate
      <3> QED
        BY <2>1, <3>1 DEF SInv, ParsedSoFar
    <2> QED
      BY <2>1 DEF SInv, ParsedSoFar, FailsIffMalformed
  <1> QED
    BY InitInv, InitSoFar, SNextInv, <1>1, PTL DEF Spec, SInv

(***************************************************************************)
(* What links this module to TopologyContract, where a call is one step:   *)
(* when the entries listed have different keys, their merge is the Join    *)
(* with the map they list, whatever order they are listed in.              *)
(***************************************************************************)
Lists(es, d) ==
    /\ \A i \in DOMAIN es : d[es[i].key] = es[i]
    /\ \A i, j \in DOMAIN es : es[i].key = es[j].key => i = j
    /\ \A k \in Present(d) : \E i \in DOMAIN es : es[i] = d[k]

(* Merging a list of entries with different keys is joining the map.       *)
THEOREM KeyedMergeIsJoin ==
    ASSUME NEW st \in ContractState, NEW d \in KeyedDelta, NEW es \in Seq(Entry), Lists(es, d)
    PROVE  Merge(st, es) = Join(st, d)
  <1> SUFFICES ASSUME NEW k \in Pubkeys
               PROVE  Merge(st, es)[k] = Join(st, d)[k]
    BY DEF Merge, Join
  <1>1. CASE Candidates(st, es, k) = {}
    <2>1. Merge(st, es)[k] = st[k]
      BY <1>1 DEF Merge
    <2>2. ~(d[k] # NoEntry /\ Accepts(st, d[k]))
      <3> SUFFICES ASSUME d[k] # NoEntry, Accepts(st, d[k]) PROVE FALSE
        OBVIOUS
      <3>1. PICK i \in DOMAIN es : es[i] = d[k]
        BY DEF Lists, Present
      <3>2. d[k].key = k
        BY DEF KeyedDelta
      <3>3. i \in Candidates(st, es, k)
        BY <3>1, <3>2 DEF Candidates, Accepts
      <3> QED
        BY <1>1, <3>3
    <2> QED
      BY <2>1, <2>2 DEF Join
  <1>2. CASE Candidates(st, es, k) # {}
    <2>1. PICK w : w \in Candidates(st, es, k)
      BY <1>2
    <2>2. w \in DOMAIN es /\ es[w].key = k /\ es[w].ok /\ Beats(es[w], st[k])
      BY <2>1 DEF Candidates
    <2>3. \A j \in Candidates(st, es, k) : j = w
      BY <2>2 DEF Candidates, Lists
    <2>4. w \in Nat
      BY <2>1, CandidatesType
    <2>5. Wins(st, es, k, w)
      BY <2>1, <2>3, <2>4 DEF Wins
    <2>6. Merge(st, es)[k] = es[w]
      BY <2>5, MergeAtWinner
    <2>7. d[k] = es[w] /\ es[w] # NoEntry
      BY <2>1, <2>2, CandidatesType, NoEntryAssumption DEF Lists
    <2> QED
      BY <2>2, <2>6, <2>7 DEF Join, Accepts
  <1> QED
    BY <1>1, <1>2
=============================================================================
