-------------------------- MODULE ProbeCache_proofs --------------------------
(***************************************************************************)
(* Proofs about the cache of probe verdicts: the types, which hold that    *)
(* the dates stay an order whatever a refresh brings, and the budget, for  *)
(* any keys, numbers of copies and budget.                                 *)
(***************************************************************************)
EXTENDS ProbeCache, NaturalSets, FiniteSetTheorems, SequenceTheorems

IInv == TypeOK /\ ReprobesBounded

-----------------------------------------------------------------------------
(***************************************************************************)
(* The budget.                                                             *)
(***************************************************************************)
LEMMA CopiesFinite ==
    ASSUME NEW ks, IsFiniteSet(ks)
    PROVE  /\ IsFiniteSet(CopiesOf(ks))
           /\ Cardinality(CopiesOf(ks)) \in Nat
  <1>1. IsFiniteSet(1 .. 3)
    <2>1. 1 \in Int /\ 3 \in Int
      OBVIOUS
    <2> QED
      BY <2>1, FS_Interval
  <1>2. IsFiniteSet(ks \X (1 .. 3))
    BY <1>1, FS_Product
  <1>3. CopiesOf(ks) \in SUBSET (ks \X (1 .. 3))
    BY DEF CopiesOf
  <1> QED
    BY <1>2, <1>3, FS_Subset, FS_CardinalityType

LEMMA StaleFinite ==
    ASSUME TypeOK, NEW named, NEW k
    PROVE  StaleBefore(named, k) \subseteq Cached /\ IsFiniteSet(StaleBefore(named, k))
  <1>1. StaleBefore(named, k) \in SUBSET Cached
    BY DEF StaleBefore, IsStale
  <1> QED
    BY <1>1, FS_Subset DEF TypeOK

(* What is granted lies within the copies and within what is left.         *)
LEMMA GrantFits ==
    ASSUME TypeOK, NEW named, NEW k \in Keys
    PROVE  /\ Granted(named, k) \in 0 .. Copies[k]
           /\ Granted(named, k) > 0 =>
                 /\ IsStale(k)
                 /\ Cardinality(CopiesOf(StaleBefore(named, k))) + Granted(named, k) <= Budget
  <1> DEFINE spent == Cardinality(CopiesOf(StaleBefore(named, k)))
  <1>1. spent \in Nat
    BY StaleFinite, CopiesFinite
  <1>2. Copies[k] \in 1 .. 3 /\ Budget \in Nat
    BY ProbeAssumption
  <1>3. Granted(named, k) = CASE ~IsStale(k) \/ spent >= Budget -> 0
          [] OTHER -> IF spent + Copies[k] > Budget THEN Budget - spent ELSE Copies[k]
    BY DEF Granted
  <1> HIDE DEF spent
  <1>4. CASE ~IsStale(k) \/ spent >= Budget
    <2>1. Granted(named, k) = 0
      BY <1>3, <1>4
    <2> QED
      BY <2>1, <1>2
  <1>5. CASE IsStale(k) /\ ~(spent >= Budget)
    <2>1. Granted(named, k) = IF spent + Copies[k] > Budget THEN Budget - spent ELSE Copies[k]
      BY <1>3, <1>5
    <2> QED
      BY <2>1, <1>1, <1>2, <1>5 DEF spent
  <1> QED
    BY <1>4, <1>5

(***************************************************************************)
(* Among the keys granted a probe the one with the latest date bounds the  *)
(* whole: all the others' probes are among the copies before it.           *)
(***************************************************************************)
LEMMA StartKeepsBudget ==
    ASSUME TypeOK, NEW named \in SUBSET Keys, StartRefresh(named)
    PROVE  Cardinality(Reprobes') <= Budget
  <1> DEFINE asked == {k \in Cached : probing'[k] > 0}
  <1>1. \A k \in Cached : k \in Keys /\ rank[k] \in 1 .. Cardinality(Cached)
    BY DEF TypeOK
  <1>2. Cached' = Cached /\ Cardinality(Cached) \in Nat /\ IsFiniteSet(Cached)
    BY FS_CardinalityType DEF StartRefresh, Cached, TypeOK
  <1>3. \A k \in Cached :
            /\ probing'[k] \in 0 .. 3
            /\ probing'[k] > 0 => k \in named /\ probing'[k] = Granted(named, k)
    <2> SUFFICES ASSUME NEW k \in Cached
                 PROVE  /\ probing'[k] \in 0 .. 3
                        /\ probing'[k] > 0 => k \in named /\ probing'[k] = Granted(named, k)
      OBVIOUS
    <2>1. probing'[k] = IF k \notin named THEN 0 ELSE Granted(named, k)
      BY <1>1 DEF StartRefresh
    <2>2. Granted(named, k) \in 0 .. Copies[k] /\ Copies[k] \in 1 .. 3
      BY <1>1, GrantFits, ProbeAssumption
    <2> QED
      BY <2>1, <2>2
  <1>4. CASE asked = {}
    <2>1. Reprobes' = {}
      BY <1>2, <1>3, <1>4 DEF Reprobes
    <2> QED
      BY <2>1, FS_EmptySet, ProbeAssumption
  <1>5. CASE asked # {}
    <2>1. PICK n \in {rank[k] : k \in asked} : \A i \in {rank[k] : k \in asked} : n >= i
      <3> DEFINE dates == {rank[k] : k \in asked}
      <3>1. dates \in SUBSET (1 .. Cardinality(Cached)) /\ dates # {}
        BY <1>1, <1>5
      <3> QED
        BY <3>1, <1>2, MaxOfPositions
    <2>2. PICK m \in asked : n = rank[m]
      BY <2>1
    <2>3. \A k \in asked : k # m => rank[k] < rank[m]
      <3> SUFFICES ASSUME NEW k \in asked, k # m
                   PROVE  rank[k] < rank[m]
        OBVIOUS
      <3>1. rank[m] >= rank[k]
        BY <2>1, <2>2
      <3>2. rank[k] # rank[m]
        BY DEF TypeOK
      <3>3. rank[k] \in Nat /\ rank[m] \in Nat
        BY <1>1
      <3> QED
        BY <3>1, <3>2, <3>3
    <2> DEFINE before == CopiesOf(StaleBefore(named, m))
               last == {m} \X (1 .. probing'[m])
    <2>4. /\ IsFiniteSet(before) /\ Cardinality(before) \in Nat
          /\ Cardinality(before) + probing'[m] <= Budget
      BY <1>1, <1>3, <2>2, GrantFits, StaleFinite, CopiesFinite
    <2>5. IsFiniteSet(last) /\ Cardinality(last) = probing'[m]
      <3>1. probing'[m] \in 1 .. 3
        BY <1>3, <2>2
      <3>2. IsFiniteSet(1 .. probing'[m]) /\ Cardinality(1 .. probing'[m]) = probing'[m]
        BY <3>1, FS_Interval
      <3>3. IsFiniteSet({m}) /\ Cardinality({m}) = 1
        BY FS_Singleton
      <3>4. Cardinality(last) = 1 * probing'[m] /\ IsFiniteSet(last)
        BY <3>2, <3>3, FS_Product
      <3> QED
        BY <3>1, <3>4
    <2>6. Reprobes' \in SUBSET (before \cup last)
      <3> SUFFICES ASSUME NEW s \in Reprobes'
                   PROVE  s \in before \cup last
        OBVIOUS
      <3>1. PICK k \in Cached, c \in 1 .. 3 : s = <<k, c>> /\ c <= probing'[k]
        BY <1>2 DEF Reprobes
      <3>2. k \in asked
        BY <1>3, <3>1
      <3>3. CASE k = m
        BY <1>3, <3>1, <3>3
      <3>4. CASE k # m
        <4>1. k \in StaleBefore(named, m)
          BY <1>1, <1>3, <2>3, <3>2, <3>4, GrantFits DEF StaleBefore
        <4>2. c <= Copies[k]
          <5>1. probing'[k] \in 0 .. Copies[k] /\ Copies[k] \in 1 .. 3
            BY <1>1, <1>3, <3>2, GrantFits, ProbeAssumption
          <5> QED
            BY <5>1, <3>1
        <4> QED
          BY <3>1, <4>1, <4>2 DEF CopiesOf
      <3> QED
        BY <3>3, <3>4
    <2> HIDE DEF before, last
    <2>7. /\ IsFiniteSet(before \cup last)
          /\ Cardinality(before \cup last) <= Cardinality(before) + Cardinality(last)
      <3>1. IsFiniteSet(before \cap last)
        BY <2>4, FS_Intersection
      <3>2. Cardinality(before \cap last) \in Nat
        BY <3>1, FS_CardinalityType
      <3>3. /\ IsFiniteSet(before \cup last)
            /\ Cardinality(before \cup last) =
                  Cardinality(before) + Cardinality(last) - Cardinality(before \cap last)
        BY <2>4, <2>5, FS_Union
      <3>4. Cardinality(last) \in Nat
        BY <2>5, FS_CardinalityType
      <3> QED
        BY <2>4, <3>2, <3>3, <3>4
    <2>8. Cardinality(Reprobes') <= Cardinality(before \cup last)
      BY <2>6, <2>7, FS_Subset
    <2>9. IsFiniteSet(Reprobes')
      BY <2>6, <2>7, FS_Subset
    <2>10. /\ Cardinality(Reprobes') \in Nat
           /\ Cardinality(before \cup last) \in Nat
      BY <2>7, <2>9, FS_CardinalityType
    <2> QED
      BY <2>4, <2>5, <2>7, <2>8, <2>10, ProbeAssumption, <1>3, <2>2
  <1> QED
    BY <1>4, <1>5

-----------------------------------------------------------------------------
(***************************************************************************)
(* The dates.  Counting the elements up to each, in the order of numbers   *)
(* given to them, ranks them.                                              *)
(***************************************************************************)
LEMMA Places ==
    ASSUME NEW S, IsFiniteSet(S), NEW r \in [S -> Nat],
           \A j, k \in S : r[j] = r[k] => j = k,
           NEW k \in S
    PROVE  /\ Cardinality({i \in S : r[i] <= r[k]}) \in 1 .. Cardinality(S)
           /\ \A j \in S : Cardinality({i \in S : r[i] <= r[j]}) =
                           Cardinality({i \in S : r[i] <= r[k]}) => j = k
  <1> DEFINE upTo(j) == {i \in S : r[i] <= r[j]}
  <1>1. \A j \in S : upTo(j) \in SUBSET S /\ j \in upTo(j)
    OBVIOUS
  <1>2. \A j \in S : IsFiniteSet(upTo(j)) /\ Cardinality(upTo(j)) <= Cardinality(S)
    BY <1>1, FS_Subset
  <1>3. Cardinality(S) \in Nat /\ \A j \in S : Cardinality(upTo(j)) \in Nat
    BY <1>2, FS_CardinalityType
  <1>4. \A j \in S : Cardinality(upTo(j)) # 0
    BY <1>1, <1>2, FS_EmptySet
  <1>5. \A i, j \in S : r[i] <= r[j] /\ Cardinality(upTo(i)) = Cardinality(upTo(j)) => i = j
    <2> SUFFICES ASSUME NEW i \in S, NEW j \in S, r[i] <= r[j],
                        Cardinality(upTo(i)) = Cardinality(upTo(j))
                 PROVE  i = j
      OBVIOUS
    <2>1. upTo(i) \in SUBSET upTo(j)
      OBVIOUS
    <2>2. IsFiniteSet(upTo(j)) /\ Cardinality(upTo(j)) = Cardinality(upTo(i))
      BY <1>2
    <2> HIDE DEF upTo
    <2>3. upTo(j) = upTo(i)
      BY <2>1, <2>2, FS_Subset
    <2>4. j \in upTo(i)
      BY <1>1, <2>3
    <2> QED
      BY <2>4 DEF upTo
  <1>6. ASSUME NEW j \in S, Cardinality(upTo(j)) = Cardinality(upTo(k))
        PROVE  j = k
    <2>1. r[j] <= r[k] \/ r[k] <= r[j]
      OBVIOUS
    <2> QED
      BY <1>5, <1>6, <2>1
  <1>7. Cardinality(upTo(k)) \in 1 .. Cardinality(S)
    <2> HIDE DEF upTo
    <2> QED
      BY <1>2, <1>3, <1>4
  <1> QED
    BY <1>6, <1>7

LEMMA ResultFields ==
    ASSUME TypeOK
    PROVE  /\ Len(results) \in Nat /\ DOMAIN results = 1 .. Len(results)
           /\ \A i \in DOMAIN results : results[i].key \in Keys /\ results[i].found \in Kinds
           /\ Renewed \subseteq Keys
  <1> DEFINE Result == [key : Keys, found : Kinds]
  <1>1. results \in Seq(Result)
    BY DEF TypeOK
  <1>2. \A r \in Result : r.key \in Keys /\ r.found \in Kinds
    OBVIOUS
  <1> HIDE DEF Result
  <1>3. Len(results) \in Nat /\ DOMAIN results = 1 .. Len(results)
    BY <1>1
  <1>4. \A i \in DOMAIN results : results[i] \in Result
    BY <1>1, <1>3
  <1> QED
    BY <1>2, <1>3, <1>4 DEF Renewed

LEMMA LastResults ==
    ASSUME TypeOK
    PROVE  /\ \A k \in Renewed : LastOf(k) \in DOMAIN results /\ results[LastOf(k)].key = k
           /\ \A j, k \in Renewed : LastOf(j) = LastOf(k) => j = k
           /\ \A k \in Renewed : LastOf(k) \in Nat
           /\ IsFiniteSet(Renewed)
  <1>1. ASSUME NEW k \in Renewed
        PROVE  LastOf(k) \in DOMAIN results /\ results[LastOf(k)].key = k
    <2> DEFINE its == {i \in DOMAIN results : results[i].key = k}
    <2>1. its \in SUBSET (1 .. Len(results)) /\ its # {}
      BY <1>1, ResultFields DEF Renewed
    <2>2. Max(its) \in its
      BY <2>1, ResultFields, MaxOfPositions
    <2> QED
      BY <2>2 DEF LastOf
  <1>2. \A j, k \in Renewed : LastOf(j) = LastOf(k) => j = k
    BY <1>1
  <1>3. [k \in Renewed |-> LastOf(k)] \in Injection(Renewed, 1 .. Len(results))
    BY <1>1, <1>2, ResultFields DEF Injection, IsInjective
  <1>4. IsFiniteSet(1 .. Len(results))
    BY ResultFields, FS_Interval
  <1>5. IsFiniteSet(Renewed)
    BY <1>3, <1>4, FS_Injection
  <1>6. \A k \in Renewed : LastOf(k) \in Nat
    BY <1>1, ResultFields
  <1> QED
    BY <1>1, <1>2, <1>5, <1>6

LEMMA KeptFinite ==
    ASSUME TypeOK
    PROVE  /\ Kept \subseteq Cached /\ IsFiniteSet(Kept)
           /\ IsFiniteSet(Cached \cup Renewed)
           /\ Cardinality(Kept) \in Nat /\ Cardinality(Renewed) \in Nat
           /\ Cardinality(Cached \cup Renewed) = Cardinality(Kept) + Cardinality(Renewed)
  <1>1. Kept \in SUBSET Cached /\ IsFiniteSet(Cached)
    BY DEF Kept, TypeOK
  <1>2. IsFiniteSet(Kept)
    BY <1>1, FS_Subset
  <1>3. IsFiniteSet(Renewed)
    BY LastResults
  <1>4. Cached \cup Renewed = Kept \cup Renewed /\ Kept \cap Renewed = {}
    BY DEF Kept
  <1>5. /\ IsFiniteSet(Kept \cup Renewed)
        /\ Cardinality(Kept \cup Renewed) =
              Cardinality(Kept) + Cardinality(Renewed) - Cardinality(Kept \cap Renewed)
    BY <1>2, <1>3, FS_Union
  <1>6. Cardinality(Kept \cap Renewed) = 0
    BY <1>4, FS_EmptySet
  <1>7. Cardinality(Kept) \in Nat /\ Cardinality(Renewed) \in Nat
    BY <1>2, <1>3, FS_CardinalityType
  <1>8. Cardinality(Kept \cup Renewed) = Cardinality(Kept) + Cardinality(Renewed)
    BY <1>5, <1>6, <1>7
  <1> QED
    BY <1>1, <1>2, <1>4, <1>5, <1>7, <1>8

LEMMA KeptPlaces ==
    ASSUME TypeOK, NEW k \in Kept
    PROVE  /\ Cardinality(KeptUpTo(rank[k])) \in 1 .. Cardinality(Kept)
           /\ \A j \in Kept : Cardinality(KeptUpTo(rank[j])) =
                              Cardinality(KeptUpTo(rank[k])) => j = k
  <1> DEFINE r == [j \in Kept |-> rank[j]]
  <1>1. \A j \in Kept : r[j] = rank[j] /\ rank[j] \in Nat
    BY KeptFinite DEF TypeOK
  <1>2. r \in [Kept -> Nat] /\ \A i, j \in Kept : r[i] = r[j] => i = j
    BY <1>1, KeptFinite DEF TypeOK
  <1>3. \A j \in Kept : KeptUpTo(rank[j]) = {i \in Kept : r[i] <= r[j]}
    BY <1>1 DEF KeptUpTo
  <1> HIDE DEF r
  <1>4. /\ Cardinality({i \in Kept : r[i] <= r[k]}) \in 1 .. Cardinality(Kept)
        /\ \A j \in Kept : Cardinality({i \in Kept : r[i] <= r[j]}) =
                           Cardinality({i \in Kept : r[i] <= r[k]}) => j = k
    BY <1>2, KeptFinite, Places
  <1> QED
    BY <1>3, <1>4

LEMMA RenewedPlaces ==
    ASSUME TypeOK, NEW k \in Renewed
    PROVE  /\ Cardinality(RenewedUpTo(LastOf(k))) \in 1 .. Cardinality(Renewed)
           /\ \A j \in Renewed : Cardinality(RenewedUpTo(LastOf(j))) =
                                 Cardinality(RenewedUpTo(LastOf(k))) => j = k
  <1> DEFINE r == [j \in Renewed |-> LastOf(j)]
  <1>1. \A j \in Renewed : r[j] = LastOf(j) /\ LastOf(j) \in Nat
    BY LastResults
  <1>2. r \in [Renewed -> Nat] /\ \A i, j \in Renewed : r[i] = r[j] => i = j
    BY <1>1, LastResults
  <1>3. \A j \in Renewed : RenewedUpTo(LastOf(j)) = {i \in Renewed : r[i] <= r[j]}
    BY <1>1 DEF RenewedUpTo
  <1> HIDE DEF r
  <1>4. /\ Cardinality({i \in Renewed : r[i] <= r[k]}) \in 1 .. Cardinality(Renewed)
        /\ \A j \in Renewed : Cardinality({i \in Renewed : r[i] <= r[j]}) =
                              Cardinality({i \in Renewed : r[i] <= r[k]}) => j = k
    BY <1>2, LastResults, Places
  <1> QED
    BY <1>3, <1>4

(* The kept verdicts stay in order, the renewed ones come after them.      *)
LEMMA RedatedRanks ==
    ASSUME TypeOK
    PROVE  /\ DOMAIN Redated = Cached \cup Renewed
           /\ Redated \in [Cached \cup Renewed -> 1 .. Cardinality(Cached \cup Renewed)]
           /\ \A j, k \in Cached \cup Renewed : Redated[j] = Redated[k] => j = k
  <1> DEFINE all == Cached \cup Renewed
             old == Cardinality(Kept)
             new == Cardinality(Renewed)
  <1>1. all = Kept \cup Renewed /\ Kept \cap Renewed = {}
    BY DEF Kept
  <1>2. old \in Nat /\ new \in Nat /\ Cardinality(all) = old + new
    BY KeptFinite
  <1>3. \A k \in Kept : /\ Redated[k] = Cardinality(KeptUpTo(rank[k]))
                        /\ Redated[k] \in 1 .. old
    BY <1>1, KeptPlaces DEF Redated
  <1>4. \A k \in Renewed : /\ Redated[k] = old + Cardinality(RenewedUpTo(LastOf(k)))
                           /\ Cardinality(RenewedUpTo(LastOf(k))) \in 1 .. new
    BY RenewedPlaces DEF Redated
  <1>5. DOMAIN Redated = all /\ Redated = [k \in all |-> Redated[k]]
    BY DEF Redated
  <1> HIDE DEF all, old, new
  <1>6. \A k \in all : Redated[k] \in 1 .. Cardinality(all)
    <2> SUFFICES ASSUME NEW k \in all
                 PROVE  Redated[k] \in 1 .. Cardinality(all)
      OBVIOUS
    <2>1. CASE k \in Kept
      <3>1. Redated[k] \in 1 .. old
        BY <1>3, <2>1
      <3> QED
        BY <3>1, <1>2
    <2>2. CASE k \in Renewed
      <3> DEFINE place == Cardinality(RenewedUpTo(LastOf(k)))
      <3>1. Redated[k] = old + place /\ place \in 1 .. new
        BY <1>4, <2>2
      <3> HIDE DEF place
      <3> QED
        BY <3>1, <1>2
    <2> QED
      BY <1>1, <2>1, <2>2
  <1>7. \A k \in Renewed : Redated[k] > old
    <2> SUFFICES ASSUME NEW k \in Renewed
                 PROVE  Redated[k] > old
      OBVIOUS
    <2> DEFINE place == Cardinality(RenewedUpTo(LastOf(k)))
    <2>1. Redated[k] = old + place /\ place \in 1 .. new
      BY <1>4
    <2> HIDE DEF place
    <2> QED
      BY <2>1, <1>2
  <1>8. ASSUME NEW j \in all, NEW k \in all, Redated[j] = Redated[k]
        PROVE  j = k
    <2>1. CASE j \in Kept /\ k \in Kept
      BY <1>3, <1>8, <2>1, KeptPlaces
    <2>2. CASE j \in Renewed /\ k \in Renewed
      <3> DEFINE p == Cardinality(RenewedUpTo(LastOf(j)))
                 q == Cardinality(RenewedUpTo(LastOf(k)))
      <3>1. Redated[j] = old + p /\ Redated[k] = old + q
        BY <1>4, <2>2
      <3>2. p \in Nat /\ q \in Nat
        BY <1>4, <2>2
      <3>3. p = q
        <4>1. old + p = old + q
          BY <1>8, <3>1
        <4> HIDE DEF p, q
        <4> QED
          BY <1>2, <3>2, <4>1
      <3> QED
        BY <2>2, <3>3, RenewedPlaces
    <2>3. CASE \/ j \in Kept /\ k \in Renewed
               \/ j \in Renewed /\ k \in Kept
      <3>1. \A i \in Kept : Redated[i] \in Int /\ Redated[i] <= old
        BY <1>3, <1>2
      <3>2. \A i \in Renewed : Redated[i] \in Int
        BY <1>1, <1>2, <1>6
      <3> QED
        BY <1>2, <1>7, <1>8, <2>3, <3>1, <3>2
    <2> QED
      BY <1>1, <2>1, <2>2, <2>3
  <1> QED
    BY <1>5, <1>6, <1>8 DEF all

-----------------------------------------------------------------------------
(***************************************************************************)
(* The steps.                                                              *)
(***************************************************************************)
LEMMA NoReprobes ==
    ASSUME probing = NoProbes, Cached \subseteq Keys
    PROVE  Cardinality(Reprobes) <= Budget
  <1>1. Reprobes = {}
    BY DEF Reprobes, NoProbes
  <1> QED
    BY <1>1, FS_EmptySet, ProbeAssumption

LEMMA InitInv == Init => IInv
  <1> SUFFICES ASSUME Init
               PROVE  IInv
    OBVIOUS
  <1>1. Cached = {} /\ rank = <<>> /\ verdict = <<>>
    BY DEF Init, Cached
  <1>2. IsFiniteSet(Cached) /\ Cardinality(Cached) = 0
    BY <1>1, FS_EmptySet
  <1>3. rank \in [Cached -> 1 .. Cardinality(Cached)] /\ verdict \in [Cached -> Kinds]
    BY <1>1
  <1>4. results \in Seq([key : Keys, found : Kinds])
    BY EmptySeq DEF Init
  <1>5. probing \in [Keys -> 0 .. 3] /\ expired \in 0 .. Cardinality(Cached)
    BY <1>2 DEF Init, NoProbes
  <1>6. Cached \subseteq Keys /\ \A j, k \in Cached : rank[j] = rank[k] => j = k
    BY <1>1
  <1>7. actual \in [Keys -> Kinds] /\ settled \in BOOLEAN
    BY DEF Init
  <1>8. TypeOK
    BY <1>2, <1>3, <1>4, <1>5, <1>6, <1>7 DEF TypeOK
  <1>9. ReprobesBounded
    BY <1>1, NoReprobes DEF Init, ReprobesBounded
  <1> QED
    BY <1>8, <1>9 DEF IInv

(* What the steps outside a refresh, and each probe, leave alone.          *)
LEMMA SameCache ==
    ASSUME TypeOK, UNCHANGED <<rank, verdict>>
    PROVE  /\ Cached' = Cached
           /\ Cached' \subseteq Keys /\ IsFiniteSet(Cached')
           /\ rank' \in [Cached' -> 1 .. Cardinality(Cached')]
           /\ \A j, k \in Cached' : rank'[j] = rank'[k] => j = k
           /\ verdict' \in [Cached' -> Kinds]
           /\ Cardinality(Cached) \in Nat
  <1>1. Cached' = Cached
    BY DEF Cached
  <1> QED
    BY <1>1, FS_CardinalityType DEF TypeOK

LEMMA StartInv ==
    ASSUME IInv, NEW named \in SUBSET Keys, StartRefresh(named)
    PROVE  IInv'
  <1>1. \A k \in Keys : Granted(named, k) \in 0 .. 3 /\ Copies[k] \in 0 .. 3
    <2> SUFFICES ASSUME NEW k \in Keys
                 PROVE  Granted(named, k) \in 0 .. 3 /\ Copies[k] \in 0 .. 3
      OBVIOUS
    <2>1. Granted(named, k) \in 0 .. Copies[k] /\ Copies[k] \in 1 .. 3
      BY GrantFits, ProbeAssumption DEF IInv
    <2> QED
      BY <2>1
  <1>2. probing' \in [Keys -> 0 .. 3]
    BY <1>1 DEF StartRefresh
  <1>3. TypeOK'
    BY <1>2, SameCache DEF IInv, StartRefresh, TypeOK
  <1> QED
    BY <1>3, StartKeepsBudget DEF IInv, ReprobesBounded

LEMMA ProbeInv ==
    ASSUME IInv, NEW k \in Keys, ProbeOne(k)
    PROVE  IInv'
  <1>1. probing' \in [Keys -> 0 .. 3] /\ \A j \in Keys : probing'[j] <= probing[j]
    <2>1. probing \in [Keys -> 0 .. 3] /\ probing[k] > 0
      BY DEF IInv, TypeOK, ProbeOne
    <2>2. probing' = [probing EXCEPT ![k] = probing[k] - 1]
      BY DEF ProbeOne
    <2>3. probing[k] - 1 \in 0 .. 3 /\ probing[k] - 1 <= probing[k]
      BY <2>1
    <2>4. \A j \in Keys : probing[j] <= probing[j]
      BY <2>1
    <2> QED
      BY <2>1, <2>2, <2>3, <2>4
  <1>2. results' \in Seq([key : Keys, found : Kinds])
    <2> DEFINE Result == [key : Keys, found : Kinds]
    <2>1. [key |-> k, found |-> actual[k]] \in Result
      BY DEF IInv, TypeOK
    <2>2. results \in Seq(Result)
      BY DEF IInv, TypeOK
    <2>3. results' = Append(results, [key |-> k, found |-> actual[k]]) \/ results' = results
      BY DEF ProbeOne
    <2> HIDE DEF Result
    <2>4. results' \in Seq(Result)
      BY <2>1, <2>2, <2>3, AppendProperties
    <2> QED
      BY <2>4 DEF Result
  <1>3. TypeOK'
    BY <1>1, <1>2, SameCache DEF IInv, TypeOK, ProbeOne
  <1>4. Reprobes' \in SUBSET Reprobes
    <2> SUFFICES ASSUME NEW p \in Reprobes'
                 PROVE  p \in Reprobes
      OBVIOUS
    <2>1. p \in Cached \X (1 .. 3) /\ p[2] <= probing'[p[1]]
      BY SameCache DEF Reprobes, ProbeOne, IInv
    <2>2. p[1] \in Keys /\ p[2] \in Nat
      BY <2>1 DEF IInv, TypeOK
    <2>3. probing[p[1]] \in Nat /\ probing'[p[1]] \in Nat /\ probing'[p[1]] <= probing[p[1]]
      BY <1>1, <2>2 DEF IInv, TypeOK
    <2> QED
      BY <2>1, <2>2, <2>3 DEF Reprobes
  <1>5. IsFiniteSet(Reprobes)
    <2>1. IsFiniteSet(1 .. 3)
      <3>1. 1 \in Int /\ 3 \in Int
        OBVIOUS
      <3> QED
        BY <3>1, FS_Interval
    <2>2. IsFiniteSet(Cached \X (1 .. 3))
      BY <2>1, FS_Product DEF IInv, TypeOK
    <2>3. Reprobes \in SUBSET (Cached \X (1 .. 3))
      BY DEF Reprobes
    <2> QED
      BY <2>2, <2>3, FS_Subset
  <1>6. Cardinality(Reprobes') <= Cardinality(Reprobes) /\ IsFiniteSet(Reprobes')
    BY <1>4, <1>5, FS_Subset
  <1>7. Cardinality(Reprobes') \in Nat /\ Cardinality(Reprobes) \in Nat
    BY <1>5, <1>6, FS_CardinalityType
  <1>8. Cardinality(Reprobes') <= Budget
    BY <1>6, <1>7, ProbeAssumption DEF IInv, ReprobesBounded
  <1> QED
    BY <1>3, <1>8 DEF IInv, ReprobesBounded

LEMMA InsertInv ==
    ASSUME IInv, Insert
    PROVE  IInv'
  <1> USE DEF IInv
  <1>1. Cached' = Cached \cup Renewed
    BY RedatedRanks DEF Insert, Cached
  <1>2. Cached' \subseteq Keys /\ IsFiniteSet(Cached')
    BY <1>1, KeptFinite, ResultFields DEF TypeOK
  <1>3. /\ rank' \in [Cached' -> 1 .. Cardinality(Cached')]
        /\ \A j, k \in Cached' : rank'[j] = rank'[k] => j = k
    BY <1>1, RedatedRanks DEF Insert
  <1>4. expired' \in 0 .. Cardinality(Cached')
    <2>1. KeptUpTo(expired) \in SUBSET Kept
      BY DEF KeptUpTo
    <2>2. /\ Cardinality(KeptUpTo(expired)) <= Cardinality(Kept)
          /\ IsFiniteSet(KeptUpTo(expired))
      BY <2>1, KeptFinite, FS_Subset
    <2>3. Cardinality(KeptUpTo(expired)) \in Nat
      BY <2>2, FS_CardinalityType
    <2>4. /\ Cardinality(Kept) \in Nat /\ Cardinality(Renewed) \in Nat
          /\ Cardinality(Cached') = Cardinality(Kept) + Cardinality(Renewed)
      BY <1>1, KeptFinite
    <2>5. expired' = Cardinality(KeptUpTo(expired))
      BY DEF Insert
    <2> QED
      BY <2>2, <2>3, <2>4, <2>5
  <1>5. verdict' \in [Cached' -> Kinds]
    <2>1. \A k \in Renewed : results[LastOf(k)].found \in Kinds
      BY LastResults, ResultFields
    <2> QED
      BY <1>1, <2>1 DEF Insert, TypeOK
  <1>6. results' \in Seq([key : Keys, found : Kinds])
    BY EmptySeq DEF Insert
  <1>7. TypeOK'
    BY <1>2, <1>3, <1>4, <1>5, <1>6 DEF Insert, TypeOK
  <1>8. probing' = NoProbes
    BY DEF Insert
  <1>9. Reprobes' = {}
    BY <1>2, <1>8 DEF Reprobes, NoProbes
  <1>10. ReprobesBounded'
    BY <1>9, FS_EmptySet, ProbeAssumption DEF ReprobesBounded
  <1> QED
    BY <1>7, <1>10

LEMMA NextInv == IInv /\ [Next]_vars => IInv'
  <1> SUFFICES ASSUME IInv, [Next]_vars
               PROVE  IInv'
    OBVIOUS
  <1>0. ASSUME UNCHANGED <<rank, verdict, probing>>
        PROVE  ReprobesBounded'
    BY <1>0, SameCache DEF IInv, ReprobesBounded, Reprobes
  <1>1. ASSUME NEW k \in Keys, NEW kind \in Kinds, Redeploy(k, kind)
        PROVE  IInv'
    <2>1. actual' \in [Keys -> Kinds]
      BY <1>1 DEF IInv, TypeOK, Redeploy
    <2>2. TypeOK'
      BY <1>1, <2>1, SameCache DEF IInv, TypeOK, Redeploy
    <2> QED
      BY <1>0, <1>1, <2>2 DEF IInv, Redeploy
  <1>2. ASSUME Settle
        PROVE  IInv'
    <2>1. TypeOK'
      BY <1>2, SameCache DEF IInv, TypeOK, Settle
    <2> QED
      BY <1>0, <1>2, <2>1 DEF IInv, Settle
  <1>3. ASSUME Expire
        PROVE  IInv'
    <2>1. expired' \in 0 .. Cardinality(Cached)
      BY <1>3, SameCache DEF IInv, TypeOK, Expire
    <2>2. TypeOK'
      BY <1>3, <2>1, SameCache DEF IInv, TypeOK, Expire
    <2> QED
      BY <1>0, <1>3, <2>2 DEF IInv, Expire
  <1>4. ASSUME UNCHANGED vars
        PROVE  IInv'
    <2>1. TypeOK'
      BY <1>4, SameCache DEF IInv, TypeOK, vars
    <2> QED
      BY <1>0, <1>4, <2>1 DEF IInv, vars
  <1> QED
    BY <1>1, <1>2, <1>3, <1>4, StartInv, ProbeInv, InsertInv DEF Next, Refreshing

LEMMA Inductive == Spec => []IInv
  BY InitInv, NextInv, PTL DEF Spec

(***************************************************************************)
(* The dates of the verdicts stay an order, each key with one date, as     *)
(* many expired as there are, whatever probes bring in whatever order,     *)
(* duplicates and failures included.                                       *)
(***************************************************************************)
THEOREM DatesStayOrdered == Spec => []TypeOK
  <1>1. IInv => TypeOK
    BY DEF IInv
  <1> QED
    BY <1>1, Inductive, PTL

(***************************************************************************)
(* MAX_STALE_REPROBES_PER_CYCLE: however many verdicts are past the TTL,   *)
(* and however often the node names the same key, a cycle spends no more   *)
(* than the budget on keys that have a verdict.                            *)
(***************************************************************************)
THEOREM BudgetKept == Spec => []ReprobesBounded
  <1>1. IInv => ReprobesBounded
    BY DEF IInv
  <1> QED
    BY <1>1, Inductive, PTL
=============================================================================
