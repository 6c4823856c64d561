----------------------------- MODULE ProbeCache -----------------------------
(***************************************************************************)
(* The publisher's cache of probe verdicts (topology-publisher/src/        *)
(* probe.rs): one refresh_cache per publish cycle, over the contract keys  *)
(* the node named in it.  Keys without a verdict are always probed; of the *)
(* verdicts older than the TTL, the oldest are renewed, up to a budget.    *)
(*                                                                         *)
(* Dates are kept as ranks: rank[k] is the place of the date of k's        *)
(* verdict among the dates, the oldest first, and the first `expired` of   *)
(* them are past the TTL.  As verdicts are only ever dated now, that is    *)
(* all refresh_cache can see of the dates.                                 *)
(*                                                                         *)
(* A key may be named up to three times in a cycle (contract_states,       *)
(* my_hosted, subscriptions); refresh_cache does not remove duplicates: a  *)
(* new key is probed once per copy, and each copy of a stale key takes its *)
(* share of the budget.                                                    *)
(*                                                                         *)
(* The HTTP server of the node is external.  A probe of a key sees what    *)
(* the contract is at that moment, or, for the keys in Flaky, may fail     *)
(* (refused, timed out or not HTTP).                                       *)
(***************************************************************************)
EXTENDS Naturals, Sequences, FiniteSets, FiniteSetsExt

CONSTANTS
    Keys,       \* contract keys
    Copies,     \* Copies[k]: how often the node names k, if it does
    Flaky,      \* keys whose probe may fail
    Kinds,      \* what a contract may be: a webapp with some title, or data
    Budget      \* MAX_STALE_REPROBES_PER_CYCLE

ASSUME ProbeAssumption ==
    /\ Copies \in [Keys -> 1 .. 3]
    /\ Flaky \subseteq Keys
    /\ Budget \in Nat

VARIABLES
    actual,     \* what each contract is: it changes when it is redeployed
    settled,    \* whether contracts have stopped changing, all of them named
    rank,       \* for each key with a verdict, the rank of its date
    expired,    \* how many verdicts are older than PROBE_TTL
    verdict,    \* the verdict cached for each key
    probing,    \* probes of each key the running refresh has yet to end
    results     \* definitive results of the running refresh, in order

vars == <<actual, settled, rank, expired, verdict, probing, results>>

Cached == DOMAIN rank

NoProbes == [k \in Keys |-> 0]

TypeOK ==
    /\ actual \in [Keys -> Kinds]
    /\ settled \in BOOLEAN
    /\ Cached \subseteq Keys /\ IsFiniteSet(Cached)
    /\ rank \in [Cached -> 1 .. Cardinality(Cached)]
    /\ \A j, k \in Cached : rank[j] = rank[k] => j = k
    /\ expired \in 0 .. Cardinality(Cached)
    /\ verdict \in [Cached -> Kinds]
    /\ probing \in [Keys -> 0 .. 3]
    /\ results \in Seq([key : Keys, found : Kinds])

Init ==
    /\ actual \in [Keys -> Kinds]
    /\ settled = FALSE
    /\ rank = <<>> /\ expired = 0
    /\ verdict = <<>>
    /\ probing = NoProbes /\ results = <<>>

-----------------------------------------------------------------------------
Redeploy(k, kind) ==
    /\ ~settled
    /\ actual[k] # kind
    /\ actual' = [actual EXCEPT ![k] = kind]
    /\ UNCHANGED <<settled, rank, expired, verdict, probing, results>>

Settle ==
    /\ ~settled
    /\ settled' = TRUE
    /\ UNCHANGED <<actual, rank, expired, verdict, probing, results>>

(* The oldest verdict still fresh passes the TTL. *)
Expire ==
    /\ expired < Cardinality(Cached)
    /\ expired' = expired + 1
    /\ UNCHANGED <<actual, settled, rank, verdict, probing, results>>

-----------------------------------------------------------------------------
IsStale(k) == k \in Cached /\ rank[k] <= expired

(***************************************************************************)
(* The stale keys named in this cycle, oldest first and copy by copy,      *)
(* until the budget is spent: how many probes of k it pays for.            *)
(***************************************************************************)
StaleBefore(named, k) == {j \in named : IsStale(j) /\ rank[j] < rank[k]}

CopiesOf(ks) == {copy \in ks \X (1 .. 3) : copy[2] <= Copies[copy[1]]}

(* Mutated: the budget is counted in keys. *)
GrantedByKey(named, k) ==
    IF IsStale(k) /\ Cardinality(StaleBefore(named, k)) < Budget THEN Copies[k] ELSE 0

Granted(named, k) ==
    LET spent == Cardinality(CopiesOf(StaleBefore(named, k)))
    IN  CASE ~IsStale(k) \/ spent >= Budget -> 0
          [] OTHER -> IF spent + Copies[k] > Budget THEN Budget - spent ELSE Copies[k]

(* First pass: what to probe.  Nothing to probe, nothing to do. *)
StartRefresh(named) ==
    /\ probing = NoProbes /\ results = <<>>
    /\ settled => named = Keys
    /\ probing' = [k \in Keys |->
                     IF k \notin named THEN 0
                     ELSE IF k \in Cached THEN Granted(named, k) ELSE Copies[k]]
    /\ probing' # NoProbes
    /\ UNCHANGED <<actual, settled, rank, expired, verdict, results>>

(* probe_one: a definitive answer, or none. *)
ProbeOne(k) ==
    /\ probing[k] > 0
    /\ probing' = [probing EXCEPT ![k] = @ - 1]
    /\ \/ results' = Append(results, [key |-> k, found |-> actual[k]])
       \/ k \in Flaky /\ UNCHANGED results
    /\ UNCHANGED <<actual, settled, rank, expired, verdict>>

(***************************************************************************)
(* Once every probe has ended, the results are inserted in the order they  *)
(* came and dated now; the last one for a key stays.                       *)
(***************************************************************************)
Renewed == {results[i].key : i \in DOMAIN results}

Kept == Cached \ Renewed

LastOf(k) == Max({i \in DOMAIN results : results[i].key = k})

KeptUpTo(n) == {k \in Kept : rank[k] <= n}

RenewedUpTo(n) == {k \in Renewed : LastOf(k) <= n}

(* Mutated: a key probed twice takes two dates. *)
RedatedTwice ==
    [k \in Cached \cup Renewed |->
       IF k \in Renewed THEN Cardinality(Kept) + LastOf(k) ELSE Cardinality(KeptUpTo(rank[k]))]

(* Mutated: a renewed verdict keeps its date. *)
RedatedNot ==
    [k \in Cached \cup Renewed |->
       IF k \in Cached THEN rank[k]
       ELSE Cardinality(Cached) + Cardinality(RenewedUpTo(LastOf(k)) \ Cached)]

Redated ==
    [k \in Cached \cup Renewed |->
       IF k \in Renewed THEN Cardinality(Kept) + Cardinality(RenewedUpTo(LastOf(k)))
       ELSE Cardinality(KeptUpTo(rank[k]))]

Insert ==
    /\ probing = NoProbes /\ results # <<>>
    /\ rank' = Redated
    /\ expired' = Cardinality(KeptUpTo(expired))
    /\ verdict' = [k \in Cached \cup Renewed |->
                     IF k \in Renewed THEN results[LastOf(k)].found ELSE verdict[k]]
    /\ results' = <<>>
    /\ UNCHANGED <<actual, settled, probing>>

Refreshing ==
    \/ \E named \in SUBSET Keys : StartRefresh(named)
    \/ \E k \in Keys : ProbeOne(k)
    \/ Insert

Next ==
    \/ \E k \in Keys, kind \in Kinds : Redeploy(k, kind)
    \/ Settle \/ Expire
    \/ Refreshing

(***************************************************************************)
(* Cycles come round, their probes end (each has a timeout), and time      *)
(* passes.                                                                 *)
(***************************************************************************)
Spec == Init /\ [][Next]_vars /\ WF_vars(Refreshing) /\ WF_vars(Expire)

-----------------------------------------------------------------------------
(* The probes under way of keys that have a verdict, one by one. *)
Reprobes == {p \in Cached \X (1 .. 3) : p[2] <= probing[p[1]]}

(***************************************************************************)
(* However many verdicts age out at once, and however often the node names *)
(* the same key, a cycle spends no more than the budget on keys that have  *)
(* a verdict.                                                              *)
(***************************************************************************)
ReprobesBounded == Cardinality(Reprobes) <= Budget

Reliable == Keys \ Flaky

ShowsActual(k) == k \in Cached /\ verdict[k] = actual[k]

(***************************************************************************)
(* "so a webapp redeploy is picked up without a daemon restart": once the  *)
(* contracts stop changing and the node names them all, the cache shows    *)
(* every contract whose probe does not fail as it is.                      *)
(***************************************************************************)
RedeployShows == <>settled => \A k \in Reliable : <>[]ShowsActual(k)
=============================================================================
