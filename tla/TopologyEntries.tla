-------------------------- MODULE TopologyEntries --------------------------
(***************************************************************************)
(* The data of the topology contract and the operations of                 *)
(* shared/src/contract.rs on it: signed entries, the contract state (at    *)
(* most one entry per publisher key), summaries and deltas, and the        *)
(* last-writer-wins merge.                                                 *)
(*                                                                         *)
(* A payload is abstracted to the three things the merge tells apart: the  *)
(* publisher key, the timestamp, and a `body` standing for everything      *)
(* else.  `ok` is what SignedEntry::verify returns: FALSE stands for each  *)
(* of BadPayload, KeyMismatch and BadSignature, which no caller            *)
(* distinguishes.                                                          *)
(***************************************************************************)
EXTENDS Naturals, Sequences

CONSTANTS
    Pubkeys,    \* Ed25519 public keys of publishers
    Bodies,     \* what a snapshot says, apart from its key and timestamp
    MaxTime,    \* bound on timestamp_ms
    NoEntry     \* "the map has no entry for this key"

ASSUME MaxTimeAssumption == MaxTime \in Nat

Time == 0 .. MaxTime

Entry == [key : Pubkeys, ts : Time, body : Bodies, ok : BOOLEAN]

ASSUME NoEntryAssumption == NoEntry \notin Entry

(***************************************************************************)
(* ContractState: a BTreeMap from publisher key to signed entry.  Every    *)
(* entry is inserted under the key of its own payload (apply), and only    *)
(* after it verified.                                                      *)
(***************************************************************************)
Stored(k) == {e \in Entry : e.key = k /\ e.ok}

ContractState ==
    {st \in [Pubkeys -> Entry \cup {NoEntry}] :
        \A k \in Pubkeys : st[k] = NoEntry \/ st[k] \in Stored(k)}

EmptyState == [k \in Pubkeys |-> NoEntry]

Present(st) == {k \in Pubkeys : st[k] # NoEntry}

-----------------------------------------------------------------------------
(***************************************************************************)
(* ContractState::apply.  An entry is taken when it verifies and the state *)
(* has no entry of its key or one with a strictly smaller timestamp.       *)
(***************************************************************************)
(* Mutated: the incumbent loses ties.                                      *)
BeatsOrTies(e, old) == old = NoEntry \/ old.ts <= e.ts

Beats(e, old) == old = NoEntry \/ old.ts < e.ts

(* Mutated: apply without verify.                                          *)
AcceptsUnverified(st, e) == Beats(e, st[e.key])

Accepts(st, e) == e.ok /\ Beats(e, st[e.key])

Apply(st, e) == IF Accepts(st, e) THEN [st EXCEPT ![e.key] = e] ELSE st

(***************************************************************************)
(* What applying a list of entries one after the other amounts to, stated  *)
(* without the loop: for each key the first entry with the largest         *)
(* timestamp among those that beat the incumbent, else the incumbent.      *)
(* UpdateState.tla has the loop, and shows that it computes this.          *)
(***************************************************************************)
Candidates(st, es, k) ==
    {i \in DOMAIN es : es[i].ok /\ es[i].key = k /\ Beats(es[i], st[k])}

Wins(st, es, k, i) ==
    /\ i \in Candidates(st, es, k)
    /\ \A j \in Candidates(st, es, k) :
          es[j].ts < es[i].ts \/ (es[j].ts = es[i].ts /\ i <= j)

Merge(st, es) ==
    [k \in Pubkeys |->
        IF Candidates(st, es, k) = {}
        THEN st[k]
        ELSE es[CHOOSE i \in Candidates(st, es, k) : Wins(st, es, k, i)]]

-----------------------------------------------------------------------------
(***************************************************************************)
(* ContractState::summarize: the timestamp held for each key present.      *)
(***************************************************************************)
ContractSummary == UNION {[D -> Time] : D \in SUBSET Pubkeys}

(* Mutated: the keys, without the time held for them.                      *)
SummarizeKeys(st) == [k \in Present(st) |-> 0]

Summarize(st) == [k \in Present(st) |-> st[k].ts]

(***************************************************************************)
(* known_timestamps.get(k).unwrap_or(0): a key the summary does not list   *)
(* counts as known at time zero.                                           *)
(***************************************************************************)
Known(summary, k) == IF k \in DOMAIN summary THEN summary[k] ELSE 0

(***************************************************************************)
(* ContractState::delta_against.  The entries of such a delta have         *)
(* different keys, so it is a partial map from key to entry, and the order *)
(* it lists them in is immaterial (KeyedMergeIsJoin in                     *)
(* UpdateState_proofs.tla).  `ok` may be FALSE in a delta that was damaged *)
(* on its way.                                                             *)
(***************************************************************************)
KeyedDelta ==
    {d \in [Pubkeys -> Entry \cup {NoEntry}] :
        \A k \in Pubkeys : d[k] = NoEntry \/ d[k].key = k}

(* Mutated: only the keys the summary does not list.                       *)
DeltaOfMissing(st, summary) ==
    [k \in Pubkeys |-> IF k \notin DOMAIN summary THEN st[k] ELSE NoEntry]

DeltaAgainst(st, summary) ==
    [k \in Pubkeys |->
        IF st[k] # NoEntry /\ st[k].ts > Known(summary, k) THEN st[k] ELSE NoEntry]

(***************************************************************************)
(* Applying every entry of such a partial map: a whole state, a delta, or  *)
(* the single entry a publisher sends.                                     *)
(***************************************************************************)
(* Mutated: the last update wins, whatever its time.                       *)
JoinReplaces(st, d) ==
    [k \in Pubkeys |-> IF d[k] # NoEntry /\ d[k].ok THEN d[k] ELSE st[k]]

Join(st, d) ==
    [k \in Pubkeys |-> IF d[k] # NoEntry /\ Accepts(st, d[k]) THEN d[k] ELSE st[k]]

(***************************************************************************)
(* The state holds, for every key the summary lists, something at least as *)
(* recent.                                                                 *)
(***************************************************************************)
Covers(st, summary) ==
    \A k \in DOMAIN summary : st[k] # NoEntry /\ st[k].ts >= summary[k]
=============================================================================
