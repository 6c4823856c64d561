---------------------------- MODULE UpdateState ----------------------------
(***************************************************************************)
(* One call of update_state (topology-contract/src/lib.rs), loop iteration *)
(* by loop iteration.                                                      *)
(*                                                                         *)
(* The host hands the contract the current state and a list of updates:    *)
(* deltas, whole states, both at once, or a variant the contract ignores.  *)
(* The contract works on its own copy, entry by entry.  Bytes that do not  *)
(* deserialize end the call with an error, which leaves the host with the  *)
(* state it had; an entry that does not verify is dropped alone.           *)
(*                                                                         *)
(* An update is [kind, state, delta, stateParses, deltaParses]: the two    *)
(* entry lists it carries in the order the loops visit them, and whether   *)
(* the bytes of each deserialize.                                          *)
(***************************************************************************)
EXTENDS TopologyEntries

CONSTANT Updates    \* the updates a host may pass

Kinds == {"delta", "state", "both", "related"}

Update ==
    [kind : Kinds, state : Seq(Entry), delta : Seq(Entry),
     stateParses : BOOLEAN, deltaParses : BOOLEAN]

ASSUME UpdatesAssumption == Updates \subseteq Update

CONSTANTS
    Inputs,     \* states the host may hold
    Calls       \* the lists of updates it may pass

ASSUME CallsAssumption == Inputs \subseteq ContractState /\ Calls \subseteq Seq(Updates)

VARIABLES
    input,      \* the state the host passed
    data,       \* the updates it passed
    at,         \* position in data of the next update to take
    current,    \* the contract's working copy
    todo,       \* entries still to apply in the loop that is running
    pc,         \* "next", "state", "delta", "modified" or "error"
    applied     \* history: the entries handed to apply so far

vars == <<input, data, at, current, todo, pc, applied>>

Init ==
    /\ input \in Inputs
    /\ data \in Calls
    /\ at = 1
    /\ current = input
    /\ todo = <<>>
    /\ pc = "next"
    /\ applied = <<>>

-----------------------------------------------------------------------------
(***************************************************************************)
(* for update in data { match update { ... } }                             *)
(***************************************************************************)
Loop(es, which) ==
    /\ todo' = es
    /\ pc' = which
    /\ UNCHANGED <<input, data, current, applied>>

Fail ==
    /\ pc' = "error"
    /\ UNCHANGED <<input, data, at, current, todo, applied>>

(* UpdateData::Delta: deserialize, then apply each entry. *)
TakeDelta(u) ==
    /\ u.kind = "delta"
    /\ IF u.deltaParses THEN Loop(u.delta, "delta") /\ at' = at + 1 ELSE Fail

(* UpdateData::State, and the state part of StateAndDelta. *)
TakeState(u) ==
    /\ u.kind \in {"state", "both"}
    /\ IF u.stateParses THEN Loop(u.state, "state") /\ at' = at + 1 ELSE Fail

(* The variants this contract ignores. *)
SkipRelated(u) ==
    /\ u.kind = "related"
    /\ at' = at + 1
    /\ UNCHANGED <<input, data, current, todo, pc, applied>>

NextUpdate ==
    /\ pc = "next"
    /\ at <= Len(data)
    /\ \/ TakeDelta(data[at])
       \/ TakeState(data[at])
       \/ SkipRelated(data[at])

(* Mutated: the first entry that does not verify ends its loop. *)
ApplyUntilBad ==
    /\ pc \in {"state", "delta"}
    /\ todo # <<>>
    /\ current' = Apply(current, Head(todo))
    /\ applied' = Append(applied, Head(todo))
    /\ todo' = IF Head(todo).ok THEN Tail(todo) ELSE <<>>
    /\ UNCHANGED <<input, data, at, pc>>

(* let _ = current.apply(entry): the verdict is discarded. *)
ApplyEntry ==
    /\ pc \in {"state", "delta"}
    /\ todo # <<>>
    /\ current' = Apply(current, Head(todo))
    /\ applied' = Append(applied, Head(todo))
    /\ todo' = Tail(todo)
    /\ UNCHANGED <<input, data, at, pc>>

(* Mutated: a delta part that does not deserialize is taken as empty. *)
DeltaPartLenient ==
    /\ pc = "state"
    /\ todo = <<>>
    /\ data[at - 1].kind = "both"
    /\ Loop(IF data[at - 1].deltaParses THEN data[at - 1].delta ELSE <<>>, "delta")
    /\ UNCHANGED at

(* The bytes of the delta part of a StateAndDelta are only looked at once  *)
(* its state part has been applied.                                        *)
DeltaPart ==
    /\ pc = "state"
    /\ todo = <<>>
    /\ data[at - 1].kind = "both"
    /\ IF data[at - 1].deltaParses
       THEN Loop(data[at - 1].delta, "delta") /\ UNCHANGED at
       ELSE Fail

UpdateDone ==
    /\ todo = <<>>
    /\ pc = "delta" \/ (pc = "state" /\ data[at - 1].kind = "state")
    /\ pc' = "next"
    /\ UNCHANGED <<input, data, at, current, todo, applied>>

(* Ok(UpdateModification::valid(..)) *)
Return ==
    /\ pc = "next"
    /\ at > Len(data)
    /\ pc' = "modified"
    /\ UNCHANGED <<input, data, at, current, todo, applied>>

(* The call is over: without this step TLC would report it as a deadlock,  *)
(* with it any other state that has no next step is one.                   *)
Over == pc \in {"modified", "error"} /\ UNCHANGED vars

Next == NextUpdate \/ ApplyEntry \/ DeltaPart \/ UpdateDone \/ Return \/ Over

Spec == Init /\ [][Next]_vars

-----------------------------------------------------------------------------
(* What the host holds once the call is over: the new state, or on an      *)
(* error the one it passed.                                                *)
HostState == IF pc = "modified" THEN current ELSE input

TypeOK ==
    /\ input \in ContractState
    /\ data \in Seq(Updates)
    /\ at \in 1 .. Len(data) + 1
    /\ current \in ContractState
    /\ todo \in Seq(Entry)
    /\ pc \in {"next", "state", "delta", "modified", "error"}
    /\ applied \in Seq(Entry)

(***************************************************************************)
(* The loop computes the merge: after any number of iterations the working *)
(* copy is, key by key, the first of the newest verified entries seen, or  *)
(* the entry the host had when none is newer.                              *)
(***************************************************************************)
LoopIsMerge == current = Merge(input, applied)

Parts(u) ==
    CASE u.kind = "delta" -> {u.delta}
      [] u.kind = "state" -> {u.state}
      [] u.kind = "both" -> {u.state, u.delta}
      [] u.kind = "related" -> {}

Malformed(u) ==
    \/ u.kind \in {"state", "both"} /\ ~u.stateParses
    \/ u.kind \in {"delta", "both"} /\ ~u.deltaParses

(***************************************************************************)
(* A call that succeeds has taken account of every verified entry of every *)
(* update of the call, however many entries beside it were dropped: the    *)
(* host then holds something at least as recent for its key.               *)
(***************************************************************************)
NothingOverlooked ==
    pc = "modified" =>
        \A i \in DOMAIN data : \A es \in Parts(data[i]) : \A j \in DOMAIN es :
            es[j].ok =>
                /\ HostState[es[j].key] # NoEntry
                /\ HostState[es[j].key].ts >= es[j].ts

(***************************************************************************)
(* A call that ends does so with an error exactly when some bytes of it do *)
(* not deserialize, wherever in the list they are; an entry that fails     *)
(* verification never makes a call fail.                                   *)
(***************************************************************************)
FailsIffMalformed ==
    /\ pc = "modified" => \A i \in DOMAIN data : ~Malformed(data[i])
    /\ pc = "error" => \E i \in DOMAIN data : Malformed(data[i])
=============================================================================
