--------------------------- MODULE MCUpdateState ---------------------------
(***************************************************************************)
(* Two publishers, timestamps 0 to 2, two snapshots that may share a       *)
(* timestamp, lists of up to three entries, calls of up to two updates.    *)
(***************************************************************************)
EXTENDS UpdateState, SequencesExt

CONSTANTS p1, p2, a, b

MCBodies == {a, b}

E(k, t, c, v) == [key |-> k, ts |-> t, body |-> c, ok |-> v]

(* Ties (same key and time, different body), a zero timestamp, an entry    *)
(* that does not verify and would otherwise win, and a second key.         *)
Sample ==
    {E(p1, 0, a, TRUE), E(p1, 1, a, TRUE), E(p1, 1, b, TRUE), E(p1, 2, b, TRUE),
     E(p1, 2, a, FALSE), E(p2, 1, a, TRUE)}

MCInputs ==
    {[k \in {p1, p2} |-> NoEntry],
     [k \in {p1, p2} |-> IF k = p1 THEN E(p1, 1, b, TRUE) ELSE NoEntry],
     [k \in {p1, p2} |-> E(k, 1, a, TRUE)]}

Delta(es) ==
    [kind |-> "delta", state |-> <<>>, delta |-> es, stateParses |-> FALSE, deltaParses |-> TRUE]

Few == {<<>>, <<E(p1, 1, a, TRUE)>>, <<E(p1, 2, a, FALSE), E(p1, 2, b, TRUE)>>}

Mixed ==
    [kind : Kinds \ {"both"}, state : Few, delta : Few,
     stateParses : BOOLEAN, deltaParses : BOOLEAN]
        \cup [kind : {"both"}, state : {<<E(p1, 2, a, TRUE), E(p2, 1, a, TRUE)>>}, delta : Few,
              stateParses : BOOLEAN, deltaParses : BOOLEAN]

LongDeltas == {Delta(es) : es \in BoundedSeq(Sample, 3)}

MCUpdates == Mixed \cup LongDeltas

MCCalls == {<<u>> : u \in LongDeltas} \cup BoundedSeq(Mixed, 2)
=============================================================================
