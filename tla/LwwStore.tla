------------------------------ MODULE LwwStore ------------------------------
(***************************************************************************)
(* What the topology contract promises, with no messages, summaries or     *)
(* deltas in it: every holder keeps one register per publisher, publishers *)
(* write snapshots, and a holder's registers move to newer snapshots that  *)
(* were written, any number of them at once, and never back.               *)
(***************************************************************************)
EXTENDS TopologyEntries

CONSTANT Holders

VARIABLES
    written,    \* the snapshots written so far
    register    \* register[n]: what holder n has, per publisher

Init ==
    /\ written = {}
    /\ register = [n \in Holders |-> EmptyState]

Write ==
    /\ \E e \in Entry : e.ok /\ written' = written \cup {e}
    /\ UNCHANGED register

Newer(n, k) ==
    /\ register'[n][k] \in written
    /\ register'[n][k].key = k
    /\ Beats(register'[n][k], register[n][k])

Learn(n) ==
    /\ register' = [register EXCEPT ![n] = register'[n]]
    /\ DOMAIN register'[n] = Pubkeys
    /\ \A k \in Pubkeys : register'[n][k] = register[n][k] \/ Newer(n, k)
    /\ UNCHANGED written

Next == Write \/ \E n \in Holders : Learn(n)

Spec == Init /\ [][Next]_<<written, register>>
=============================================================================
