---------------------------- MODULE MCProbeCache ----------------------------
(***************************************************************************)
(* Three contracts, the first of which is named twice in a cycle; a        *)
(* contract is one of two things.                                          *)
(***************************************************************************)
EXTENDS ProbeCache

CONSTANTS k1, k2, k3

MCKeys == {k1, k2, k3}
MCCopies == [k \in MCKeys |-> IF k = k1 THEN 2 ELSE 1]

MCFewKeys == {k1, k2}
MCFewCopies == [k \in MCFewKeys |-> IF k = k1 THEN 2 ELSE 1]
=============================================================================
