----------------------------- MODULE MCSettings -----------------------------
(***************************************************************************)
(* A small instance of Settings: lists that are the default, empty, of     *)
(* one's own and too long; numbers below, within and above their ranges.   *)
(***************************************************************************)
EXTENDS Settings, TLC

CONSTANTS Own, Long

Edited(list, width, tick) == [nodes |-> list, width |-> width, tab |-> "contracts", tick |-> tick]

MCBlobs == {Absent, Garbage, Edited(Own, 100, 0), Edited(Long, 400, 900), Edited(EmptyList, 320, 33)}

MCFragments == {NoFragment, [nodes |-> Own, width |-> 900], [nodes |-> EmptyList, width |-> Absent]}

MCLists == {DefaultList, EmptyList, Own, Long}

MCLong == {Long}

TabSymmetry == Permutations(Tabs)
=============================================================================
