------------------------- MODULE MCTopologyContract -------------------------
(* Symmetry of the nodes and the publishers, for safety runs.  *)
EXTENDS TopologyContract, TLC

Symmetry == Permutations(Nodes) \cup Permutations(Pubkeys)
=============================================================================
