---------------------------- MODULE MCPublisher ----------------------------
(***************************************************************************)
(* The nodes the daemon meets: a network node; an old one that ignores the *)
(* hosting query; a local one that refuses both queries; one that refuses  *)
(* only the hosting query; one that fails updates; and one that cannot     *)
(* subscribe.                                                              *)
(***************************************************************************)
EXTENDS Publisher

Does(s, d, h, u) ==
    [q \in Requests |->
        CASE q = "subscribe" -> s [] q = "diagnostics" -> d [] q = "hosting" -> h [] q = "update" -> u]

NetworkNode == Does("answers", "answers", "answers", "answers")
OldNode     == Does("answers", "answers", "ignores", "answers")
LocalNode   == Does("answers", "refuses", "refuses", "answers")
PartialNode == Does("answers", "answers", "refuses", "answers")
FailingNode == Does("answers", "answers", "answers", "refuses")
NoContract  == Does("refuses", "answers", "answers", "refuses")

AllNodes == {NetworkNode, OldNode, LocalNode, PartialNode, FailingNode, NoContract}
=============================================================================
