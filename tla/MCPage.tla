------------------------------- MODULE MCPage -------------------------------
(***************************************************************************)
(* A small instance of Page.  Three contracts, two of whose keys differ in *)
(* case only; titles that differ in case, that are padded, that hold `|`   *)
(* and a letter of two bytes; contracts of which nothing, only the hash,   *)
(* or only the verdict is known; publishers with and without an address    *)
(* and a name, one of whom is the other's neighbour or shares its address. *)
(***************************************************************************)
EXTENDS Page

CONSTANTS p1, p2, h1, h2, a1, a2, a3

KA == <<65>>  Ka == <<97>>  KB == <<66>>

R(k, web, title, hash) == [key |-> k, web |-> web, title |-> title, hash |-> hash]

Capital == <<82>>  Padded == <<114, 32>>  Odd == <<195, 169, 124>>

Payload(name, address, time, peers, contracts, dialect) ==
    [name |-> name, address |-> address, time |-> time, neighbors |-> peers,
     contracts |-> contracts, dialect |-> dialect]

Peer(a, gw) == [address |-> a, isGateway |-> gw]

First ==
    { Payload(<<>>, a1, 1, <<Peer(a2, FALSE)>>,
              <<R(KA, "yes", Capital, h1), R(Ka, "yes", Padded, h2)>>, "own"),
      Payload(<<110>>, a1, 2, <<Peer(a2, FALSE), Peer(a3, TRUE)>>,
              <<R(KA, "none", None, h1), R(KB, "yes", None, h1), R(Ka, "none", None, NoHash)>>, "own"),
      Payload(<<110>>, NoAddress, 3, <<>>,
              <<R(KA, "no", None, h1), R(KB, "yes", Odd, NoHash)>>, "foreign") }

Second ==
    { Payload(<<>>, a2, 2, <<Peer(a1, TRUE)>>,
              <<R(KA, "none", None, h1), R(KB, "yes", Capital, h2)>>, "foreign"),
      Payload(<<109>>, a1, 1, <<Peer(a2, FALSE)>>, <<R(KA, "yes", Odd, h1)>>, "own"),
      Payload(<<>>, NoAddress, 1, <<Peer(a2, FALSE), Peer(a2, FALSE)>>, <<>>, "own") }

MCPool ==
    {[p \in {p1} |-> e] : e \in First} \cup {[p \in {p2} |-> e] : e \in Second}
        \cup {(p1 :> e) @@ (p2 :> f) : e \in First, f \in Second}

MCDefault == <<[name |-> <<110>>, address |-> a1], [name |-> <<107>>, address |-> a3]>>

MCKnown == {<<>>, MCDefault, <<[name |-> <<109>>, address |-> a2]>>}

MCKeys == {KA, Ka, KB}
=============================================================================
