---- MODULE MCKBuckets ----
(***************************************************************************)
(* Instances of KBuckets: identifiers of three bits, a local peer, and     *)
(* peers for every shared-prefix length, two of them with the identifier   *)
(* of another peer (a node that came back at a new address).               *)
(***************************************************************************)
EXTENDS KBuckets, MCKeyUtil

PeerAt(n, a) == [id |-> Bits(n), address |-> a]

MCLocal == PeerAt(0, "a0")

MCPeers == {PeerAt(n, "a0") : n \in 0..(2^W - 1)}
             \cup {PeerAt(n, "a1") : n \in {0, 1}}
====
