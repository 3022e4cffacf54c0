---- MODULE MCRoutingTable ----
(***************************************************************************)
(* Instances of RoutingTable: identifiers of three bits, the local peer    *)
(* and peers for every shared-prefix length; one peer carries the local    *)
(* identifier at another address.                                          *)
(***************************************************************************)
EXTENDS RoutingTable

Bits(n) == [i \in 1..W |-> (n \div 2^(W - i)) % 2 = 1]

PeerAt(n, a) == [id |-> Bits(n), address |-> a]

MCLocal == PeerAt(0, "a0")

MCPeers == {PeerAt(n, "a0") : n \in {0, 1, 2, 4, 5}} \cup {PeerAt(0, "a1")}

SomeSeqs == BoundedSeq({PeerAt(n, "a0") : n \in {1, 4, 5}} \cup {PeerAt(4, "a1")}, 4)

(***************************************************************************)
(* RoutingTable arranges positions by rank, a form that proofs can handle: *)
(* it selects and sorts as the community modules do.                       *)
(***************************************************************************)
ASSUME RetainSelects ==
  \A ps \in SomeSeqs, T \in SUBSET MCPeers :
    retain(ps, T) = SelectSeq(ps, LAMBDA p : p \in T)

ASSUME ArrangesAsSorted ==
  \A ps \in SomeSeqs, target \in Id :
    LET before(x, y) == \/ Nearer(target, ps[x].id, ps[y].id)
                        \/ ps[x].id = ps[y].id /\ x < y
        order   == SetToSortSeq(DOMAIN ps, before)
        smaller == {e \in (DOMAIN ps) \X (DOMAIN ps) : before(e[1], e[2])}
    IN  Arranged(ps, DOMAIN ps, smaller) = [x \in DOMAIN ps |-> ps[order[x]]]
=============================================================================
