---------------------------- MODULE MCBootstrap ----------------------------
(***************************************************************************)
(* A node with identifier 00, itself among the peers that others name, a   *)
(* neighbour 01, a node 10 known under two addresses, and a node 11 whose  *)
(* address does not parse: the last three share no prefix with 00 and      *)
(* compete for its first bucket.                                           *)
(***************************************************************************)
EXTENDS Bootstrap

Bits(n) == [i \in 1..W |-> (n \div 2^(W - i)) % 2 = 1]

PeerAt(n, a) == [id |-> Bits(n), address |-> a]

MCLocal == PeerAt(0, "a")

Nowhere == PeerAt(3, "?")

MCUnparseable == {Nowhere}

MCPeers == {MCLocal, PeerAt(1, "a"), PeerAt(2, "a"), PeerAt(2, "b"), Nowhere}

MCConfigs ==
  { <<>>, <<PeerAt(1, "a")>>, <<PeerAt(1, "a"), PeerAt(2, "b"), PeerAt(2, "a")>>,
    <<PeerAt(2, "a"), Nowhere>> }

\* Two bootstrap peers that can both name the node with two addresses.
TwoConfigs == { <<PeerAt(1, "a"), PeerAt(3, "a")>> }

TwoPeers == {PeerAt(n, "a") : n \in 1..3} \cup {PeerAt(2, "b")}

SomeSeqs == BoundedSeq({PeerAt(1, "a"), PeerAt(2, "a"), PeerAt(2, "b")}, 4)

\* Sorting and deduplicating do what the community modules' operators do.
ASSUME SortsById ==
  \A ps \in SomeSeqs :
    LET before(x, y) == Less(ps[x].id, ps[y].id) \/ (ps[x].id = ps[y].id /\ x < y)
        order == SetToSortSeq(DOMAIN ps, before)
    IN  SortById(ps, DOMAIN ps) = [x \in DOMAIN ps |-> ps[order[x]]]

ASSUME DropsEqualNeighbours ==
  \A ps \in SomeSeqs :
    dedup(ps) =
      FoldLeft(LAMBDA kept, p : IF kept # <<>> /\ Last(kept) = p THEN kept ELSE Append(kept, p),
               <<>>, ps)
=============================================================================
