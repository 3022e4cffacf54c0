----------------------------- MODULE MCNetwork -----------------------------
(***************************************************************************)
(* Three nodes with identifiers of two bits.  The put and the get are made *)
(* by different nodes.  The key is the identifier of the writer: node 11,  *)
(* which may be the only one that holds the value, is the last to be       *)
(* asked.                                                                  *)
(***************************************************************************)
EXTENDS Network

PeerAt(n) == [id |-> [i \in 1..W |-> (n \div 2^(W - i)) % 2 = 1], address |-> "a"]

MCPeers  == {PeerAt(n) : n \in {0, 1, 3}}
MCKey   == PeerAt(0).id
MCWriter == PeerAt(0)
MCSelf   == PeerAt(1)

\* Each node may meet the others, save that the writer meets itself and not the
\* reader, whom it learns of by a request.
MCMeetings ==
  {m \in MCPeers \X MCPeers : m[1] # m[2] /\ m # <<MCWriter, MCSelf>>}
    \cup {<<MCWriter, MCWriter>>}
=============================================================================
