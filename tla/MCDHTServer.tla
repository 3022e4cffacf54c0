---------------------------- MODULE MCDHTServer ----------------------------
(***************************************************************************)
(* Three requests at a node with identifier 00 and buckets of one peer:    *)
(* peers 10 and 11 compete for bucket 0.  Every kind of request occurs;    *)
(* the lookup uses the key of one of the two stores.                       *)
(***************************************************************************)
EXTENDS DHTServer

Bits(n) == [i \in 1..W |-> (n \div 2^(W - i)) % 2 = 1]

PeerAt(n) == [id |-> Bits(n), address |-> "a"]

MCLocal == PeerAt(0)

MCPeers == {PeerAt(n) : n \in 1..3}

Message(kind, valid, from, key, value) ==
  [kind |-> kind, valid |-> valid, from |-> PeerAt(from), key |-> Bits(key),
   value |-> value]

CONSTANTS v1, v2

MCMessages ==
  { Message("store", TRUE, 1, 2, v1),
    Message("store", TRUE, 3, 3, v2),
    Message("find_value", TRUE, 2, 2, v1),
    Message("find_node", TRUE, 2, 2, v1),
    Message("find_node", TRUE, 3, 3, v1),
    Message("ping", TRUE, 1, 0, v1),
    Message("store", FALSE, 1, 2, v1) }
=============================================================================
