---------------------------- MODULE MCMessages ----------------------------
(***************************************************************************)
(* Identifiers of two bytes.  The keys differ in their last bit, or in     *)
(* their first byte only; one begins with a zero byte.  Other programs     *)
(* send a message without a peer, one whose identifier is a byte short, a  *)
(* request without a key, and complete requests of a stranger whose        *)
(* identifier begins with that of a node: one with a key that nodes use,   *)
(* one with a longer key that begins with such a key.                      *)
(***************************************************************************)
EXTENDS Messages

Bits(n) == [i \in 1..W |-> (n \div 2^(W - i)) % 2 = 1]

MCNodes == {[id |-> Bits(1), address |-> "a"], [id |-> Bits(513), address |-> "b"]}

MCKeys == {Bits(1), Bits(0), Bits(257)}

Bare(p) == [key |-> <<>>, value |-> Empty, closerPeers |-> <<>>, myself |-> p, code |-> "OK"]

Longer(bytes) == bytes \o <<[j \in 1..8 |-> FALSE]>>

Stranger == [id |-> Longer(key_to_bytes(Bits(513))), addrs |-> "c"]

\* As a store it puts the empty value.
Whole(key) == [Bare(<<Stranger>>) EXCEPT !.key = key]

MCOthers ==
  {Bare(<<>>), Bare(<<[id |-> Tail(key_to_bytes(Bits(1))), addrs |-> "a"]>>),
   Bare(<<[id |-> key_to_bytes(Bits(1)), addrs |-> "a"]>>),
   Whole(key_to_bytes(Bits(1))), Whole(Longer(key_to_bytes(Bits(257))))}
=============================================================================
