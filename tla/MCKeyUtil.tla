----------------------------- MODULE MCKeyUtil -----------------------------
(***************************************************************************)
(* Compares the bit vectors of KeyUtil with the integers that the code     *)
(* computes on, for all pairs of identifiers and all targets of W bits.    *)
(* TLC evaluates both assumptions before it checks MCKBuckets.             *)
(***************************************************************************)
EXTENDS KeyUtil, Bitwise

Ids == 0..(2^W - 1)

\* The bits of n, most significant first.
Bits(n) == [i \in 1..W |-> (n \div 2^(W - i)) % 2 = 1]

(***************************************************************************)
(* common_prefix_length() as the code computes it: the XOR of the integers *)
(* is below 2^(W-n) exactly for the n up to the number of leading zeros.   *)
(***************************************************************************)
ASSUME PrefixIsLeadingZeros ==
  \A a, b \in Ids :
    LET n == common_prefix_length(Bits(a), Bits(b))
    IN  n \in 0..W /\ a ^^ b < 2^(W - n) /\ (n < W => a ^^ b >= 2^(W - n - 1))

(***************************************************************************)
(* The comparison of the sort_by closures, (a.id ^ key).cmp(b.id ^ key),   *)
(* orders identifiers by the XOR of the integers.                          *)
(***************************************************************************)
ASSUME NearerIsSmallerXor ==
  \A a, b, target \in Ids :
    Nearer(Bits(target), Bits(a), Bits(b)) <=> (a ^^ target < b ^^ target)
=============================================================================
