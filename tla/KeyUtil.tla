------------------------------ MODULE KeyUtil ------------------------------
(***************************************************************************)
(* Identifiers of the DHT (src/src/keyutil.rs).  A u128 is its bits, most  *)
(* significant first: a function from 1..W to BOOLEAN, with W = 128 in the *)
(* code.  Exclusive or, the unsigned comparison and leading_zeros are then *)
(* bitwise definitions that need no arithmetic, so that they can be        *)
(* reasoned about for every width; MCKeyUtil compares them with the        *)
(* integer operations over all identifiers of a small width.               *)
(***************************************************************************)
EXTENDS Integers, FiniteSets

CONSTANT W          \* number of bits of an identifier: 128 in the code

ASSUME WAssumption == W \in Nat

Id == [1..W -> BOOLEAN]

\* The XOR of two identifiers, a ^ b
Distance(a, b) == [i \in 1..W |-> a[i] # b[i]]

\* x < y as unsigned integers: y is larger at the first bit where they differ
Less(x, y) ==
  \E i \in 1..W : /\ ~x[i] /\ y[i]
                  /\ \A j \in 1..(i-1) : x[j] = y[j]

\* u128::leading_zeros
LeadingZeros(x) == Cardinality({i \in 1..W : \A j \in 1..i : ~x[j]})

common_prefix_length(a, b) == LeadingZeros(Distance(a, b))

\* The comparison that sort_by uses on peers: a is nearer to target than b.
Nearer(target, a, b) == Less(Distance(a, target), Distance(b, target))
=============================================================================
