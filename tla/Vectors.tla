------------------------------ MODULE Vectors ------------------------------
(***************************************************************************)
(* What the library functions that the source calls on a Vec do with the   *)
(* order of its elements: sort, retain (or filter) and dedup.  They are    *)
(* written in a form that proofs can handle; MCRoutingTable and            *)
(* MCBootstrap compare them with the operators of the community modules.   *)
(***************************************************************************)
EXTENDS Integers, SequencesExt

(***************************************************************************)
(* The elements of ps at the positions S, arranged by the strict order R   *)
(* on S: the n-th of them has n - 1 others before it.                      *)
(***************************************************************************)
Arranged(ps, S, R) ==
  LET nth(n) == CHOOSE x \in S : Cardinality({y \in S : <<y, x>> \in R}) = n - 1
  IN  [n \in 1..Cardinality(S) |-> ps[nth(n)]]

\* The elements of ps at the positions S, in the order of ps.
Selected(ps, S) ==
  LET taken[i \in 0..Len(ps)] ==
        IF i = 0 THEN <<>>
        ELSE IF i \in S THEN Append(taken[i - 1], ps[i]) ELSE taken[i - 1]
  IN  taken[Len(ps)]

\* Vec::retain: the elements of ps that are in T.
retain(ps, T) == Selected(ps, {x \in DOMAIN ps : ps[x] \in T})

\* Vec::dedup: drops an element that equals the one before it.
dedup(ps) == Selected(ps, {x \in DOMAIN ps : x = 1 \/ ps[x] # ps[x - 1]})
=============================================================================
