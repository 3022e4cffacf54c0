------------------------- MODULE RoutingTableProofs -------------------------
(***************************************************************************)
(* The vectors of RoutingTable, for every capacity, identifier width and   *)
(* set of peers: they implement KBuckets, and the answers taken from them  *)
(* are answers of KBuckets.  First what sorting by rank and retain() yield *)
(* on any sequence, then the unfolding, then one contact, which gives the  *)
(* inductive invariant and the refinement, and last nearest_peers().       *)
(***************************************************************************)
EXTENDS RoutingTable, FiniteSetTheorems, SequenceTheorems, WellFoundedInduction, TLAPS

(***************************************************************************)
(* Sorting: Arranged(ps, S, R) has each element at a position in S once,   *)
(* in the order R.                                                         *)
(***************************************************************************)
StrictOrder(S, R) ==
  /\ \A x \in S : <<x, x>> \notin R
  /\ \A x, y, z \in S : <<x, y>> \in R /\ <<y, z>> \in R => <<x, z>> \in R
  /\ \A x, y \in S : x = y \/ <<x, y>> \in R \/ <<y, x>> \in R

\* The elements of S before x.
Below(S, R, x) == {y \in S : <<y, x>> \in R}

Rank(S, R, x) == Cardinality(Below(S, R, x))

\* o enumerates S in the order R.
Enumerates(o, n, S, R) ==
  /\ o \in [1..n -> S]
  /\ \A x \in S : \E k \in 1..n : o[k] = x
  /\ \A j, k \in 1..n : j < k => <<o[j], o[k]>> \in R

\* The rank of an element is a number below the size of the set.
LEMMA RankType ==
  ASSUME NEW S, NEW R, IsFiniteSet(S), StrictOrder(S, R), NEW x \in S
  PROVE  Rank(S, R, x) \in 0..(Cardinality(S) - 1)
<1>1. Below(S, R, x) \in SUBSET (S \ {x})
  BY DEF Below, StrictOrder
<1>2. IsFiniteSet(S \ {x}) /\ Cardinality(S \ {x}) = Cardinality(S) - 1
  BY FS_RemoveElement
<1>3. /\ IsFiniteSet(Below(S, R, x))
      /\ Cardinality(Below(S, R, x)) <= Cardinality(S \ {x})
  BY <1>1, <1>2, FS_Subset
<1>4. Cardinality(Below(S, R, x)) \in Nat /\ Cardinality(S) \in Nat
  BY <1>3, FS_CardinalityType
<1> QED BY <1>2, <1>3, <1>4 DEF Rank

\* Who comes later in the order has the larger rank.
LEMMA RankGrows ==
  ASSUME NEW S, NEW R, IsFiniteSet(S), StrictOrder(S, R),
         NEW x \in S, NEW y \in S, <<x, y>> \in R
  PROVE  Rank(S, R, x) < Rank(S, R, y)
<1>1. Below(S, R, x) \in SUBSET Below(S, R, y)
  BY DEF Below, StrictOrder
<1>2. x \in Below(S, R, y) /\ x \notin Below(S, R, x)
  BY DEF Below, StrictOrder
<1>3. Below(S, R, y) \in SUBSET S
  BY DEF Below
<1>4. IsFiniteSet(Below(S, R, y))
  BY <1>3, FS_Subset
<1>5. /\ Cardinality(Below(S, R, x)) <= Cardinality(Below(S, R, y))
      /\ Cardinality(Below(S, R, x)) # Cardinality(Below(S, R, y))
      /\ IsFiniteSet(Below(S, R, x))
  BY <1>1, <1>2, <1>4, FS_Subset
<1>6. Cardinality(Below(S, R, x)) \in Nat /\ Cardinality(Below(S, R, y)) \in Nat
  BY <1>4, <1>5, FS_CardinalityType
<1> QED BY <1>5, <1>6 DEF Rank

\* Different elements have different ranks.
LEMMA RankInjective ==
  ASSUME NEW S, NEW R, IsFiniteSet(S), StrictOrder(S, R),
         NEW x \in S, NEW y \in S, Rank(S, R, x) = Rank(S, R, y)
  PROVE  x = y
<1>1. Rank(S, R, x) \in Int /\ Rank(S, R, y) \in Int
  BY RankType
<1>2. ~(Rank(S, R, x) < Rank(S, R, y)) /\ ~(Rank(S, R, y) < Rank(S, R, x))
  BY <1>1
<1>3. <<x, y>> \notin R /\ <<y, x>> \notin R
  BY <1>2, RankGrows
<1> QED BY <1>3 DEF StrictOrder

\* Each number below the size of the set is the rank of an element.
LEMMA RankOnto ==
  ASSUME NEW S, NEW R, IsFiniteSet(S), StrictOrder(S, R),
         NEW m \in 0..(Cardinality(S) - 1)
  PROVE  \E x \in S : Rank(S, R, x) = m
<1> DEFINE n == Cardinality(S)
           T == 0..(n - 1)
           f == [x \in S |-> Rank(S, R, x)]
<1>1. n \in Nat
  BY FS_CardinalityType
<1>2. IsFiniteSet(T) /\ Cardinality(T) = n
  <2> HIDE DEF n
  <2> QED BY <1>1, FS_Interval, SMT
<1>3. f \in Injection(S, T)
  <2>1. f \in [S -> T]
    BY RankType
  <2>2. \A x, y \in S : f[x] = f[y] => x = y
    BY RankInjective
  <2> HIDE DEF f, T
  <2> QED BY <2>1, <2>2 DEF Injection, IsInjective
<1>4. f \in Surjection(S, T)
  <2> HIDE DEF f, T
  <2> QED BY <1>2, <1>3, FS_Injection DEF n
<1>5. \E x \in S : f[x] = m
  <2> HIDE DEF f
  <2> QED BY <1>4 DEF Surjection
<1> QED BY <1>5

(***************************************************************************)
(* Arranged(ps, S, R) is ps along an enumeration of S in the order R.      *)
(***************************************************************************)
LEMMA ArrangedInOrder ==
  ASSUME NEW ps, NEW S, NEW R, IsFiniteSet(S), StrictOrder(S, R)
  PROVE  \E o : /\ Enumerates(o, Cardinality(S), S, R)
                /\ Arranged(ps, S, R) = [k \in 1..Cardinality(S) |-> ps[o[k]]]
<1> DEFINE n == Cardinality(S)
           o == [k \in 1..n |-> CHOOSE x \in S : Rank(S, R, x) = k - 1]
<1>1. n \in Nat
  BY FS_CardinalityType
<1>2. \A k \in 1..n : o[k] \in S /\ Rank(S, R, o[k]) = k - 1
  <2> SUFFICES ASSUME NEW k \in 1..n PROVE o[k] \in S /\ Rank(S, R, o[k]) = k - 1
    OBVIOUS
  <2>1. k - 1 \in 0..(Cardinality(S) - 1)
    BY <1>1
  <2>2. \E x \in S : Rank(S, R, x) = k - 1
    BY <2>1, RankOnto
  <2> QED BY <2>2
<1>3. o \in [1..n -> S]
  BY <1>2
<1>4. \A x \in S : \E k \in 1..n : o[k] = x
  <2> SUFFICES ASSUME NEW x \in S PROVE \E k \in 1..n : o[k] = x
    OBVIOUS
  <2> DEFINE k == Rank(S, R, x) + 1
  <2>1. k \in 1..n /\ k - 1 = Rank(S, R, x)
    BY <1>1, RankType
  <2>2. Rank(S, R, o[k]) = Rank(S, R, x) /\ o[k] \in S
    BY <1>2, <2>1
  <2> HIDE DEF o, k
  <2>3. o[k] = x
    BY <2>2, RankInjective
  <2> QED BY <2>1, <2>3
<1>5. \A j, k \in 1..n : j < k => <<o[j], o[k]>> \in R
  <2> SUFFICES ASSUME NEW j \in 1..n, NEW k \in 1..n, j < k PROVE <<o[j], o[k]>> \in R
    OBVIOUS
  <2>1. /\ o[j] \in S /\ o[k] \in S
        /\ Rank(S, R, o[j]) = j - 1 /\ Rank(S, R, o[k]) = k - 1
    BY <1>2
  <2> HIDE DEF o
  <2>2. ~(Rank(S, R, o[k]) < Rank(S, R, o[j])) /\ o[j] # o[k]
    BY <2>1
  <2>3. <<o[k], o[j]>> \notin R
    BY <2>1, <2>2, RankGrows
  <2> QED BY <2>1, <2>2, <2>3 DEF StrictOrder
<1>6. Arranged(ps, S, R) = [k \in 1..n |-> ps[o[k]]]
  BY DEF Arranged, Rank, Below
<1> HIDE DEF o
<1> QED BY <1>3, <1>4, <1>5, <1>6 DEF Enumerates

(***************************************************************************)
(* There is only one enumeration of S in the order R.                      *)
(***************************************************************************)
LEMMA EnumerationUnique ==
  ASSUME NEW ps, NEW S, NEW R, IsFiniteSet(S), StrictOrder(S, R),
         NEW n \in Nat, NEW o, Enumerates(o, n, S, R)
  PROVE  n = Cardinality(S) /\ Arranged(ps, S, R) = [k \in 1..n |-> ps[o[k]]]
<1>1. o \in [1..n -> S] /\ \A x \in S : \E k \in 1..n : o[k] = x
  BY DEF Enumerates
<1>2. \A j, k \in 1..n : o[j] = o[k] => j = k
  <2> SUFFICES ASSUME NEW j \in 1..n, NEW k \in 1..n, o[j] = o[k], j < k PROVE FALSE
    OBVIOUS
  <2>1. o[j] \in S /\ <<o[j], o[k]>> \in R
    BY DEF Enumerates
  <2> QED BY <2>1 DEF StrictOrder
<1>3. n = Cardinality(S)
  <2>1. IsFiniteSet(1..n) /\ Cardinality(1..n) = n
    BY FS_Interval, SMT
  <2>2. o \in Bijection(1..n, S)
    BY <1>1, <1>2 DEF Bijection, Injection, Surjection, IsInjective
  <2>3. ExistsBijection(1..n, S)
    BY <2>2 DEF ExistsBijection
  <2> QED BY <2>1, <2>3, FS_Bijection
<1>4. ASSUME NEW k \in 1..n
      PROVE  Rank(S, R, o[k]) = k - 1
  <2> DEFINE I == 1..(k - 1)
             g == [j \in I |-> o[j]]
  <2>1. IsFiniteSet(I) /\ Cardinality(I) = k - 1
    BY FS_Interval, SMT
  <2>2. \A j \in I : j \in 1..n /\ j < k
    OBVIOUS
  <2>3. \A j \in I : o[j] \in Below(S, R, o[k])
    BY <1>1, <2>2 DEF Below, Enumerates
  <2>4. ASSUME NEW y \in Below(S, R, o[k])
        PROVE  \E j \in I : o[j] = y
    <3>1. y \in S /\ <<y, o[k]>> \in R /\ o[k] \in S
      BY <1>1 DEF Below
    <3>2. PICK j \in 1..n : o[j] = y
      BY <1>1, <3>1
    <3>3. ~(k < j)
      <4> SUFFICES ASSUME k < j PROVE FALSE
        OBVIOUS
      <4>1. <<o[k], y>> \in R
        BY <3>2 DEF Enumerates
      <4>2. <<y, y>> \in R
        BY <3>1, <4>1 DEF StrictOrder
      <4> QED BY <3>1, <4>2 DEF StrictOrder
    <3>4. k # j
      BY <3>1, <3>2 DEF StrictOrder
    <3>5. j \in I
      BY <3>3, <3>4
    <3> QED BY <3>2, <3>5
  <2>5. g \in Bijection(I, Below(S, R, o[k]))
    <3>1. g \in [I -> Below(S, R, o[k])]
      BY <2>3
    <3>2. \A i, j \in I : g[i] = g[j] => i = j
      BY <1>2, <2>2
    <3>3. \A y \in Below(S, R, o[k]) : \E j \in I : g[j] = y
      BY <2>4
    <3> HIDE DEF g, I
    <3> QED BY <3>1, <3>2, <3>3 DEF Bijection, Injection, Surjection, IsInjective
  <2>6. ExistsBijection(I, Below(S, R, o[k]))
    BY <2>5 DEF ExistsBijection
  <2> HIDE DEF I
  <2> QED BY <2>1, <2>6, FS_Bijection DEF Rank
<1>5. ASSUME NEW k \in 1..n
      PROVE  (CHOOSE x \in S : Rank(S, R, x) = k - 1) = o[k]
  <2>1. o[k] \in S /\ Rank(S, R, o[k]) = k - 1
    BY <1>1, <1>4
  <2>2. \A x \in S : Rank(S, R, x) = k - 1 => x = o[k]
    BY <2>1, RankInjective
  <2> QED BY <2>1, <2>2
<1>6. Arranged(ps, S, R) =
        [k \in 1..Cardinality(S) |-> ps[CHOOSE x \in S : Rank(S, R, x) = k - 1]]
  BY DEF Arranged, Rank, Below
<1> QED BY <1>3, <1>5, <1>6
-----------------------------------------------------------------------------
\* The least of a set of natural numbers.
LEMMA LeastOf ==
  ASSUME NEW B \in SUBSET Nat, B # {}
  PROVE  Min(B) \in B /\ \A y \in B : Min(B) <= y
<1>1. PICK m \in B : \A y \in B : ~(<<y, m>> \in OpToRel(<, Nat))
  BY NatLessThanWellFounded, WFMin
<1>2. ASSUME NEW y \in B PROVE m <= y
  <2>1. y \in Nat /\ m \in Nat
    OBVIOUS
  <2>2. ~(y < m)
    BY <1>1, <2>1 DEF OpToRel
  <2> QED BY <2>1, <2>2
<1> QED BY <1>2 DEF Min

(***************************************************************************)
(* Selecting: Selected(ps, S) has the elements of ps at the positions S in *)
(* the order of ps; after i positions it has those at the positions up to  *)
(* i.                                                                      *)
(***************************************************************************)
IsTaking(f, ps, S, m) ==
  f = [i \in 0..m |-> IF i = 0 THEN <<>>
                      ELSE IF i \in S THEN Append(f[i - 1], ps[i]) ELSE f[i - 1]]

\* The recursion is well-founded: each vector follows from the one before.
LEMMA TakingExists ==
  ASSUME NEW ps, NEW S
  PROVE  \A m \in Nat : \E f : IsTaking(f, ps, S, m)
<1> DEFINE Bad == {m \in Nat : ~\E f : IsTaking(f, ps, S, m)}
<1> SUFFICES ASSUME Bad # {} PROVE FALSE
  OBVIOUS
<1>1. Min(Bad) \in Bad /\ \A y \in Bad : Min(Bad) <= y
  <2>1. Bad \in SUBSET Nat
    OBVIOUS
  <2> HIDE DEF Bad
  <2> QED BY <2>1, LeastOf
<1> DEFINE m == Min(Bad)
<1> HIDE DEF m
<1>2. m \in Nat /\ ~\E f : IsTaking(f, ps, S, m)
  BY <1>1 DEF m
<1> DEFINE Taken(f, i) == IF i = 0 THEN <<>>
                          ELSE IF i \in S THEN Append(f[i - 1], ps[i]) ELSE f[i - 1]
<1>3. CASE m = 0
  <2> DEFINE f == [i \in 0..m |-> <<>>]
  <2>1. f = [i \in 0..m |-> Taken(f, i)]
    BY <1>3
  <2> QED BY <1>2, <2>1 DEF IsTaking
<1>4. CASE m # 0
  <2>1. m - 1 \in Nat /\ ~(m <= m - 1)
    BY <1>2, <1>4
  <2>2. m - 1 \notin Bad
    BY <1>1, <2>1 DEF m
  <2>3. PICK g : IsTaking(g, ps, S, m - 1)
    BY <2>1, <2>2
  <2>4. \A i \in 0..(m - 1) : g[i] = Taken(g, i)
    BY <2>3 DEF IsTaking
  <2> HIDE DEF Taken
  <2> DEFINE f == [i \in 0..m |-> IF i = m THEN Taken(g, m) ELSE g[i]]
  <2>5. \A i \in 0..m : f[i] = Taken(f, i)
    <3> SUFFICES ASSUME NEW i \in 0..m PROVE f[i] = Taken(f, i)
      OBVIOUS
    <3>1. i # 0 => i - 1 \in 0..m /\ i - 1 # m /\ f[i - 1] = g[i - 1]
      BY <1>2
    <3>2. Taken(f, i) = Taken(g, i)
      <4> HIDE DEF f
      <4> QED BY <3>1 DEF Taken
    <3>3. CASE i = m
      BY <3>2, <3>3
    <3>4. CASE i # m
      <4>1. i \in 0..(m - 1) /\ f[i] = g[i]
        BY <1>2, <3>4
      <4> QED BY <2>4, <3>2, <4>1
    <3> QED BY <3>3, <3>4
  <2>6. f = [i \in 0..m |-> f[i]]
    OBVIOUS
  <2> HIDE DEF f
  <2>7. f = [i \in 0..m |-> Taken(f, i)]
    BY <2>5, <2>6
  <2>8. IsTaking(f, ps, S, m)
    BY <2>7 DEF IsTaking, Taken
  <2> QED BY <1>2, <2>8
<1> QED BY <1>3, <1>4

\* The elements of ps along the enumeration o of n positions.
Along(ps, o, n) == [k \in 1..n |-> ps[o[k]]]

\* v consists of the elements of ps at the positions S up to i.
SelectedUpTo(v, ps, S, R, i) ==
  \E n, o : n \in Nat /\ Enumerates(o, n, S \cap 1..i, R) /\ v = Along(ps, o, n)

\* One more position, the largest so far, comes last.
LEMMA SelectNext ==
  ASSUME NEW S \in SUBSET Nat, NEW R, \A x, y \in S : <<x, y>> \in R <=> x < y,
         NEW i \in S, i # 0, NEW ps, NEW v, SelectedUpTo(v, ps, S, R, i - 1)
  PROVE  SelectedUpTo(Append(v, ps[i]), ps, S, R, i)
<1> PICK n, o : /\ n \in Nat
                /\ Enumerates(o, n, S \cap 1..(i - 1), R) /\ v = Along(ps, o, n)
  BY DEF SelectedUpTo
<1> DEFINE u == [k \in 1..(n + 1) |-> IF k = n + 1 THEN i ELSE o[k]]
<1>1. /\ o \in [1..n -> S \cap 1..(i - 1)]
      /\ \A x \in S \cap 1..(i - 1) : \E k \in 1..n : o[k] = x
      /\ \A j, k \in 1..n : j < k => o[j] < o[k]
  BY DEF Enumerates
<1>2. \A k \in 1..n : o[k] \in S \cap 1..i /\ o[k] < i /\ u[k] = o[k]
  BY <1>1
<1>3. u[n + 1] = i /\ n + 1 \in 1..(n + 1) /\ i \in 1..i
  OBVIOUS
<1>4. u \in [1..(n + 1) -> S \cap 1..i]
  <2>1. ASSUME NEW k \in 1..(n + 1) PROVE u[k] \in S \cap 1..i
    <3>1. CASE k = n + 1
      BY <1>3, <3>1
    <3>2. CASE k # n + 1
      <4>1. k \in 1..n
        BY <3>2
      <4> QED BY <1>2, <4>1
    <3> QED BY <3>1, <3>2
  <2>2. u = [k \in 1..(n + 1) |-> u[k]]
    OBVIOUS
  <2> HIDE DEF u
  <2> QED BY <2>1, <2>2
<1>5. ASSUME NEW x \in S \cap 1..i PROVE \E k \in 1..(n + 1) : u[k] = x
  <2>1. CASE x = i
    BY <1>3, <2>1
  <2>2. CASE x # i
    <3>1. x \in S \cap 1..(i - 1)
      BY <2>2
    <3> QED BY <1>1, <1>2, <3>1
  <2> QED BY <2>1, <2>2
<1>6. ASSUME NEW j \in 1..(n + 1), NEW k \in 1..(n + 1), j < k PROVE <<u[j], u[k]>> \in R
  <2>1. j \in 1..n /\ u[j] = o[j] /\ u[j] \in S
    <3>1. j \in 1..n
      BY <1>6
    <3> QED BY <1>2, <3>1
  <2>2. u[j] < u[k] /\ u[k] \in S
    <3>1. CASE k = n + 1
      BY <1>2, <1>3, <2>1, <3>1
    <3>2. CASE k # n + 1
      <4>1. k \in 1..n
        BY <3>2
      <4> QED BY <1>1, <1>2, <1>6, <2>1, <4>1
    <3> QED BY <3>1, <3>2
  <2> QED BY <2>1, <2>2
<1>7. Append(v, ps[i]) = Along(ps, u, n + 1)
  <2> DEFINE q == [k \in 1..n |-> ps[o[k]]]
             w == [k \in 1..(n + 1) |-> ps[u[k]]]
  <2>1. q \in Seq({ps[o[k]] : k \in 1..n}) /\ Len(q) = n
    OBVIOUS
  <2>2. \A k \in 1..n : q[k] = ps[o[k]]
    OBVIOUS
  <2>3. \A k \in 1..(n + 1) : w[k] = IF k = n + 1 THEN ps[i] ELSE ps[o[k]]
    OBVIOUS
  <2>4. w = [k \in 1..(n + 1) |-> w[k]]
    OBVIOUS
  <2>5. Append(q, ps[i]) = [k \in 1..(n + 1) |-> IF k = n + 1 THEN ps[i] ELSE q[k]]
    <3> HIDE DEF q
    <3> QED BY <2>1, SMT
  <2>6. \A k \in 1..(n + 1) : k # n + 1 => k \in 1..n
    OBVIOUS
  <2> HIDE DEF q, w
  <2>7. Append(q, ps[i]) = w
    BY <2>2, <2>3, <2>4, <2>5, <2>6
  <2> QED BY <2>7 DEF q, w, Along
<1> HIDE DEF u
<1>8. Enumerates(u, n + 1, S \cap 1..i, R)
  BY <1>4, <1>5, <1>6 DEF Enumerates
<1>9. n + 1 \in Nat
  OBVIOUS
<1> HIDE DEF u
<1> QED BY <1>7, <1>8, <1>9 DEF SelectedUpTo

(***************************************************************************)
(* Selected(ps, S) is ps along an enumeration of S in the order <.         *)
(***************************************************************************)
LEMMA SelectedInOrder ==
  ASSUME NEW X, NEW ps \in Seq(X), NEW S \in SUBSET (DOMAIN ps)
  PROVE  \E n, o : /\ n \in Nat
                   /\ Enumerates(o, n, S, {e \in S \X S : e[1] < e[2]})
                   /\ Selected(ps, S) = Along(ps, o, n)
<1> DEFINE R == {e \in S \X S : e[1] < e[2]}
           f == CHOOSE g : IsTaking(g, ps, S, Len(ps))
           Good(i) == SelectedUpTo(f[i], ps, S, R, i)
           Bad == {i \in 0..Len(ps) : ~Good(i)}
<1>1. Len(ps) \in Nat /\ DOMAIN ps = 1..Len(ps) /\ S \in SUBSET Nat /\ 0 \notin S
  OBVIOUS
<1>2. Selected(ps, S) = f[Len(ps)]
  BY DEF Selected, IsTaking
<1>3. IsTaking(f, ps, S, Len(ps))
  BY <1>1, TakingExists
<1>4. \A i \in 0..Len(ps) :
        f[i] = IF i = 0 THEN <<>>
               ELSE IF i \in S THEN Append(f[i - 1], ps[i]) ELSE f[i - 1]
  <2> HIDE DEF f
  <2> QED BY <1>3 DEF IsTaking
<1> HIDE DEF f
<1>5. Good(0)
  <2> DEFINE o == [k \in 1..0 |-> 0]
  <2>1. S \cap 1..0 = {} /\ 0 \in 0..Len(ps)
    BY <1>1
  <2>2. Enumerates(o, 0, S \cap 1..0, R)
    BY <2>1 DEF Enumerates
  <2>3. f[0] = Along(ps, o, 0)
    BY <1>4, <2>1 DEF Along
  <2> HIDE DEF o, R
  <2> QED BY <2>2, <2>3 DEF SelectedUpTo
<1>6. ASSUME NEW i \in 1..Len(ps), Good(i - 1) PROVE Good(i)
  <2>1. i \in 0..Len(ps) /\ i # 0
    BY <1>1
  <2>2. CASE i \in S
    <3>1. f[i] = Append(f[i - 1], ps[i])
      BY <1>4, <2>1, <2>2
    <3>2. \A x, y \in S : <<x, y>> \in R <=> x < y
      OBVIOUS
    <3> HIDE DEF R
    <3> QED BY <1>1, <1>6, <2>1, <2>2, <3>1, <3>2, SelectNext
  <2>3. CASE i \notin S
    <3>1. f[i] = f[i - 1]
      BY <1>4, <2>1, <2>3
    <3>2. S \cap 1..i = S \cap 1..(i - 1)
      BY <1>1, <2>3
    <3> HIDE DEF R
    <3> QED BY <1>6, <3>1, <3>2 DEF SelectedUpTo
  <2> QED BY <2>2, <2>3
<1>7. Good(Len(ps))
  <2> HIDE DEF Good
  <2> SUFFICES ASSUME ~Good(Len(ps)) PROVE FALSE
    OBVIOUS
  <2>1. Bad \in SUBSET Nat /\ Bad # {}
    BY <1>1
  <2>2. Min(Bad) \in Bad /\ \A y \in Bad : Min(Bad) <= y
    <3> HIDE DEF Bad
    <3> QED BY <2>1, LeastOf
  <2> DEFINE i == Min(Bad)
  <2> HIDE DEF i
  <2>3. i \in 0..Len(ps) /\ ~Good(i)
    BY <2>2 DEF i
  <2>4. i \in 1..Len(ps) /\ i - 1 \in 0..Len(ps) /\ ~(i <= i - 1)
    BY <1>1, <1>5, <2>3
  <2>5. i - 1 \notin Bad
    BY <2>2, <2>4 DEF i
  <2>6. Good(i - 1)
    BY <2>4, <2>5
  <2> QED BY <1>6, <2>3, <2>4, <2>6
<1>8. S \cap 1..Len(ps) = S
  BY <1>1
<1> HIDE DEF R
<1> QED BY <1>2, <1>7, <1>8 DEF R, SelectedUpTo

(***************************************************************************)
(* Sequences without repetition: what retain() and a move to the end make  *)
(* of the elements and of their order.                                     *)
(***************************************************************************)

\* a comes before b in s.
Before(s, a, b) == \E i, j \in DOMAIN s : i < j /\ s[i] = a /\ s[j] = b

\* The positions of a sequence are strictly ordered by <.
LEMMA PositionOrder ==
  ASSUME NEW n \in Nat, NEW S \in SUBSET (1..n)
  PROVE  /\ IsFiniteSet(S)
         /\ StrictOrder(S, {e \in S \X S : e[1] < e[2]})
<1>1. IsFiniteSet(1..n)
  BY FS_Interval, SMT
<1>2. IsFiniteSet(S)
  BY <1>1, FS_Subset
<1>3. S \in SUBSET Int
  OBVIOUS
<1>4. StrictOrder(S, {e \in S \X S : e[1] < e[2]})
  <2> DEFINE R == {e \in S \X S : e[1] < e[2]}
  <2>1. \A x, y \in S : <<x, y>> \in R <=> x < y
    OBVIOUS
  <2> HIDE DEF R
  <2> QED BY <1>3, <2>1 DEF StrictOrder
<1> QED BY <1>2, <1>4

\* Selecting is arranging by position.
LEMMA SelectedIsArranged ==
  ASSUME NEW X, NEW ps \in Seq(X), NEW S \in SUBSET (DOMAIN ps)
  PROVE  Selected(ps, S) = Arranged(ps, S, {e \in S \X S : e[1] < e[2]})
<1> DEFINE R == {e \in S \X S : e[1] < e[2]}
<1>1. Len(ps) \in Nat /\ S \in SUBSET (1..Len(ps))
  OBVIOUS
<1>2. IsFiniteSet(S) /\ StrictOrder(S, R)
  BY <1>1, PositionOrder
<1>3. PICK n, o : /\ n \in Nat
                  /\ Enumerates(o, n, S, R)
                  /\ Selected(ps, S) = Along(ps, o, n)
  BY SelectedInOrder
<1> HIDE DEF R
<1>4. Arranged(ps, S, R) = [k \in 1..n |-> ps[o[k]]]
  BY <1>2, <1>3, EnumerationUnique
<1> QED BY <1>3, <1>4 DEF R, Along

\* retain() keeps exactly the elements it is asked to, in their order.
LEMMA RetainKeeps ==
  ASSUME NEW X, NEW ps \in Seq(X), IsInjective(ps), NEW T
  PROVE  /\ retain(ps, T) \in Seq(X)
         /\ IsInjective(retain(ps, T))
         /\ ToSet(retain(ps, T)) = ToSet(ps) \cap T
         /\ \A a, b : Before(retain(ps, T), a, b) <=>
                        Before(ps, a, b) /\ a \in T /\ b \in T
<1> DEFINE S == {x \in DOMAIN ps : ps[x] \in T}
           R == {e \in S \X S : e[1] < e[2]}
           n == Cardinality(S)
<1>1. Len(ps) \in Nat /\ DOMAIN ps = 1..Len(ps) /\ \A i \in DOMAIN ps : ps[i] \in X
  OBVIOUS
<1>2. IsFiniteSet(S) /\ StrictOrder(S, R)
  <2>1. S \in SUBSET (1..Len(ps))
    BY <1>1
  <2> HIDE DEF S
  <2> QED BY <1>1, <2>1, PositionOrder
<1>3. n \in Nat
  BY <1>2, FS_CardinalityType
<1>4. retain(ps, T) = Arranged(ps, S, R)
  BY SelectedIsArranged DEF retain
<1>5. PICK o : /\ Enumerates(o, n, S, R)
               /\ Arranged(ps, S, R) = [k \in 1..n |-> ps[o[k]]]
  <2> HIDE DEF S, R
  <2> QED BY <1>2, ArrangedInOrder
<1> DEFINE q == [k \in 1..n |-> ps[o[k]]]
<1>6. /\ o \in [1..n -> S]
      /\ \A x \in S : \E k \in 1..n : o[k] = x
      /\ \A j, k \in 1..n : j < k => o[j] < o[k]
  BY <1>5 DEF Enumerates
<1>7. \A k \in 1..n : o[k] \in DOMAIN ps /\ ps[o[k]] \in T
  BY <1>6
<1> HIDE DEF n
<1>8. q \in Seq(X)
  BY <1>1, <1>3, <1>7
<1>9. DOMAIN q = 1..n /\ \A k \in 1..n : q[k] = ps[o[k]]
  OBVIOUS
<1> HIDE DEF q
<1>10. IsInjective(q)
  <2> SUFFICES ASSUME NEW j \in 1..n, NEW k \in 1..n, q[j] = q[k] PROVE j = k
    BY <1>9 DEF IsInjective
  <2>1. o[j] = o[k]
    BY <1>7, <1>9 DEF IsInjective
  <2>2. o[j] \in Int /\ o[k] \in Int
    BY <1>1, <1>7
  <2>3. ~(j < k) /\ ~(k < j)
    BY <1>6, <2>1, <2>2
  <2> QED BY <1>3, <2>3
<1>11. ToSet(q) = ToSet(ps) \cap T
  <2>1. ASSUME NEW a \in ToSet(q) PROVE a \in ToSet(ps) \cap T
    BY <1>7, <1>9 DEF ToSet
  <2>2. ASSUME NEW a \in ToSet(ps) \cap T PROVE a \in ToSet(q)
    <3>1. PICK x \in DOMAIN ps : ps[x] = a
      BY DEF ToSet
    <3>2. PICK k \in 1..n : o[k] = x
      BY <1>6, <3>1
    <3> QED BY <1>9, <3>1, <3>2 DEF ToSet
  <2> QED BY <2>1, <2>2
<1>12. ASSUME NEW a, NEW b, Before(q, a, b)
       PROVE  Before(ps, a, b) /\ a \in T /\ b \in T
  <2>1. PICK j \in 1..n, k \in 1..n : j < k /\ q[j] = a /\ q[k] = b
    BY <1>9, <1>12 DEF Before
  <2> QED BY <1>6, <1>7, <1>9, <2>1 DEF Before
<1>13. ASSUME NEW a \in T, NEW b \in T, Before(ps, a, b) PROVE Before(q, a, b)
  <2>1. PICK x \in S, y \in S : x < y /\ ps[x] = a /\ ps[y] = b
    BY <1>13 DEF Before
  <2>2. PICK j \in 1..n, k \in 1..n : o[j] = x /\ o[k] = y
    BY <1>6
  <2>3. x \in Int /\ y \in Int
    BY <1>1
  <2>4. ~(k < j) /\ j # k
    BY <1>6, <2>1, <2>2, <2>3
  <2>5. j < k
    BY <1>3, <2>4
  <2> QED BY <1>9, <2>1, <2>2, <2>5 DEF Before
<1> QED BY <1>4, <1>5, <1>8, <1>10, <1>11, <1>12, <1>13 DEF q

\* Removing an element of a sequence without repetition closes the gap.
LEMMA Removed ==
  ASSUME NEW X, NEW s \in Seq(X), IsInjective(s), NEW i \in 1..Len(s)
  PROVE  LET r == RemoveFirst(s, s[i])
         IN  /\ r \in Seq(X) /\ Len(r) = Len(s) - 1
             /\ \A j \in 1..(Len(s) - 1) : r[j] = IF j < i THEN s[j] ELSE s[j + 1]
<1> DEFINE n == Len(s)
           u == SubSeq(s, 1, i - 1)
           v == SubSeq(s, i + 1, n)
<1>1. n \in Nat /\ DOMAIN s = 1..n /\ \A j \in 1..n : s[j] \in X
  OBVIOUS
<1>2. RemoveFirst(s, s[i]) = u \o v
  <2>1. {j \in 1..n : s[j] = s[i]} = {i}
    BY <1>1 DEF IsInjective
  <2>2. Min({i}) = i
    BY DEF Min
  <2>3. SelectInSeq(s, LAMBDA e : e = s[i]) = Min({j \in 1..n : s[j] = s[i]})
    BY <2>1 DEF SelectInSeq
  <2> QED BY <2>1, <2>2, <2>3 DEF RemoveFirst, RemoveAt
<1>3. /\ u \in Seq(X) /\ Len(u) = i - 1
      /\ \A j \in 1..(i - 1) : u[j] = s[j]
  BY <1>1
<1>4. /\ v \in Seq(X) /\ Len(v) = n - i
      /\ \A j \in 1..(n - i) : v[j] = s[i + j]
  <2>1. \A j \in (i + 1)..n : s[j] \in X
    BY <1>1
  <2>2. /\ v \in Seq(X)
        /\ Len(v) = IF i + 1 <= n THEN n - (i + 1) + 1 ELSE 0
        /\ \A j \in 1..(n - (i + 1) + 1) : v[j] = s[(i + 1) + j - 1]
    <3> HIDE DEF n
    <3> QED BY <1>1, <2>1, SubSeqProperties
  <2>3. i \in 1..n
    OBVIOUS
  <2> HIDE DEF n, v
  <2>4. /\ n - (i + 1) + 1 = n - i
        /\ ~(i + 1 <= n) => n - i = 0
        /\ \A j \in 1..(n - i) : (i + 1) + j - 1 = i + j
    BY <1>1, <2>3
  <2> QED BY <2>2, <2>4
<1> HIDE DEF u, v
<1>5. u \o v \in Seq(X) /\ Len(u \o v) = n - 1
  <2>1. u \o v \in Seq(X) /\ Len(u \o v) = Len(u) + Len(v)
    BY <1>3, <1>4, ConcatProperties
  <2> QED BY <1>1, <1>3, <1>4, <2>1
<1>6. \A j \in 1..(n - 1) : (u \o v)[j] = IF j < i THEN s[j] ELSE s[j + 1]
  <2> SUFFICES ASSUME NEW j \in 1..(n - 1)
               PROVE  (u \o v)[j] = IF j < i THEN s[j] ELSE s[j + 1]
    OBVIOUS
  <2>1. CASE j < i
    <3>1. j \in 1..(i - 1) /\ (u \o v)[j] = u[j]
      BY <1>1, <1>3, <1>4, <2>1
    <3> QED BY <1>3, <2>1, <3>1
  <2>2. CASE ~(j < i)
    <3> DEFINE h == j - (i - 1)
    <3>1. h \in 1..(n - i) /\ i + h = j + 1
      BY <1>1, <2>2
    <3>2. (u \o v)[j] = v[h]
      BY <1>1, <1>3, <1>4, <2>2, ConcatProperties
    <3> QED BY <1>4, <2>2, <3>1, <3>2
  <2> QED BY <2>1, <2>2
<1> QED BY <1>2, <1>5, <1>6

\* For a sequence without repetition, RemoveFirst() retains all other elements.
LEMMA RemovedIsRetained ==
  ASSUME NEW X, NEW s \in Seq(X), IsInjective(s), NEW p
  PROVE  RemoveFirst(s, p) = retain(s, ToSet(s) \ {p})
<1> DEFINE n == Len(s)
           S == {x \in DOMAIN s : s[x] \in ToSet(s) \ {p}}
           R == {e \in S \X S : e[1] < e[2]}
<1>1. n \in Nat /\ DOMAIN s = 1..n /\ s = [k \in 1..n |-> s[k]]
  OBVIOUS
<1>2. S = {x \in 1..n : s[x] # p}
  BY <1>1 DEF ToSet
<1>3. IsFiniteSet(S) /\ StrictOrder(S, R)
  <2>1. S \in SUBSET (1..n)
    BY <1>1
  <2> HIDE DEF S
  <2> QED BY <1>1, <2>1, PositionOrder
<1>4. retain(s, ToSet(s) \ {p}) = Arranged(s, S, R)
  BY SelectedIsArranged DEF retain
<1>5. CASE \A x \in 1..n : s[x] # p
  <2> DEFINE o == [k \in 1..n |-> k]
  <2>1. S = 1..n
    BY <1>2, <1>5
  <2>2. Enumerates(o, n, S, R)
    BY <1>1, <2>1 DEF Enumerates
  <2>3. Arranged(s, S, R) = [k \in 1..n |-> s[o[k]]]
    <3>1. n \in Nat
      BY <1>1
    <3> HIDE DEF S, R, o, n
    <3> QED BY <1>3, <2>2, <3>1, EnumerationUnique
  <2>4. RemoveFirst(s, p) = s
    BY <1>5 DEF RemoveFirst
  <2> QED BY <1>1, <1>4, <2>3, <2>4
<1>6. CASE \E x \in 1..n : s[x] = p
  <2>1. PICK i \in 1..n : s[i] = p
    BY <1>6
  <2> DEFINE r == RemoveFirst(s, p)
             o == [k \in 1..(n - 1) |-> IF k < i THEN k ELSE k + 1]
  <2>2. /\ r \in Seq(X) /\ Len(r) = n - 1
        /\ \A j \in 1..(n - 1) : r[j] = IF j < i THEN s[j] ELSE s[j + 1]
    BY <2>1, Removed
  <2>3. S = (1..n) \ {i}
    BY <1>1, <1>2, <2>1 DEF IsInjective
  <2>4. n - 1 \in Nat
    BY <1>1
  <2>5. Enumerates(o, n - 1, S, R)
    <3> HIDE DEF n, S
    <3>1. o \in [1..(n - 1) -> S]
      BY <1>1, <2>3
    <3>2. ASSUME NEW x \in S PROVE \E k \in 1..(n - 1) : o[k] = x
      <4>1. CASE x < i
        <5>1. x \in 1..(n - 1) /\ o[x] = x
          BY <1>1, <2>3, <4>1
        <5> QED BY <5>1
      <4>2. CASE ~(x < i)
        <5>1. x - 1 \in 1..(n - 1) /\ o[x - 1] = x
          BY <1>1, <2>3, <4>2
        <5> QED BY <5>1
      <4> QED BY <4>1, <4>2
    <3>3. \A j, k \in 1..(n - 1) : j < k => o[j] < o[k]
      BY <1>1
    <3>4. \A j, k \in 1..(n - 1) : j < k => <<o[j], o[k]>> \in R
      BY <3>1, <3>3
    <3> HIDE DEF o, R
    <3> QED BY <3>1, <3>2, <3>4 DEF Enumerates
  <2>6. Arranged(s, S, R) = [k \in 1..(n - 1) |-> s[o[k]]]
    <3> HIDE DEF S, R, o, n
    <3> QED BY <1>3, <2>4, <2>5, EnumerationUnique
  <2>7. r = [k \in 1..(n - 1) |-> s[o[k]]]
    <3>1. r = [k \in 1..(n - 1) |-> r[k]]
      BY <2>2
    <3> HIDE DEF r, n
    <3> QED BY <2>2, <3>1
  <2> QED BY <1>4, <2>6, <2>7
<1> QED BY <1>5, <1>6

\* A move to the end, or an insertion there: p comes after all others.
LEMMA MovedToEnd ==
  ASSUME NEW X, NEW s \in Seq(X), IsInjective(s), NEW p \in X
  PROVE  LET q == Append(RemoveFirst(s, p), p)
         IN  /\ q \in Seq(X) /\ IsInjective(q)
             /\ ToSet(q) = ToSet(s) \cup {p}
             /\ \A a, b : Before(q, a, b) <=>
                  a # p /\ IF b = p THEN a \in ToSet(s) ELSE Before(s, a, b)
<1> DEFINE r == RemoveFirst(s, p)
           q == Append(r, p)
           n == Len(r)
<1>1. /\ r \in Seq(X) /\ IsInjective(r)
      /\ ToSet(r) = ToSet(s) \ {p}
      /\ \A a, b : Before(r, a, b) <=>
           Before(s, a, b) /\ a \in ToSet(s) \ {p} /\ b \in ToSet(s) \ {p}
  <2> DEFINE T == ToSet(s) \ {p}
  <2>1. r = retain(s, T)
    BY RemovedIsRetained
  <2>2. ToSet(s) \cap T = T
    OBVIOUS
  <2> HIDE DEF T
  <2>3. /\ retain(s, T) \in Seq(X) /\ IsInjective(retain(s, T))
        /\ ToSet(retain(s, T)) = ToSet(s) \cap T
        /\ \A a, b : Before(retain(s, T), a, b) <=>
             Before(s, a, b) /\ a \in T /\ b \in T
    BY RetainKeeps
  <2> HIDE DEF r
  <2> QED BY <2>1, <2>2, <2>3 DEF T
<1>2. \A a, b : Before(s, a, b) => a \in ToSet(s) /\ b \in ToSet(s)
  BY DEF Before, ToSet
<1> HIDE DEF r
<1>3. /\ n \in Nat /\ DOMAIN r = 1..n /\ DOMAIN q = 1..(n + 1)
      /\ q \in Seq(X)
      /\ q[n + 1] = p /\ \A i \in 1..n : q[i] = r[i]
  BY <1>1
<1>4. \A i \in 1..n : r[i] # p /\ r[i] \in ToSet(r)
  BY <1>1, <1>3 DEF ToSet
<1> HIDE DEF q, n
<1>5. \A i \in 1..(n + 1) : i = n + 1 \/ i \in 1..n
  BY <1>3
<1>6. IsInjective(q)
  BY <1>1, <1>3, <1>4, <1>5 DEF IsInjective
<1>7. ToSet(q) = ToSet(r) \cup {p}
  <2>1. \A i \in 1..n : i \in 1..(n + 1)
    BY <1>3
  <2>2. n + 1 \in 1..(n + 1)
    BY <1>3
  <2> QED BY <1>3, <1>5, <2>1, <2>2 DEF ToSet
<1>8. ASSUME NEW a, NEW b, Before(q, a, b)
      PROVE  a # p /\ IF b = p THEN a \in ToSet(s) ELSE Before(s, a, b)
  <2>1. PICK i \in 1..(n + 1), j \in 1..(n + 1) : i < j /\ q[i] = a /\ q[j] = b
    BY <1>3, <1>8 DEF Before
  <2>2. i \in 1..n
    BY <1>3, <2>1
  <2>3. a = r[i] /\ a # p /\ a \in ToSet(s)
    BY <1>1, <1>3, <1>4, <2>1, <2>2
  <2>4. CASE j \in 1..n
    <3>1. Before(r, a, b)
      BY <1>3, <2>1, <2>2, <2>4 DEF Before
    <3> QED BY <1>1, <2>3, <3>1
  <2>5. CASE j = n + 1
    BY <1>3, <2>1, <2>3, <2>5
  <2> QED BY <1>5, <2>4, <2>5
<1>9. ASSUME NEW a, NEW b, a # p, IF b = p THEN a \in ToSet(s) ELSE Before(s, a, b)
      PROVE  Before(q, a, b)
  <2>1. CASE b = p
    <3>1. PICK i \in 1..n : r[i] = a
      BY <1>1, <1>3, <1>9, <2>1 DEF ToSet
    <3>2. i \in 1..(n + 1) /\ n + 1 \in 1..(n + 1) /\ i < n + 1
      BY <1>3
    <3> QED BY <1>3, <2>1, <3>1, <3>2 DEF Before
  <2>2. CASE b # p
    <3>1. Before(r, a, b)
      BY <1>1, <1>2, <1>9, <2>2
    <3>2. PICK i \in 1..n, j \in 1..n : i < j /\ r[i] = a /\ r[j] = b
      BY <1>3, <3>1 DEF Before
    <3>3. i \in 1..(n + 1) /\ j \in 1..(n + 1)
      BY <1>3
    <3> QED BY <1>3, <3>2, <3>3 DEF Before
  <2> QED BY <2>1, <2>2
<1>10. ToSet(q) = ToSet(s) \cup {p}
  BY <1>1, <1>7
<1> QED BY <1>3, <1>6, <1>8, <1>9, <1>10 DEF q, r

(***************************************************************************)
(* A sequence whose elements appear in cs in the same order is what        *)
(* retain() leaves of cs.                                                  *)
(***************************************************************************)
LEMMA OrderedIsRetained ==
  ASSUME NEW X, NEW ps \in Seq(X), NEW cs \in Seq(X), IsInjective(ps), IsInjective(cs),
         ToSet(ps) \subseteq ToSet(cs),
         \A a, b : Before(ps, a, b) => Before(cs, a, b)
  PROVE  ps = retain(cs, ToSet(ps))
<1> DEFINE n == Len(ps)
           S == {x \in DOMAIN cs : cs[x] \in ToSet(ps)}
           R == {e \in S \X S : e[1] < e[2]}
           o == [k \in 1..n |-> CHOOSE x \in DOMAIN cs : cs[x] = ps[k]]
<1>1. /\ n \in Nat /\ DOMAIN ps = 1..n /\ ps = [k \in 1..n |-> ps[k]]
      /\ Len(cs) \in Nat /\ DOMAIN cs = 1..Len(cs)
  OBVIOUS
<1>2. IsFiniteSet(S) /\ StrictOrder(S, R)
  <2>1. S \in SUBSET (1..Len(cs))
    BY <1>1
  <2> HIDE DEF S
  <2> QED BY <1>1, <2>1, PositionOrder
<1>3. \A k \in 1..n : ps[k] \in ToSet(ps) /\ \E x \in DOMAIN cs : cs[x] = ps[k]
  BY <1>1 DEF ToSet
<1>4. \A k \in 1..n : o[k] \in DOMAIN cs /\ cs[o[k]] = ps[k]
  BY <1>3
<1>5. Enumerates(o, n, S, R)
  <2>1. o \in [1..n -> S]
    BY <1>3, <1>4
  <2> HIDE DEF o
  <2>2. ASSUME NEW x \in S PROVE \E k \in 1..n : o[k] = x
    <3>1. PICK k \in 1..n : ps[k] = cs[x]
      BY <1>1 DEF ToSet
    <3>2. o[k] = x
      BY <1>4, <3>1 DEF IsInjective
    <3> QED BY <3>2
  <2>3. ASSUME NEW j \in 1..n, NEW k \in 1..n, j < k PROVE <<o[j], o[k]>> \in R
    <3>1. Before(ps, ps[j], ps[k])
      BY <1>1, <2>3 DEF Before
    <3>2. PICK x \in DOMAIN cs, y \in DOMAIN cs : x < y /\ cs[x] = ps[j] /\ cs[y] = ps[k]
      BY <3>1 DEF Before
    <3>3. o[j] = x /\ o[k] = y
      BY <1>4, <3>2 DEF IsInjective
    <3>4. o[j] \in S /\ o[k] \in S
      BY <2>1
    <3> QED BY <3>2, <3>3, <3>4
  <2> HIDE DEF S, R, n
  <2> QED BY <2>1, <2>2, <2>3 DEF Enumerates
<1>6. Arranged(cs, S, R) = [k \in 1..n |-> cs[o[k]]]
  <2> HIDE DEF S, R, o, n
  <2> QED BY <1>1, <1>2, <1>5, EnumerationUnique
<1>7. retain(cs, ToSet(ps)) = Arranged(cs, S, R)
  BY SelectedIsArranged DEF retain
<1> HIDE DEF o, S, R
<1> QED BY <1>1, <1>4, <1>6, <1>7
-----------------------------------------------------------------------------
(***************************************************************************)
(* Tables: sequences of buckets in which every peer is in its place.       *)
(***************************************************************************)
T == INSTANCE KBucketsProofs WITH known <- Known, depth <- Len(buckets)

PlacedIn(bs) ==
  \A x \in DOMAIN bs :
    /\ bs[x].index = x - 1
    /\ IsInjective(bs[x].peers)
    /\ \A p \in ToSet(bs[x].peers) : BucketIndex(bs, p.id) = x - 1

Table(bs) ==
  /\ bs \in Seq([index : Nat, peers : Seq(Peers)]) /\ bs # <<>>
  /\ PlacedIn(bs)

KnownIn(bs) == UNION {ToSet(bs[x].peers) : x \in DOMAIN bs}

\* The known peers whose prefix has at least the length c.
DeepIn(bs, c) == {q \in KnownIn(bs) : Cpl(q.id) >= c}

\* Every bucket is in the order of cs.
Ordered(bs, cs) ==
  \A x \in DOMAIN bs : /\ ToSet(bs[x].peers) \subseteq ToSet(cs)
                       /\ \A a, b : Before(bs[x].peers, a, b) => Before(cs, a, b)

\* An identifier shares between 0 and W bits with the local one.
LEMMA PrefixRange == ASSUME NEW id \in Id PROVE Cpl(id) \in 0..W
<1>1. Local.id \in T!Id /\ id \in T!Id
  BY PeersAssumption DEF Id, T!Id
<1>2. T!common_prefix_length(Local.id, id) \in 0..W
  BY <1>1, WAssumption, KAssumption, PeersAssumption, T!CplType DEF Id, T!Id
<1> QED BY <1>2 DEF Cpl, common_prefix_length, LeadingZeros, Distance, Cardinality,
           T!common_prefix_length, T!LeadingZeros, T!Distance, T!Cardinality

LEMMA PrefixType == ASSUME NEW p \in Peers PROVE p.id \in Id /\ Cpl(p.id) \in 0..W
BY PeersAssumption, PrefixRange

\* The bucket for a peer is the ideal one, or the last.
LEMMA IndexCases ==
  ASSUME NEW bs, Len(bs) \in Nat \ {0}, NEW id, Cpl(id) \in Nat
  PROVE  BucketIndex(bs, id) = IF Cpl(id) < Len(bs) - 1 THEN Cpl(id) ELSE Len(bs) - 1
<1> DEFINE c == Cpl(id)
           d == Len(bs) - 1
<1>1. c \in Nat /\ d \in Nat
  OBVIOUS
<1> HIDE DEF c, d
<1>2. Min({c, d}) \in {c, d} /\ \A y \in {c, d} : Min({c, d}) <= y
  BY <1>1, LeastOf
<1>3. Min({c, d}) = IF c < d THEN c ELSE d
  BY <1>1, <1>2
<1> QED BY <1>3 DEF BucketIndex, c, d

\* A sequence without repetition has as many elements as positions.
LEMMA CountedSequence ==
  ASSUME NEW X, NEW s \in Seq(X), IsInjective(s)
  PROVE  IsFiniteSet(ToSet(s)) /\ Cardinality(ToSet(s)) = Len(s)
<1> DEFINE n == Len(s)
<1>1. n \in Nat /\ DOMAIN s = 1..n /\ s = [k \in 1..n |-> s[k]]
  OBVIOUS
<1>2. s \in Bijection(1..n, ToSet(s))
  <2>1. s \in [1..n -> ToSet(s)]
    BY <1>1 DEF ToSet
  <2> QED BY <1>1, <2>1 DEF ToSet, Bijection, Injection, Surjection, IsInjective
<1>3. IsFiniteSet(1..n) /\ Cardinality(1..n) = n
  <2>1. n \in Nat
    BY <1>1
  <2> HIDE DEF n
  <2> QED BY <2>1, FS_Interval, SMT
<1>4. ExistsBijection(1..n, ToSet(s))
  BY <1>2 DEF ExistsBijection
<1> HIDE DEF n
<1> QED BY <1>3, <1>4, FS_Bijection DEF n

\* What is in a bucket of a table.
LEMMA TableBucket ==
  ASSUME NEW bs, Table(bs), NEW x \in DOMAIN bs
  PROVE  /\ bs[x] \in [index : Nat, peers : Seq(Peers)]
         /\ IsFiniteSet(ToSet(bs[x].peers))
         /\ Cardinality(ToSet(bs[x].peers)) = Len(bs[x].peers)
         /\ ToSet(bs[x].peers) \subseteq Peers
         /\ \A q \in ToSet(bs[x].peers) :
              IF x < Len(bs) THEN Cpl(q.id) = x - 1 ELSE Cpl(q.id) >= x - 1
         /\ ToSet(bs[x].peers) = {q \in KnownIn(bs) : BucketIndex(bs, q.id) = x - 1}
<1>1. /\ Len(bs) \in Nat \ {0} /\ DOMAIN bs = 1..Len(bs)
      /\ bs[x] \in [index : Nat, peers : Seq(Peers)]
  <2> DEFINE B == [index : Nat, peers : Seq(Peers)]
  <2>1. bs \in Seq(B) /\ bs # <<>>
    BY DEF Table
  <2> HIDE DEF B
  <2>2. Len(bs) \in Nat \ {0} /\ DOMAIN bs = 1..Len(bs) /\ bs[x] \in B
    BY <2>1, EmptySeq
  <2> QED BY <2>2 DEF B
<1>2. bs[x].peers \in Seq(Peers) /\ IsInjective(bs[x].peers)
  BY <1>1 DEF Table, PlacedIn
<1>3. /\ IsFiniteSet(ToSet(bs[x].peers))
      /\ Cardinality(ToSet(bs[x].peers)) = Len(bs[x].peers)
  BY <1>2, CountedSequence
<1>4. ToSet(bs[x].peers) \subseteq Peers
  BY <1>2 DEF ToSet
<1>5. ASSUME NEW q \in ToSet(bs[x].peers)
      PROVE  IF x < Len(bs) THEN Cpl(q.id) = x - 1 ELSE Cpl(q.id) >= x - 1
  <2>1. Cpl(q.id) \in Nat
    BY <1>4, PrefixType, WAssumption
  <2>2. BucketIndex(bs, q.id) = x - 1
    BY DEF Table, PlacedIn
  <2> QED BY <1>1, <2>1, <2>2, IndexCases
<1>6. ToSet(bs[x].peers) = {q \in KnownIn(bs) : BucketIndex(bs, q.id) = x - 1}
  <2>1. ASSUME NEW q \in KnownIn(bs), BucketIndex(bs, q.id) = x - 1
        PROVE  q \in ToSet(bs[x].peers)
    <3>1. PICK y \in DOMAIN bs : q \in ToSet(bs[y].peers)
      BY DEF KnownIn
    <3>2. BucketIndex(bs, q.id) = y - 1
      BY <3>1 DEF Table, PlacedIn
    <3>3. y = x
      BY <1>1, <2>1, <3>2
    <3> QED BY <3>1, <3>3
  <2>2. ASSUME NEW q \in ToSet(bs[x].peers)
        PROVE  q \in KnownIn(bs) /\ BucketIndex(bs, q.id) = x - 1
    BY DEF KnownIn, Table, PlacedIn
  <2> QED BY <2>1, <2>2
<1> QED BY <1>1, <1>3, <1>4, <1>5, <1>6

\* A table knows finitely many peers.
LEMMA KnownFinite ==
  ASSUME NEW bs, Table(bs)
  PROVE  KnownIn(bs) \in SUBSET Peers /\ IsFiniteSet(KnownIn(bs))
<1> DEFINE n == Len(bs)
           sets == {ToSet(bs[x].peers) : x \in DOMAIN bs}
           f == [x \in 1..n |-> ToSet(bs[x].peers)]
<1>1. n \in Nat /\ DOMAIN bs = 1..n
  BY DEF Table
<1>2. f \in Surjection(1..n, sets)
  <2>1. f \in [1..n -> sets] /\ \A t \in sets : \E x \in 1..n : f[x] = t
    BY <1>1
  <2> HIDE DEF f, sets, n
  <2> QED BY <2>1 DEF Surjection
<1>3. IsFiniteSet(1..n)
  <2> HIDE DEF n
  <2> QED BY <1>1, FS_Interval, SMT
<1>4. IsFiniteSet(sets)
  <2> HIDE DEF f, sets, n
  <2> QED BY <1>2, <1>3, FS_Surjection
<1>5. \A t \in sets : IsFiniteSet(t) /\ t \subseteq Peers
  BY TableBucket
<1>6. KnownIn(bs) = UNION sets
  BY DEF KnownIn
<1> HIDE DEF sets
<1> QED BY <1>4, <1>5, <1>6, FS_UNION
-----------------------------------------------------------------------------
(***************************************************************************)
(* Unfolding: it distributes the last bucket and touches nothing else.     *)
(***************************************************************************)

\* The halves of a bucket hold the peers that split() means them to hold.
LEMMA SplitHalves ==
  ASSUME NEW b \in [index : Nat, peers : Seq(Peers)], IsInjective(b.peers)
  PROVE  /\ Kept(b) \in Seq(Peers) /\ Moved(b) \in Seq(Peers)
         /\ IsInjective(Kept(b)) /\ IsInjective(Moved(b))
         /\ ToSet(Kept(b)) = ToSet(b.peers) \ Deeper(b)
         /\ ToSet(Moved(b)) = Deeper(b)
         /\ \A x, y : Before(Kept(b), x, y) \/ Before(Moved(b), x, y) => Before(b.peers, x, y)
<1> DEFINE D == Deeper(b)
           E == ToSet(b.peers) \ D
<1>1. b.peers \in Seq(Peers) /\ D \subseteq ToSet(b.peers)
  BY DEF Deeper
<1> HIDE DEF D, E
<1>2. /\ retain(b.peers, D) \in Seq(Peers) /\ IsInjective(retain(b.peers, D))
      /\ ToSet(retain(b.peers, D)) = ToSet(b.peers) \cap D
      /\ \A x, y : Before(retain(b.peers, D), x, y) <=>
                     Before(b.peers, x, y) /\ x \in D /\ y \in D
  BY <1>1, RetainKeeps
<1>3. /\ retain(b.peers, E) \in Seq(Peers) /\ IsInjective(retain(b.peers, E))
      /\ ToSet(retain(b.peers, E)) = ToSet(b.peers) \cap E
      /\ \A x, y : Before(retain(b.peers, E), x, y) <=>
                     Before(b.peers, x, y) /\ x \in E /\ y \in E
  BY <1>1, RetainKeeps
<1>4. Kept(b) = retain(b.peers, E) /\ Moved(b) = retain(b.peers, D)
  BY DEF Kept, Moved, D, E
<1>5. ToSet(b.peers) \cap D = D /\ ToSet(b.peers) \cap E = ToSet(b.peers) \ D
  BY <1>1 DEF E
<1>6. /\ ToSet(Kept(b)) = ToSet(b.peers) \ D
      /\ ToSet(Moved(b)) = D
  BY <1>2, <1>3, <1>4, <1>5
<1>7. \A x, y : Before(Kept(b), x, y) \/ Before(Moved(b), x, y) => Before(b.peers, x, y)
  BY <1>2, <1>3, <1>4
<1>8. /\ Kept(b) \in Seq(Peers) /\ Moved(b) \in Seq(Peers)
      /\ IsInjective(Kept(b)) /\ IsInjective(Moved(b))
  BY <1>2, <1>3, <1>4
<1> QED BY <1>6, <1>7, <1>8 DEF D

\* The buckets after one split of the last one.
LEMMA UnfoldedBuckets ==
  ASSUME NEW bs, Table(bs)
  PROVE  LET n == Len(bs)
             u == unfoldOnce(bs)
         IN  /\ n \in Nat \ {0} /\ DOMAIN bs = 1..n /\ DOMAIN u = 1..(n + 1)
             /\ u \in Seq([index : Nat, peers : Seq(Peers)]) /\ Len(u) = n + 1
             /\ \A x \in 1..(n - 1) : u[x] = bs[x]
             /\ u[n].index = n - 1 /\ u[n].peers = Kept(bs[n])
             /\ u[n + 1].index = n /\ u[n + 1].peers = Moved(bs[n])
<1> DEFINE B == [index : Nat, peers : Seq(Peers)]
           n == Len(bs)
           f == Front(bs)
           t == split(bs[n])
<1>1. bs \in Seq(B) /\ bs # <<>>
  BY DEF Table
<1> HIDE DEF B
<1>2. n \in Nat \ {0} /\ DOMAIN bs = 1..n /\ \A x \in 1..n : bs[x] \in B
  BY <1>1, EmptySeq
<1>3. n \in DOMAIN bs /\ n \in 1..n
  BY <1>2
<1>4. bs[n] \in [index : Nat, peers : Seq(Peers)]
  BY <1>2, <1>3 DEF B
<1>5. bs[n].index = n - 1 /\ IsInjective(bs[n].peers)
  BY <1>3 DEF Table, PlacedIn
<1>6. Kept(bs[n]) \in Seq(Peers) /\ Moved(bs[n]) \in Seq(Peers)
  BY <1>4, <1>5, SplitHalves
<1>7. t = <<[index |-> n - 1, peers |-> Kept(bs[n])], [index |-> n, peers |-> Moved(bs[n])]>>
  <2>1. [bs[n] EXCEPT !.peers = Kept(bs[n])] = [index |-> n - 1, peers |-> Kept(bs[n])]
    BY <1>4, <1>5
  <2>2. [newBucket(bs[n].index + 1) EXCEPT !.peers = Moved(bs[n])] =
          [index |-> n, peers |-> Moved(bs[n])]
    BY <1>2, <1>5 DEF newBucket
  <2> QED BY <2>1, <2>2 DEF split
<1>8. t \in Seq(B) /\ Len(t) = 2
  <2>1. n - 1 \in Nat /\ n \in Nat
    BY <1>2
  <2>2. /\ [index |-> n - 1, peers |-> Kept(bs[n])] \in B
        /\ [index |-> n, peers |-> Moved(bs[n])] \in B
    BY <1>6, <2>1 DEF B
  <2> HIDE DEF t, n
  <2> QED BY <1>7, <2>2
<1>9. f \in Seq(B) /\ Len(f) = n - 1 /\ \A x \in 1..(n - 1) : f[x] = bs[x]
  BY <1>1, <1>2 DEF Front
<1>10. unfoldOnce(bs) = f \o t
  BY DEF unfoldOnce, Last
<1> HIDE DEF f, t, n
<1>11. /\ f \o t \in Seq(B) /\ Len(f \o t) = n + 1
       /\ \A x \in 1..(n + 1) : (f \o t)[x] = IF x <= n - 1 THEN f[x] ELSE t[x - (n - 1)]
  <2>1. /\ f \o t \in Seq(B) /\ Len(f \o t) = Len(f) + Len(t)
        /\ \A x \in 1..(Len(f) + Len(t)) :
             (f \o t)[x] = IF x <= Len(f) THEN f[x] ELSE t[x - Len(f)]
    BY <1>8, <1>9, ConcatProperties
  <2>2. Len(f) + Len(t) = n + 1
    BY <1>2, <1>8, <1>9
  <2> QED BY <1>9, <2>1, <2>2
<1>12. /\ \A x \in 1..(n - 1) : (f \o t)[x] = bs[x]
       /\ (f \o t)[n] = t[1] /\ (f \o t)[n + 1] = t[2]
  <2>1. \A x \in 1..(n - 1) : x \in 1..(n + 1) /\ x <= n - 1
    BY <1>2
  <2>2. /\ n \in 1..(n + 1) /\ ~(n <= n - 1) /\ n - (n - 1) = 1
        /\ n + 1 \in 1..(n + 1) /\ ~(n + 1 <= n - 1) /\ (n + 1) - (n - 1) = 2
    BY <1>2
  <2> QED BY <1>9, <1>11, <2>1, <2>2
<1>13. DOMAIN (f \o t) = 1..(n + 1)
  BY <1>11
<1> QED BY <1>2, <1>7, <1>10, <1>11, <1>12, <1>13 DEF B, n

(***************************************************************************)
(* One split keeps a table a table: same peers, same order.                *)
(***************************************************************************)
LEMMA UnfoldOnceKeeps ==
  ASSUME NEW bs, Table(bs), NEW cs, Ordered(bs, cs)
  PROVE  LET u == unfoldOnce(bs)
         IN  /\ Table(u) /\ Len(u) = Len(bs) + 1
             /\ KnownIn(u) = KnownIn(bs) /\ Ordered(u, cs)
<1> DEFINE n == Len(bs)
           u == unfoldOnce(bs)
           B == [index : Nat, peers : Seq(Peers)]
<1>1. /\ n \in Nat \ {0} /\ DOMAIN bs = 1..n /\ DOMAIN u = 1..(n + 1)
      /\ u \in Seq(B) /\ Len(u) = n + 1
      /\ \A x \in 1..(n - 1) : u[x] = bs[x]
      /\ u[n].index = n - 1 /\ u[n].peers = Kept(bs[n])
      /\ u[n + 1].index = n /\ u[n + 1].peers = Moved(bs[n])
  BY UnfoldedBuckets
<1> HIDE DEF u, n
<1>2. \A x \in 1..(n + 1) : x \in 1..(n - 1) \/ x = n \/ x = n + 1
  BY <1>1
<1>3. n \in DOMAIN bs /\ \A x \in 1..(n - 1) : x \in DOMAIN bs /\ x < n
  BY <1>1
<1>4. /\ bs[n] \in B
      /\ ToSet(bs[n].peers) \subseteq Peers
      /\ \A q \in ToSet(bs[n].peers) : Cpl(q.id) \in Nat /\ Cpl(q.id) >= n - 1
      /\ bs[n].index = n - 1 /\ IsInjective(bs[n].peers)
  <2>1. /\ bs[n] \in B
        /\ ToSet(bs[n].peers) \subseteq Peers
        /\ \A q \in ToSet(bs[n].peers) :
             IF n < n THEN Cpl(q.id) = n - 1 ELSE Cpl(q.id) >= n - 1
    BY <1>3, TableBucket DEF n
  <2>2. bs[n].index = n - 1 /\ IsInjective(bs[n].peers)
    BY <1>3 DEF Table, PlacedIn
  <2>3. ~(n < n)
    BY <1>1
  <2>4. \A q \in ToSet(bs[n].peers) : Cpl(q.id) \in Nat
    BY <2>1, PrefixType
  <2> QED BY <2>1, <2>2, <2>3, <2>4
<1>5. /\ IsInjective(Kept(bs[n])) /\ IsInjective(Moved(bs[n]))
      /\ ToSet(Kept(bs[n])) = {q \in ToSet(bs[n].peers) : ~(Cpl(q.id) > n - 1)}
      /\ ToSet(Moved(bs[n])) = {q \in ToSet(bs[n].peers) : Cpl(q.id) > n - 1}
      /\ \A a, b : Before(Kept(bs[n]), a, b) \/ Before(Moved(bs[n]), a, b) =>
                     Before(bs[n].peers, a, b)
  <2>1. Deeper(bs[n]) = {q \in ToSet(bs[n].peers) : Cpl(q.id) > n - 1}
    BY <1>4 DEF Deeper
  <2>2. /\ IsInjective(Kept(bs[n])) /\ IsInjective(Moved(bs[n]))
        /\ ToSet(Kept(bs[n])) = ToSet(bs[n].peers) \ Deeper(bs[n])
        /\ ToSet(Moved(bs[n])) = Deeper(bs[n])
        /\ \A a, b : Before(Kept(bs[n]), a, b) \/ Before(Moved(bs[n]), a, b) =>
                       Before(bs[n].peers, a, b)
    BY <1>4, SplitHalves
  <2> QED BY <2>1, <2>2
<1>6. \A id : Cpl(id) \in Nat =>
        BucketIndex(u, id) = IF Cpl(id) < n THEN Cpl(id) ELSE n
  <2>1. Len(u) \in Nat \ {0} /\ Len(u) - 1 = n
    BY <1>1
  <2> QED BY <2>1, IndexCases
<1>7. PlacedIn(u)
  <2>1. ASSUME NEW x \in 1..(n - 1)
        PROVE  /\ u[x].index = x - 1 /\ IsInjective(u[x].peers)
               /\ \A p \in ToSet(u[x].peers) : BucketIndex(u, p.id) = x - 1
    <3>1. u[x] = bs[x] /\ x \in DOMAIN bs /\ x < n
      BY <1>1, <1>3
    <3>2. u[x].index = x - 1 /\ IsInjective(u[x].peers)
      BY <3>1 DEF Table, PlacedIn
    <3>3. ASSUME NEW p \in ToSet(bs[x].peers)
          PROVE  Cpl(p.id) \in Nat /\ Cpl(p.id) = x - 1
      <4>1. p \in Peers /\ IF x < n THEN Cpl(p.id) = x - 1 ELSE Cpl(p.id) >= x - 1
        BY <3>1, TableBucket DEF n
      <4> QED BY <3>1, <4>1, PrefixType
    <3>4. \A p \in ToSet(bs[x].peers) : BucketIndex(u, p.id) = x - 1
      BY <1>1, <1>6, <3>1, <3>3
    <3> QED BY <3>1, <3>2, <3>4
  <2>2. /\ u[n].index = n - 1 /\ IsInjective(u[n].peers)
        /\ \A p \in ToSet(u[n].peers) : BucketIndex(u, p.id) = n - 1
    BY <1>1, <1>4, <1>5, <1>6
  <2>3. /\ u[n + 1].index = (n + 1) - 1 /\ IsInjective(u[n + 1].peers)
        /\ \A p \in ToSet(u[n + 1].peers) : BucketIndex(u, p.id) = (n + 1) - 1
    BY <1>1, <1>4, <1>5, <1>6
  <2> QED BY <1>1, <1>2, <2>1, <2>2, <2>3 DEF PlacedIn
<1>8. u # <<>>
  BY <1>1
<1>9. KnownIn(u) = KnownIn(bs)
  <2>1. ToSet(bs[n].peers) = ToSet(u[n].peers) \cup ToSet(u[n + 1].peers)
    BY <1>1, <1>5
  <2>2. n \in DOMAIN u /\ n + 1 \in DOMAIN u /\ \A x \in 1..(n - 1) : x \in DOMAIN u
    BY <1>1
  <2>3. ASSUME NEW q \in KnownIn(u) PROVE q \in KnownIn(bs)
    <3>1. PICK x \in DOMAIN u : q \in ToSet(u[x].peers)
      BY DEF KnownIn
    <3>2. \E y \in DOMAIN bs : q \in ToSet(bs[y].peers)
      BY <1>1, <1>2, <1>3, <2>1, <3>1
    <3> QED BY <3>2 DEF KnownIn
  <2>4. ASSUME NEW q \in KnownIn(bs) PROVE q \in KnownIn(u)
    <3>1. PICK x \in DOMAIN bs : q \in ToSet(bs[x].peers)
      BY DEF KnownIn
    <3>2. x \in 1..(n - 1) \/ x = n
      BY <1>1
    <3>3. \E y \in DOMAIN u : q \in ToSet(u[y].peers)
      BY <1>1, <2>1, <2>2, <3>1, <3>2
    <3> QED BY <3>3 DEF KnownIn
  <2> QED BY <2>3, <2>4
<1>10. Ordered(u, cs)
  <2>1. ASSUME NEW x \in DOMAIN u
        PROVE  \E y \in DOMAIN bs :
                 /\ ToSet(u[x].peers) \subseteq ToSet(bs[y].peers)
                 /\ \A a, b : Before(u[x].peers, a, b) => Before(bs[y].peers, a, b)
    <3>1. CASE x \in 1..(n - 1)
      BY <1>1, <1>3, <3>1
    <3>2. CASE x = n \/ x = n + 1
      BY <1>1, <1>3, <1>5, <3>2
    <3> QED BY <1>1, <1>2, <3>1, <3>2
  <2> QED BY <2>1 DEF Ordered
<1> QED BY <1>1, <1>7, <1>8, <1>9, <1>10 DEF Table, u, n

\* The tables after up to m calls of unfold_buckets().
IsUnfolding(f, bs, m) ==
  f = [n \in 0..m |-> IF n = 0 THEN bs ELSE unfoldOnce(f[n - 1])]

Unfolding(bs) == CHOOSE f : IsUnfolding(f, bs, W + 2)

\* The recursion is well-founded: each table follows from the one before.
LEMMA UnfoldingExists ==
  ASSUME NEW bs
  PROVE  \A m \in Nat : \E f : IsUnfolding(f, bs, m)
<1> DEFINE Bad == {m \in Nat : ~\E f : IsUnfolding(f, bs, m)}
<1> SUFFICES ASSUME Bad # {} PROVE FALSE
  OBVIOUS
<1>1. Min(Bad) \in Bad /\ \A y \in Bad : Min(Bad) <= y
  <2>1. Bad \in SUBSET Nat
    OBVIOUS
  <2> HIDE DEF Bad
  <2> QED BY <2>1, LeastOf
<1> DEFINE m == Min(Bad)
<1> HIDE DEF m
<1>2. m \in Nat /\ ~\E f : IsUnfolding(f, bs, m)
  BY <1>1 DEF m
<1>3. CASE m = 0
  <2> DEFINE f == [n \in 0..m |-> bs]
  <2>1. f = [n \in 0..m |-> IF n = 0 THEN bs ELSE unfoldOnce(f[n - 1])]
    BY <1>3
  <2> QED BY <1>2, <2>1 DEF IsUnfolding
<1>4. CASE m # 0
  <2>1. m - 1 \in Nat /\ ~(m <= m - 1)
    BY <1>2, <1>4
  <2>2. m - 1 \notin Bad
    BY <1>1, <2>1 DEF m
  <2>3. PICK g : IsUnfolding(g, bs, m - 1)
    BY <2>1, <2>2
  <2> DEFINE f == [n \in 0..m |-> IF n = m THEN unfoldOnce(g[m - 1]) ELSE g[n]]
  <2>4. \A n \in 0..(m - 1) : g[n] = IF n = 0 THEN bs ELSE unfoldOnce(g[n - 1])
    BY <2>3 DEF IsUnfolding
  <2>5. \A n \in 0..m : f[n] = IF n = 0 THEN bs ELSE unfoldOnce(f[n - 1])
    <3> SUFFICES ASSUME NEW n \in 0..m
                 PROVE  f[n] = IF n = 0 THEN bs ELSE unfoldOnce(f[n - 1])
      OBVIOUS
    <3>1. CASE n = m
      <4>1. m \in 0..m /\ m - 1 \in 0..m /\ m - 1 # m
        BY <1>2, <1>4
      <4>2. f[m] = unfoldOnce(g[m - 1]) /\ f[m - 1] = g[m - 1]
        BY <4>1
      <4> QED BY <1>4, <3>1, <4>2
    <3>2. CASE n # m
      <4>1. n \in 0..(m - 1) /\ f[n] = g[n]
        BY <1>2, <3>2
      <4>2. n # 0 => n - 1 \in 0..m /\ n - 1 # m /\ f[n - 1] = g[n - 1]
        BY <1>2, <3>2
      <4> QED BY <2>4, <4>1, <4>2
    <3> QED BY <3>1, <3>2
  <2>6. f = [n \in 0..m |-> f[n]]
    OBVIOUS
  <2> HIDE DEF f
  <2>7. IsUnfolding(f, bs, m)
    BY <2>5, <2>6 DEF IsUnfolding
  <2> QED BY <1>2, <2>7
<1> QED BY <1>3, <1>4

\* Every table on the way keeps the peers and the order of the first.
LEMMA UnfoldingKeeps ==
  ASSUME NEW bs, Table(bs), NEW cs, Ordered(bs, cs), NEW n \in 0..(W + 2)
  PROVE  LET u == Unfolding(bs)[n]
         IN  /\ Table(u) /\ Len(u) = Len(bs) + n
             /\ KnownIn(u) = KnownIn(bs) /\ Ordered(u, cs)
<1> DEFINE f == Unfolding(bs)
           Good(m) == /\ Table(f[m]) /\ Len(f[m]) = Len(bs) + m
                      /\ KnownIn(f[m]) = KnownIn(bs) /\ Ordered(f[m], cs)
           Bad == {m \in 0..(W + 2) : ~Good(m)}
<1>1. IsUnfolding(f, bs, W + 2)
  <2>1. W + 2 \in Nat
    BY WAssumption
  <2>2. \E g : IsUnfolding(g, bs, W + 2)
    BY <2>1, UnfoldingExists
  <2> QED BY <2>2 DEF Unfolding
<1> HIDE DEF f
<1>2. \A m \in 0..(W + 2) : f[m] = IF m = 0 THEN bs ELSE unfoldOnce(f[m - 1])
  BY <1>1 DEF IsUnfolding
<1>3. Len(bs) \in Nat
  BY DEF Table
<1> SUFFICES ASSUME Bad # {} PROVE FALSE
  BY DEF f
<1>4. Min(Bad) \in Bad /\ \A y \in Bad : Min(Bad) <= y
  <2>1. Bad \in SUBSET Nat
    OBVIOUS
  <2> HIDE DEF Bad
  <2> QED BY <2>1, LeastOf
<1> DEFINE m == Min(Bad)
<1> HIDE DEF m
<1>5. m \in 0..(W + 2) /\ ~Good(m)
  BY <1>4 DEF m
<1>6. CASE m = 0
  <2>1. f[m] = bs
    BY <1>2, <1>5, <1>6
  <2>2. Good(m)
    BY <1>3, <1>6, <2>1
  <2> QED BY <1>5, <2>2
<1>7. CASE m # 0
  <2>1. m - 1 \in 0..(W + 2) /\ ~(m <= m - 1)
    BY <1>5, <1>7, WAssumption
  <2>2. Good(m - 1)
    <3>1. m - 1 \notin Bad
      BY <1>4, <2>1 DEF m
    <3> HIDE DEF Good
    <3> QED BY <2>1, <3>1
  <2>3. f[m] = unfoldOnce(f[m - 1])
    BY <1>2, <1>5, <1>7
  <2>4. /\ Table(f[m]) /\ Len(f[m]) = Len(f[m - 1]) + 1
        /\ KnownIn(f[m]) = KnownIn(f[m - 1]) /\ Ordered(f[m], cs)
    BY <2>2, <2>3, UnfoldOnceKeeps
  <2>5. Len(f[m]) = Len(bs) + m
    BY <1>3, <1>5, <2>2, <2>4
  <2> QED BY <1>5, <2>2, <2>4, <2>5
<1> QED BY <1>6, <1>7

\* How many peers the last bucket of a table holds.
LEMMA LastBucket ==
  ASSUME NEW bs, Table(bs)
  PROVE  Len(Last(bs).peers) = Cardinality(DeepIn(bs, Len(bs) - 1))
<1> DEFINE n == Len(bs)
<1>1. n \in Nat \ {0} /\ DOMAIN bs = 1..n
  BY UnfoldedBuckets
<1>2. n \in DOMAIN bs /\ ~(n < n)
  BY <1>1
<1>3. /\ Cardinality(ToSet(bs[n].peers)) = Len(bs[n].peers)
      /\ ToSet(bs[n].peers) = {q \in KnownIn(bs) : BucketIndex(bs, q.id) = n - 1}
  BY <1>2, TableBucket
<1>4. \A q \in KnownIn(bs) : BucketIndex(bs, q.id) = n - 1 <=> Cpl(q.id) >= n - 1
  <2> SUFFICES ASSUME NEW q \in KnownIn(bs)
               PROVE  BucketIndex(bs, q.id) = n - 1 <=> Cpl(q.id) >= n - 1
    OBVIOUS
  <2>1. Cpl(q.id) \in Nat
    BY KnownFinite, PrefixType
  <2>2. BucketIndex(bs, q.id) = IF Cpl(q.id) < n - 1 THEN Cpl(q.id) ELSE n - 1
    BY <1>1, <2>1, IndexCases
  <2> QED BY <1>1, <2>1, <2>2
<1>5. ToSet(bs[n].peers) = DeepIn(bs, n - 1)
  BY <1>3, <1>4 DEF DeepIn
<1> QED BY <1>3, <1>5 DEF Last

(***************************************************************************)
(* unfold_buckets() ends: it adds n buckets, the least number after which  *)
(* the last is below K, and keeps all peers and their order.               *)
(***************************************************************************)
LEMMA UnfoldBuckets ==
  ASSUME NEW bs, Table(bs), NEW cs, Ordered(bs, cs)
  PROVE  LET u == unfold_buckets(bs)
         IN  \E n \in 1..(W + 2) :
               /\ Table(u) /\ Len(u) = Len(bs) + n
               /\ KnownIn(u) = KnownIn(bs) /\ Ordered(u, cs)
               /\ Cardinality(DeepIn(bs, Len(bs) + n - 1)) < K
               /\ \A m \in 1..(n - 1) : Cardinality(DeepIn(bs, Len(bs) + m - 1)) >= K
<1> DEFINE f == Unfolding(bs)
           below == {n \in 1..(W + 2) : Len(Last(f[n]).peers) < K}
           d == Len(bs)
<1>1. d \in Nat \ {0}
  BY UnfoldedBuckets
<1>2. unfold_buckets(bs) = f[Min(below)]
  BY DEF unfold_buckets, Unfolding, IsUnfolding
<1>3. \A n \in 0..(W + 2) : /\ Table(f[n]) /\ Len(f[n]) = d + n
                            /\ KnownIn(f[n]) = KnownIn(bs) /\ Ordered(f[n], cs)
  BY UnfoldingKeeps
<1> HIDE DEF f, d
<1>4. \A n \in 1..(W + 2) : Len(Last(f[n]).peers) = Cardinality(DeepIn(bs, d + n - 1))
  <2> SUFFICES ASSUME NEW n \in 1..(W + 2)
               PROVE  Len(Last(f[n]).peers) = Cardinality(DeepIn(bs, d + n - 1))
    OBVIOUS
  <2>1. n \in 0..(W + 2)
    BY WAssumption
  <2>2. Len(Last(f[n]).peers) = Cardinality(DeepIn(f[n], Len(f[n]) - 1))
    BY <1>3, <2>1, LastBucket
  <2>3. KnownIn(f[n]) = KnownIn(bs) /\ Len(f[n]) = d + n
    BY <1>3, <2>1
  <2>4. \A c : DeepIn(f[n], c) = DeepIn(bs, c)
    BY <2>3 DEF DeepIn
  <2>5. Len(f[n]) - 1 = d + n - 1
    BY <1>1, <2>3
  <2>6. Len(Last(f[n]).peers) = Cardinality(DeepIn(f[n], d + n - 1))
    BY <2>2, <2>5
  <2> QED BY <2>4, <2>6
<1>5. W + 1 \in below
  <2>1. W + 1 \in 1..(W + 2)
    BY WAssumption
  <2>2. \A q \in KnownIn(bs) : Cpl(q.id) \in 0..W
    BY KnownFinite, PrefixType
  <2>3. DeepIn(bs, d + (W + 1) - 1) = {}
    BY <1>1, <2>2, WAssumption DEF DeepIn
  <2>4. Len(Last(f[W + 1]).peers) = 0
    BY <1>4, <2>1, <2>3, FS_EmptySet
  <2> QED BY <2>1, <2>4, KAssumption
<1>6. Min(below) \in below /\ \A y \in below : Min(below) <= y
  <2>1. below \in SUBSET Nat
    BY WAssumption
  <2> HIDE DEF below
  <2> QED BY <1>5, <2>1, LeastOf
<1> DEFINE n == Min(below)
<1> HIDE DEF n
<1>7. n \in 1..(W + 2) /\ n \in 0..(W + 2)
  BY <1>6, WAssumption DEF n
<1>8. Cardinality(DeepIn(bs, d + n - 1)) < K
  BY <1>4, <1>6 DEF n
<1>9. ASSUME NEW m \in 1..(n - 1)
      PROVE  Cardinality(DeepIn(bs, d + m - 1)) >= K
  <2>1. m \in 1..(W + 2) /\ ~(n <= m)
    BY <1>7, WAssumption
  <2>2. m \notin below
    BY <1>6, <2>1 DEF n
  <2>3. ~(Cardinality(DeepIn(bs, d + m - 1)) < K)
    BY <1>4, <2>1, <2>2
  <2>4. DeepIn(bs, d + m - 1) \in SUBSET KnownIn(bs)
    BY DEF DeepIn
  <2>5. Cardinality(DeepIn(bs, d + m - 1)) \in Nat
    BY <2>4, KnownFinite, FS_Subset, FS_CardinalityType
  <2> QED BY <2>3, <2>5, KAssumption
<1>10. unfold_buckets(bs) = f[n]
  BY <1>2 DEF n
<1> HIDE DEF below
<1> QED BY <1>3, <1>7, <1>8, <1>9, <1>10 DEF d
-----------------------------------------------------------------------------
(***************************************************************************)
(* One contact.                                                            *)
(***************************************************************************)

\* The bucket a table has for a peer, as a position of the sequence.
LEMMA OwnBucket ==
  ASSUME NEW bs, Table(bs), NEW p \in Peers
  PROVE  LET x == BucketIndex(bs, p.id) + 1
         IN  /\ Len(bs) \in Nat \ {0}
             /\ x \in DOMAIN bs /\ BucketIndex(bs, p.id) \in 0..(Len(bs) - 1)
             /\ p \in KnownIn(bs) <=> p \in ToSet(bs[x].peers)
<1> DEFINE i == BucketIndex(bs, p.id)
           d == Len(bs)
<1>1. d \in Nat \ {0} /\ DOMAIN bs = 1..d
  BY UnfoldedBuckets
<1>2. Cpl(p.id) \in Nat
  BY PrefixType
<1>3. i \in 0..(d - 1)
  BY <1>1, <1>2, IndexCases
<1> HIDE DEF i, d
<1>4. i + 1 \in DOMAIN bs /\ (i + 1) - 1 = i
  BY <1>1, <1>3
<1>5. ToSet(bs[i + 1].peers) = {q \in KnownIn(bs) : BucketIndex(bs, q.id) = (i + 1) - 1}
  BY <1>4, TableBucket
<1>6. p \in KnownIn(bs) <=> p \in ToSet(bs[i + 1].peers)
  BY <1>4, <1>5 DEF i
<1> QED BY <1>1, <1>3, <1>4, <1>6 DEF i, d

(***************************************************************************)
(* A peer put at the end of its bucket, new or not, is in its place, and   *)
(* every bucket stays in the order of the contacts.                        *)
(***************************************************************************)
LEMMA Recorded ==
  ASSUME NEW bs, Table(bs), NEW p \in Peers,
         NEW cs \in Seq(Peers), IsInjective(cs), Ordered(bs, cs)
  PROVE  LET x == BucketIndex(bs, p.id) + 1
             u == [bs EXCEPT ![x].peers = MoveToFront(@, p)]
         IN  /\ Table(u) /\ Len(u) = Len(bs)
             /\ KnownIn(u) = KnownIn(bs) \cup {p}
             /\ Ordered(u, MoveToFront(cs, p))
<1> DEFINE x == BucketIndex(bs, p.id) + 1
           u == [bs EXCEPT ![x].peers = MoveToFront(@, p)]
           B == [index : Nat, peers : Seq(Peers)]
           ps == bs[x].peers
           q == MoveToFront(ps, p)
<1>1. /\ Len(bs) \in Nat \ {0} /\ x \in DOMAIN bs
      /\ BucketIndex(bs, p.id) = x - 1
  <2>1. BucketIndex(bs, p.id) \in 0..(Len(bs) - 1) /\ Len(bs) \in Nat \ {0} /\ x \in DOMAIN bs
    BY OwnBucket
  <2> QED BY <2>1
<1> HIDE DEF x
<1>2. bs \in Seq(B) /\ DOMAIN bs = 1..Len(bs) /\ \A y \in DOMAIN bs : bs[y] \in B
  <2>1. bs \in Seq(B)
    BY DEF Table
  <2> HIDE DEF B
  <2> QED BY <2>1
<1>3. bs[x] \in B /\ ps \in Seq(Peers) /\ IsInjective(ps) /\ bs[x].index = x - 1
  BY <1>1, <1>2 DEF Table, PlacedIn
<1>4. /\ q \in Seq(Peers) /\ IsInjective(q)
      /\ ToSet(q) = ToSet(ps) \cup {p}
      /\ \A a, b : Before(q, a, b) <=>
           a # p /\ IF b = p THEN a \in ToSet(ps) ELSE Before(ps, a, b)
  <2> HIDE DEF ps
  <2> QED BY <1>3, MovedToEnd DEF MoveToFront
<1>5. /\ ToSet(MoveToFront(cs, p)) = ToSet(cs) \cup {p}
      /\ \A a, b : Before(MoveToFront(cs, p), a, b) <=>
           a # p /\ IF b = p THEN a \in ToSet(cs) ELSE Before(cs, a, b)
  BY MovedToEnd DEF MoveToFront
<1> HIDE DEF q
<1>6. /\ u[x] = [bs[x] EXCEPT !.peers = q]
      /\ \A y \in DOMAIN bs \ {x} : u[y] = bs[y]
      /\ DOMAIN u = DOMAIN bs
  BY <1>1, <1>2 DEF q
<1>7. u[x].index = x - 1 /\ u[x].peers = q /\ u[x] \in B
  BY <1>3, <1>4, <1>6
<1>8. u \in Seq(B) /\ Len(u) = Len(bs)
  <2> HIDE DEF B
  <2>1. u = [bs EXCEPT ![x] = u[x]]
    BY <1>1, <1>2, <1>6
  <2>2. u[x] \in B
    BY <1>7
  <2>3. x \in 1..Len(bs)
    BY <1>1, <1>2
  <2> DEFINE e == u[x]
  <2> HIDE DEF u, e
  <2>4. [bs EXCEPT ![x] = e] \in Seq(B) /\ Len([bs EXCEPT ![x] = e]) = Len(bs)
    BY <1>2, <2>2, <2>3, ExceptSeq DEF e
  <2> QED BY <2>1, <2>4 DEF e
<1> HIDE DEF u
<1>9. \A id : BucketIndex(u, id) = BucketIndex(bs, id)
  BY <1>8 DEF BucketIndex
<1>10. PlacedIn(u)
  <2> SUFFICES ASSUME NEW y \in DOMAIN bs
               PROVE  /\ u[y].index = y - 1 /\ IsInjective(u[y].peers)
                      /\ \A r \in ToSet(u[y].peers) : BucketIndex(bs, r.id) = y - 1
    BY <1>6, <1>9 DEF PlacedIn
  <2>1. /\ bs[y].index = y - 1 /\ IsInjective(bs[y].peers)
        /\ \A r \in ToSet(bs[y].peers) : BucketIndex(bs, r.id) = y - 1
    BY DEF Table, PlacedIn
  <2>2. CASE y = x
    BY <1>1, <1>4, <1>7, <2>1, <2>2
  <2>3. CASE y # x
    BY <1>6, <2>1, <2>3
  <2> QED BY <2>2, <2>3
<1>11. KnownIn(u) = KnownIn(bs) \cup {p}
  <2>1. ToSet(u[x].peers) = ToSet(bs[x].peers) \cup {p}
    BY <1>4, <1>7
  <2>2. ASSUME NEW r \in KnownIn(u) PROVE r \in KnownIn(bs) \cup {p}
    <3>1. PICK y \in DOMAIN bs : r \in ToSet(u[y].peers)
      BY <1>6 DEF KnownIn
    <3>2. r = p \/ r \in ToSet(bs[y].peers)
      BY <1>6, <2>1, <3>1
    <3> QED BY <3>2 DEF KnownIn
  <2>3. ASSUME NEW r \in KnownIn(bs) PROVE r \in KnownIn(u)
    <3>1. PICK y \in DOMAIN bs : r \in ToSet(bs[y].peers)
      BY DEF KnownIn
    <3>2. r \in ToSet(u[y].peers)
      BY <1>6, <2>1, <3>1
    <3> QED BY <1>6, <3>1, <3>2 DEF KnownIn
  <2>4. p \in KnownIn(u)
    BY <1>1, <1>6, <2>1 DEF KnownIn
  <2> QED BY <2>2, <2>3, <2>4
<1>12. Ordered(u, MoveToFront(cs, p))
  <2> SUFFICES ASSUME NEW y \in DOMAIN bs
               PROVE  /\ ToSet(u[y].peers) \subseteq ToSet(MoveToFront(cs, p))
                      /\ \A a, b : Before(u[y].peers, a, b) =>
                                     Before(MoveToFront(cs, p), a, b)
    BY <1>6 DEF Ordered
  <2>1. /\ ToSet(bs[y].peers) \subseteq ToSet(cs)
        /\ \A a, b : Before(bs[y].peers, a, b) => Before(cs, a, b)
    BY DEF Ordered
  <2>2. CASE y = x
    <3>1. ToSet(q) \subseteq ToSet(MoveToFront(cs, p))
      BY <1>4, <1>5, <2>1, <2>2
    <3>2. ASSUME NEW a, NEW b, Before(q, a, b) PROVE Before(MoveToFront(cs, p), a, b)
      <4>1. a # p /\ IF b = p THEN a \in ToSet(ps) ELSE Before(ps, a, b)
        BY <1>4, <3>2
      <4>2. a # p /\ IF b = p THEN a \in ToSet(cs) ELSE Before(cs, a, b)
        BY <2>1, <2>2, <4>1
      <4> QED BY <1>5, <4>2
    <3> QED BY <1>7, <2>2, <3>1, <3>2
  <2>3. CASE y # x
    <3>1. u[y] = bs[y]
      BY <1>6, <2>3
    <3>2. p \notin ToSet(bs[y].peers)
      <4> SUFFICES ASSUME p \in ToSet(bs[y].peers) PROVE FALSE
        OBVIOUS
      <4>1. x - 1 = y - 1
        BY <1>1 DEF Table, PlacedIn
      <4> QED BY <1>1, <1>2, <2>3, <4>1
    <3>3. ASSUME NEW a, NEW b, Before(bs[y].peers, a, b)
          PROVE  Before(MoveToFront(cs, p), a, b)
      <4>1. a \in ToSet(bs[y].peers) /\ b \in ToSet(bs[y].peers)
        BY <3>3 DEF Before, ToSet
      <4>2. a # p /\ b # p /\ Before(cs, a, b)
        BY <2>1, <3>2, <3>3, <4>1
      <4> QED BY <1>5, <4>2
    <3> QED BY <1>5, <2>1, <3>1, <3>3
  <2> QED BY <2>2, <2>3
<1>13. u # <<>>
  BY <1>1, <1>8
<1> QED BY <1>8, <1>10, <1>11, <1>12, <1>13 DEF Table, u, x
-----------------------------------------------------------------------------
(***************************************************************************)
(* The inductive invariant, and the refinement of KBuckets.  Ordered says  *)
(* of positions what LeastRecentFirst says of whole sequences.             *)
(***************************************************************************)
IInv == /\ TypeOK
        /\ Placement
        /\ IsInjective(contacts)
        /\ Ordered(buckets, contacts)

LEMMA TableNow ==
  ASSUME IInv
  PROVE  /\ Table(buckets) /\ Known = KnownIn(buckets)
         /\ contacts \in Seq(Peers) /\ IsInjective(contacts)
         /\ Ordered(buckets, contacts)
         /\ refused \in SUBSET Peers
BY DEF IInv, TypeOK, Placement, Table, PlacedIn, Known, KnownIn

\* The same for the next state.
LEMMA TableNext ==
  ASSUME Table(buckets'), contacts' \in Seq(Peers), IsInjective(contacts'),
         Ordered(buckets', contacts'), refused' \in SUBSET Peers
  PROVE  IInv' /\ Known' = KnownIn(buckets')
BY DEF IInv, TypeOK, Placement, Table, PlacedIn, Known, KnownIn, Ordered, Before,
       BucketIndex, Cpl, IsInjective, ToSet

\* The abstract table in the terms of the vectors.
LEMMA Abstraction ==
  /\ \A q : KB!Cpl(q) = Cpl(q.id)
  /\ \A i, d : KB!Bucket(i, d) = {q \in Known : KB!Slot(Cpl(q.id), d) = i}
  /\ \A c : KB!From(c) = {q \in Known : Cpl(q.id) >= c}
  /\ \A i, d : KB!Full(i, d) <=> Cardinality(KB!Bucket(i, d)) >= K
<1>1. \A q : KB!Cpl(q) = Cpl(q.id)
  BY DEF KB!Cpl, KB!common_prefix_length, KB!LeadingZeros, KB!Distance, KB!Cardinality,
         Cpl, common_prefix_length, LeadingZeros, Distance, Cardinality
<1>2. \A i, d : KB!Bucket(i, d) = {q \in Known : KB!Slot(Cpl(q.id), d) = i}
  BY <1>1 DEF KB!Bucket
<1>3. \A c : KB!From(c) = {q \in Known : Cpl(q.id) >= c}
  BY <1>1 DEF KB!From
<1>4. \A i, d : KB!Full(i, d) <=> Cardinality(KB!Bucket(i, d)) >= K
  BY DEF KB!Full, KB!Cardinality, Cardinality
<1> QED BY <1>1, <1>2, <1>3, <1>4

\* The position that the code computes is the slot of the abstract table.
LEMMA IndexIsSlot ==
  ASSUME NEW bs, Len(bs) \in Nat \ {0}, NEW id, Cpl(id) \in Nat
  PROVE  BucketIndex(bs, id) = KB!Slot(Cpl(id), Len(bs))
BY IndexCases DEF KB!Slot

\* The vector of a bucket is as long as the abstract bucket is large.
LEMMA SameBucket ==
  ASSUME NEW bs, Table(bs), KnownIn(bs) = Known, NEW x \in DOMAIN bs
  PROVE  /\ KB!Bucket(x - 1, Len(bs)) = ToSet(bs[x].peers)
         /\ Cardinality(ToSet(bs[x].peers)) = Len(bs[x].peers)
         /\ KB!Full(x - 1, Len(bs)) <=> Len(bs[x].peers) >= K
<1>1. Len(bs) \in Nat \ {0}
  BY UnfoldedBuckets
<1>2. \A q \in Known : BucketIndex(bs, q.id) = KB!Slot(Cpl(q.id), Len(bs))
  <2> SUFFICES ASSUME NEW q \in Known
               PROVE  BucketIndex(bs, q.id) = KB!Slot(Cpl(q.id), Len(bs))
    OBVIOUS
  <2>1. Cpl(q.id) \in Nat
    BY KnownFinite, PrefixType
  <2> QED BY <1>1, <2>1, IndexIsSlot
<1>3. /\ ToSet(bs[x].peers) = {q \in Known : BucketIndex(bs, q.id) = x - 1}
      /\ Cardinality(ToSet(bs[x].peers)) = Len(bs[x].peers)
  BY TableBucket
<1>4. KB!Bucket(x - 1, Len(bs)) = {q \in Known : KB!Slot(Cpl(q.id), Len(bs)) = x - 1}
  BY Abstraction
<1>5. KB!Bucket(x - 1, Len(bs)) = ToSet(bs[x].peers)
  BY <1>2, <1>3, <1>4
<1>6. KB!Full(x - 1, Len(bs)) <=> Cardinality(KB!Bucket(x - 1, Len(bs))) >= K
  BY Abstraction
<1> QED BY <1>3, <1>5, <1>6

\* push() on a bucket without the peer is a move to its end.
LEMMA AddIsMove ==
  ASSUME NEW bs, NEW p, NEW i, ~Contains(bs[i + 1].peers, p)
  PROVE  add_peer_to_bucket(bs, i, p) = [bs EXCEPT ![i + 1].peers = MoveToFront(@, p)]
<1>1. RemoveFirst(bs[i + 1].peers, p) = bs[i + 1].peers
  BY DEF RemoveFirst, Contains
<1> QED BY <1>1 DEF add_peer_to_bucket, MoveToFront

\* What a successful update() does, possibly after an unfolding to bs.
LEMMA AcceptedKeeps ==
  ASSUME IInv, NEW p \in Peers, NEW bs, Table(bs), KnownIn(bs) = Known,
         Ordered(bs, contacts),
         buckets' = [bs EXCEPT ![BucketIndex(bs, p.id) + 1].peers = MoveToFront(@, p)],
         contacts' = MoveToFront(contacts, p), refused' = refused
  PROVE  IInv' /\ Known' = Known \cup {p} /\ Len(buckets') = Len(bs)
<1>1. /\ contacts \in Seq(Peers) /\ IsInjective(contacts) /\ refused \in SUBSET Peers
  BY TableNow
<1>2. /\ Table(buckets') /\ Len(buckets') = Len(bs)
      /\ KnownIn(buckets') = KnownIn(bs) \cup {p}
      /\ Ordered(buckets', contacts')
  BY <1>1, Recorded
<1>3. contacts' \in Seq(Peers) /\ IsInjective(contacts')
  BY <1>1, MovedToEnd DEF MoveToFront
<1> QED BY <1>1, <1>2, <1>3, TableNext

\* What a refusal does, possibly after an unfolding to bs.
LEMMA RefusedKeeps ==
  ASSUME IInv, NEW p \in Peers, NEW bs, Table(bs), KnownIn(bs) = Known,
         Ordered(bs, contacts),
         buckets' = bs, contacts' = contacts, refused' = refused \cup {p}
  PROVE  IInv' /\ Known' = Known
<1>1. /\ contacts \in Seq(Peers) /\ IsInjective(contacts) /\ refused \in SUBSET Peers
  BY TableNow
<1>2. refused' \in SUBSET Peers
  BY <1>1
<1> QED BY <1>1, <1>2, TableNext

(***************************************************************************)
(* The steps of update(), one by one: the invariant is kept and the        *)
(* abstract table takes the corresponding step.                            *)
(***************************************************************************)
LEMMA UpdateStep ==
  ASSUME IInv, NEW p \in Peers, Update(p)
  PROVE  IInv' /\ KB!Update(p)
<1> DEFINE bs == buckets
           d == Len(bs)
           i == BucketIndex(bs, p.id)
           ps == bs[i + 1].peers
           u == unfold_buckets(bs)
           j == BucketIndex(u, p.id)
           r == update(bs, p)
<1>1. /\ Table(bs) /\ Known = KnownIn(bs) /\ Ordered(bs, contacts)
  BY TableNow
<1>2. /\ d \in Nat \ {0} /\ i + 1 \in DOMAIN bs /\ i \in 0..(d - 1)
      /\ p \in Known <=> p \in ToSet(ps)
  BY <1>1, OwnBucket
<1>3. Cpl(p.id) \in Nat /\ KB!Cpl(p) = Cpl(p.id)
  BY PrefixType, Abstraction
<1>4. i = KB!Slot(KB!Cpl(p), d)
  BY <1>2, <1>3, IndexIsSlot
<1>5. /\ Cardinality(ToSet(ps)) = Len(ps)
      /\ KB!Full(KB!Slot(KB!Cpl(p), d), d) <=> Len(ps) >= K
  <2>1. (i + 1) - 1 = i
    BY <1>2
  <2> HIDE DEF i
  <2>2. /\ Cardinality(ToSet(ps)) = Len(ps)
        /\ KB!Full((i + 1) - 1, d) <=> Len(ps) >= K
    BY <1>1, <1>2, SameBucket
  <2> QED BY <1>4, <2>1, <2>2
<1>6. Contains(ps, p) <=> p \in Known
  <2>1. DOMAIN ps = 1..Len(ps)
    <3>1. bs[i + 1] \in [index : Nat, peers : Seq(Peers)]
      BY <1>1, <1>2, TableBucket
    <3> HIDE DEF i
    <3> QED BY <3>1
  <2> QED BY <1>2, <2>1 DEF Contains, ToSet
<1>7. Len(ps) \in Nat
  <2>1. bs[i + 1] \in [index : Nat, peers : Seq(Peers)]
    BY <1>1, <1>2, TableBucket
  <2> HIDE DEF i
  <2> QED BY <2>1
<1>8. /\ buckets' = r.buckets
      /\ refused' = IF r.ok THEN refused ELSE refused \cup {p}
      /\ contacts' = IF r.ok THEN MoveToFront(contacts, p) ELSE contacts
  BY DEF Update, MoveToFront
<1>9. r = CASE Contains(ps, p) ->
                 [ok |-> TRUE, buckets |-> [bs EXCEPT ![i + 1].peers = MoveToFront(@, p)]]
            [] ~Contains(ps, p) /\ Len(ps) < K ->
                 [ok |-> TRUE, buckets |-> add_peer_to_bucket(bs, i, p)]
            [] OTHER ->
                 IF i # d - 1 THEN [ok |-> FALSE, buckets |-> bs]
                 ELSE IF Len(u[j + 1].peers) >= K THEN [ok |-> FALSE, buckets |-> u]
                 ELSE [ok |-> TRUE, buckets |-> add_peer_to_bucket(u, j, p)]
  BY DEF update, NewIndex
<1>10. PICK n \in 1..(W + 2) :
         /\ Table(u) /\ Len(u) = d + n
         /\ KnownIn(u) = KnownIn(bs) /\ Ordered(u, contacts)
         /\ Cardinality(DeepIn(bs, d + n - 1)) < K
         /\ \A m \in 1..(n - 1) : Cardinality(DeepIn(bs, d + m - 1)) >= K
  BY <1>1, UnfoldBuckets
<1> HIDE DEF r, u, d, ps
<1>11. CASE Contains(ps, p)
  <2>1. r = [ok |-> TRUE, buckets |-> [bs EXCEPT ![i + 1].peers = MoveToFront(@, p)]]
    BY <1>9, <1>11
  <2>2. /\ buckets' = [bs EXCEPT ![i + 1].peers = MoveToFront(@, p)]
        /\ refused' = refused /\ contacts' = MoveToFront(contacts, p)
    BY <1>8, <2>1
  <2>3. IInv' /\ Known' = Known \cup {p} /\ Len(buckets') = Len(bs)
    BY <1>1, <2>2, AcceptedKeeps
  <2>4. p \in Known
    BY <1>6, <1>11
  <2>5. KB!Touch(p)
    BY <2>2, <2>3, <2>4 DEF KB!Touch, KB!vars
  <2> QED BY <2>3, <2>5 DEF KB!Update
<1>12. CASE ~Contains(ps, p) /\ Len(ps) < K
  <2>1. r = [ok |-> TRUE, buckets |-> add_peer_to_bucket(bs, i, p)]
    BY <1>9, <1>12
  <2>2. add_peer_to_bucket(bs, i, p) = [bs EXCEPT ![i + 1].peers = MoveToFront(@, p)]
    BY <1>12, AddIsMove DEF ps
  <2>3. /\ buckets' = [bs EXCEPT ![i + 1].peers = MoveToFront(@, p)]
        /\ refused' = refused /\ contacts' = MoveToFront(contacts, p)
    BY <1>8, <2>1, <2>2
  <2>4. IInv' /\ Known' = Known \cup {p} /\ Len(buckets') = Len(bs)
    BY <1>1, <2>3, AcceptedKeeps
  <2>5. p \notin Known /\ ~KB!Full(KB!Slot(KB!Cpl(p), d), d)
    BY <1>5, <1>6, <1>7, <1>12, KAssumption
  <2>6. KB!Insert(p)
    BY <2>3, <2>4, <2>5 DEF KB!Insert, d
  <2> QED BY <2>4, <2>6 DEF KB!Update
<1>13. CASE ~Contains(ps, p) /\ ~(Len(ps) < K) /\ i # d - 1
  <2>1. r = [ok |-> FALSE, buckets |-> bs]
    BY <1>9, <1>13
  <2>2. buckets' = bs /\ refused' = refused \cup {p} /\ contacts' = contacts
    BY <1>8, <2>1
  <2>3. IInv' /\ Known' = Known
    BY <1>1, <2>2, RefusedKeeps
  <2>4. /\ p \notin Known /\ KB!Full(KB!Slot(KB!Cpl(p), d), d)
        /\ KB!Slot(KB!Cpl(p), d) # d - 1
    BY <1>4, <1>5, <1>6, <1>7, <1>13, KAssumption
  <2>5. KB!Refuse(p)
    BY <2>2, <2>3, <2>4 DEF KB!Refuse, d
  <2> QED BY <2>3, <2>5 DEF KB!Update
<1>14. CASE ~Contains(ps, p) /\ ~(Len(ps) < K) /\ i = d - 1
  <2> DEFINE e == d + n
  <2>1. /\ p \notin Known /\ KB!Slot(KB!Cpl(p), d) = d - 1
        /\ KB!Full(d - 1, d)
    BY <1>4, <1>5, <1>6, <1>7, <1>14, KAssumption
  <2>2. KnownIn(u) = Known /\ Table(u) /\ Ordered(u, contacts) /\ Len(u) = e
    BY <1>1, <1>10
  <2>3. /\ j + 1 \in DOMAIN u /\ j \in 0..(Len(u) - 1) /\ e \in Nat \ {0}
        /\ p \notin ToSet(u[j + 1].peers)
    BY <2>1, <2>2, OwnBucket
  <2>4. j = KB!Slot(KB!Cpl(p), e)
    BY <1>3, <2>2, <2>3, IndexIsSlot
  <2>5. KB!Full(KB!Slot(KB!Cpl(p), e), e) <=> Len(u[j + 1].peers) >= K
    <3>1. (j + 1) - 1 = j
      BY <2>3
    <3> HIDE DEF j
    <3>2. KB!Full((j + 1) - 1, Len(u)) <=> Len(u[j + 1].peers) >= K
      BY <2>2, <2>3, SameBucket
    <3> QED BY <2>2, <2>4, <3>1, <3>2
  <2>6. KB!Unfolded(e) /\ e \in (d + 1)..(d + W + 2)
    <3>1. \A c : KB!From(c) = DeepIn(bs, c)
      BY <1>1, Abstraction DEF DeepIn
    <3>2. e \in (d + 1)..(d + W + 2)
      BY <1>2, WAssumption
    <3>3. Cardinality(KB!From(e - 1)) < K
      <4>1. Cardinality(DeepIn(bs, d + n - 1)) < K
        BY <1>10
      <4>2. e - 1 = d + n - 1
        BY <1>2, WAssumption
      <4> QED BY <3>1, <4>1, <4>2
    <3>4. ASSUME NEW f \in (d + 1)..(e - 1)
          PROVE  Cardinality(KB!From(f - 1)) >= K
      <4> DEFINE m == f - d
      <4>1. m \in 1..(n - 1) /\ d + m - 1 = f - 1
        BY <1>2, WAssumption
      <4> HIDE DEF m
      <4>2. Cardinality(DeepIn(bs, d + m - 1)) >= K
        BY <1>10, <4>1
      <4> QED BY <3>1, <4>1, <4>2
    <3> QED BY <3>2, <3>3, <3>4 DEF KB!Unfolded, KB!Cardinality, Cardinality, d
  <2> HIDE DEF e
  <2>7. CASE Len(u[j + 1].peers) >= K
    <3>1. r = [ok |-> FALSE, buckets |-> u]
      BY <1>9, <1>14, <2>7
    <3>2. buckets' = u /\ refused' = refused \cup {p} /\ contacts' = contacts
      BY <1>8, <3>1
    <3>3. IInv' /\ Known' = Known
      BY <2>2, <3>2, RefusedKeeps
    <3>4. Len(buckets') = e /\ KB!Full(KB!Slot(KB!Cpl(p), e), e)
      BY <2>2, <2>5, <2>7, <3>2
    <3>5. KB!Unfold(p)
      BY <2>1, <2>6, <3>2, <3>3, <3>4 DEF KB!Unfold, d
    <3> QED BY <3>3, <3>5 DEF KB!Update
  <2>8. CASE ~(Len(u[j + 1].peers) >= K)
    <3>1. r = [ok |-> TRUE, buckets |-> add_peer_to_bucket(u, j, p)]
      BY <1>9, <1>14, <2>8
    <3>2. ~Contains(u[j + 1].peers, p)
      <4>1. u[j + 1] \in [index : Nat, peers : Seq(Peers)]
        BY <2>2, <2>3, TableBucket
      <4>2. DOMAIN u[j + 1].peers = 1..Len(u[j + 1].peers)
        <5> HIDE DEF j
        <5> QED BY <4>1
      <4> QED BY <2>3, <4>2 DEF Contains, ToSet
    <3>3. add_peer_to_bucket(u, j, p) = [u EXCEPT ![j + 1].peers = MoveToFront(@, p)]
      BY <3>2, AddIsMove
    <3>4. /\ buckets' = [u EXCEPT ![j + 1].peers = MoveToFront(@, p)]
          /\ refused' = refused /\ contacts' = MoveToFront(contacts, p)
      BY <1>8, <3>1, <3>3
    <3>5. IInv' /\ Known' = Known \cup {p} /\ Len(buckets') = e
      BY <2>2, <3>4, AcceptedKeeps
    <3>6. ~KB!Full(KB!Slot(KB!Cpl(p), e), e)
      BY <2>5, <2>8
    <3>7. KB!Unfold(p)
      BY <2>1, <2>6, <3>4, <3>5, <3>6 DEF KB!Unfold, d
    <3> QED BY <3>5, <3>7 DEF KB!Update
  <2> QED BY <2>7, <2>8
<1> QED BY <1>11, <1>12, <1>13, <1>14

LEMMA InitIInv == Init => IInv /\ KB!Init
<1> SUFFICES ASSUME Init PROVE IInv /\ KB!Init
  OBVIOUS
<1>1. /\ buckets = <<[index |-> 0, peers |-> <<>>]>> /\ refused = {} /\ contacts = <<>>
      /\ Len(buckets) = 1 /\ DOMAIN buckets = {1}
      /\ buckets[1].index = 0 /\ buckets[1].peers = <<>>
  BY DEF Init, newBucket
<1>2. ToSet(<<>>) = {} /\ IsInjective(<<>>) /\ <<>> \in Seq(Peers)
  BY DEF ToSet, IsInjective
<1>3. TypeOK
  <2>1. [index |-> 0, peers |-> <<>>] \in [index : Nat, peers : Seq(Peers)]
    BY <1>2
  <2>2. buckets \in Seq([index : Nat, peers : Seq(Peers)])
    <3> DEFINE B == [index : Nat, peers : Seq(Peers)]
    <3> HIDE DEF B
    <3> QED BY <1>1, <2>1 DEF B
  <2> QED BY <1>1, <1>2, <2>2 DEF TypeOK
<1>4. Placement
  BY <1>1, <1>2 DEF Placement
<1>5. Ordered(buckets, contacts)
  BY <1>1, <1>2 DEF Ordered, Before
<1>6. KB!Init
  BY <1>1, <1>2 DEF KB!Init, Known
<1> QED BY <1>1, <1>2, <1>3, <1>4, <1>5, <1>6 DEF IInv

LEMMA NextIInv == IInv /\ [Next]_vars => IInv' /\ [KB!Next]_(KB!vars)
<1> SUFFICES ASSUME IInv, [Next]_vars PROVE IInv' /\ [KB!Next]_(KB!vars)
  OBVIOUS
<1>1. CASE Next
  <2>1. PICK p \in Peers : Update(p)
    BY <1>1 DEF Next
  <2> QED BY <2>1, UpdateStep DEF KB!Next
<1>2. CASE UNCHANGED vars
  <2>1. Known' = Known /\ Len(buckets') = Len(buckets) /\ refused' = refused
    BY <1>2 DEF vars, Known
  <2>2. IInv'
    <3>1. buckets' = buckets /\ contacts' = contacts /\ refused' = refused
      BY <1>2 DEF vars
    <3>2. /\ Table(buckets') /\ contacts' \in Seq(Peers) /\ IsInjective(contacts')
          /\ Ordered(buckets', contacts') /\ refused' \in SUBSET Peers
      BY <3>1, TableNow
    <3> QED BY <3>2, TableNext
  <2> QED BY <2>1, <2>2 DEF KB!vars
<1> QED BY <1>1, <1>2

LEMMA Invariance == Spec => []IInv
<1>1. Init => IInv
  BY InitIInv
<1>2. IInv /\ [Next]_vars => IInv'
  BY NextIInv
<1> QED BY <1>1, <1>2, PTL DEF Spec

(***************************************************************************)
(* The vectors of the code are a table as KBuckets describes it: what      *)
(* KBucketsProofs proves of that table holds of this one.                  *)
(***************************************************************************)
THEOREM KBucketsImplemented == Spec => ImplementsKBuckets
<1>1. Init => KB!Init
  BY InitIInv
<1>2. IInv /\ [Next]_vars => [KB!Next]_(KB!vars)
  BY NextIInv
<1> QED BY <1>1, <1>2, Invariance, PTL DEF Spec, ImplementsKBuckets, KB!Spec

\* The variables of the vectors keep their types.
THEOREM TypeCorrect == Spec => []TypeOK
BY Invariance, PTL DEF IInv

(***************************************************************************)
(* Every peer is in one bucket, once, and in the one that update() and     *)
(* nearest_peers() look into for its identifier.                           *)
(***************************************************************************)
THEOREM PlacementHolds == Spec => []Placement
BY Invariance, PTL DEF IInv

(***************************************************************************)
(* Insertions, moves and splits keep every bucket in the order of the last *)
(* contacts.                                                               *)
(***************************************************************************)
THEOREM LeastRecentFirstHolds == Spec => []LeastRecentFirst
<1>1. IInv => LeastRecentFirst
  <2> SUFFICES ASSUME IInv, NEW x \in DOMAIN buckets
               PROVE  buckets[x].peers = retain(contacts, ToSet(buckets[x].peers))
    BY DEF LeastRecentFirst
  <2>1. Table(buckets) /\ contacts \in Seq(Peers) /\ IsInjective(contacts)
    BY TableNow
  <2>2. buckets[x].peers \in Seq(Peers) /\ IsInjective(buckets[x].peers)
    <3>1. buckets[x] \in [index : Nat, peers : Seq(Peers)]
      BY <2>1, TableBucket
    <3> QED BY <2>1, <3>1 DEF Table, PlacedIn
  <2>3. /\ ToSet(buckets[x].peers) \subseteq ToSet(contacts)
        /\ \A a, b : Before(buckets[x].peers, a, b) => Before(contacts, a, b)
    BY DEF IInv, Ordered
  <2> DEFINE ps == buckets[x].peers
  <2> HIDE DEF ps
  <2> QED BY <2>1, <2>2, <2>3, OrderedIsRetained DEF ps
<1> QED BY <1>1, Invariance, PTL
-----------------------------------------------------------------------------
(***************************************************************************)
(* The answers of nearest_peers().                                         *)
(***************************************************************************)

\* The comparison of identifiers as numbers is a strict total order.
LEMMA LessOrder ==
  /\ \A x \in Id : ~Less(x, x)
  /\ \A x, y, z \in Id : Less(x, y) /\ Less(y, z) => Less(x, z)
  /\ \A x, y \in Id : x = y \/ Less(x, y) \/ Less(y, x)
<1>1. \A x \in Id : ~Less(x, x)
  BY DEF Less
<1>2. ASSUME NEW x \in Id, NEW y \in Id, NEW z \in Id, Less(x, y), Less(y, z)
      PROVE  Less(x, z)
  <2>1. PICK i \in 1..W : /\ ~x[i] /\ y[i]
                          /\ \A k \in 1..(i-1) : x[k] = y[k]
    BY <1>2 DEF Less
  <2>2. PICK j \in 1..W : /\ ~y[j] /\ z[j]
                          /\ \A k \in 1..(j-1) : y[k] = z[k]
    BY <1>2 DEF Less
  <2>3. CASE i < j
    <3>1. i \in 1..(j - 1) /\ \A k \in 1..(i - 1) : k \in 1..(j - 1)
      BY <2>3, WAssumption
    <3>2. ~x[i] /\ z[i] /\ \A k \in 1..(i-1) : x[k] = z[k]
      BY <2>1, <2>2, <3>1
    <3> QED BY <3>2 DEF Less
  <2>4. CASE j < i
    <3>1. j \in 1..(i - 1) /\ \A k \in 1..(j - 1) : k \in 1..(i - 1)
      BY <2>4, WAssumption
    <3>2. ~x[j] /\ z[j] /\ \A k \in 1..(j-1) : x[k] = z[k]
      BY <2>1, <2>2, <3>1
    <3> QED BY <3>2 DEF Less
  <2>5. i # j
    BY <2>1, <2>2
  <2> QED BY <2>3, <2>4, <2>5, WAssumption
<1>3. ASSUME NEW x \in Id, NEW y \in Id, x # y
      PROVE  Less(x, y) \/ Less(y, x)
  <2> DEFINE D == {i \in 1..W : x[i] # y[i]}
  <2>1. D # {}
    <3>1. x = [i \in 1..W |-> x[i]] /\ y = [i \in 1..W |-> y[i]]
      BY DEF Id
    <3> QED BY <1>3, <3>1
  <2>2. Min(D) \in D /\ \A k \in D : Min(D) <= k
    <3>1. D \in SUBSET Nat
      BY WAssumption
    <3> HIDE DEF D
    <3> QED BY <2>1, <3>1, LeastOf
  <2> DEFINE i == Min(D)
  <2> HIDE DEF i
  <2>3. i \in 1..W /\ x[i] # y[i] /\ x[i] \in BOOLEAN /\ y[i] \in BOOLEAN
    BY <2>2 DEF i, Id
  <2>4. \A k \in 1..(i - 1) : x[k] = y[k]
    <3> SUFFICES ASSUME NEW k \in 1..(i - 1) PROVE x[k] = y[k]
      OBVIOUS
    <3>1. k \in 1..W /\ ~(i <= k)
      BY <2>3, WAssumption
    <3>2. k \notin D
      BY <2>2, <3>1 DEF i
    <3> QED BY <3>1, <3>2
  <2>5. \A k \in 1..(i - 1) : y[k] = x[k]
    BY <2>4
  <2> QED BY <2>3, <2>4, <2>5 DEF Less
<1> QED BY <1>1, <1>2, <1>3

\* sort_by() sees the positions of the peers in a strict order.
LEMMA DistanceOrder ==
  ASSUME NEW ps \in Seq(Peers), NEW target \in Id
  PROVE  LET before(x, y) == \/ Nearer(target, ps[x].id, ps[y].id)
                             \/ ~Nearer(target, ps[y].id, ps[x].id) /\ x < y
         IN  StrictOrder(DOMAIN ps, {e \in (DOMAIN ps) \X (DOMAIN ps) : before(e[1], e[2])})
<1> DEFINE S == DOMAIN ps
           D(x) == Distance(ps[x].id, target)
           before(x, y) == \/ Nearer(target, ps[x].id, ps[y].id)
                           \/ ~Nearer(target, ps[y].id, ps[x].id) /\ x < y
           R == {e \in S \X S : before(e[1], e[2])}
<1>1. \A x \in S : D(x) \in Id /\ x \in Int
  BY DEF Distance, Id
<1>2. ASSUME NEW x \in S, NEW y \in S
      PROVE  <<x, y>> \in R <=> Less(D(x), D(y)) \/ (~Less(D(y), D(x)) /\ x < y)
  <2>1. <<x, y>> \in R <=> before(x, y)
    <3> HIDE DEF before, S
    <3> QED OBVIOUS
  <2>2. /\ Nearer(target, ps[x].id, ps[y].id) <=> Less(D(x), D(y))
        /\ Nearer(target, ps[y].id, ps[x].id) <=> Less(D(y), D(x))
    BY DEF Nearer
  <2>3. before(x, y) <=> Less(D(x), D(y)) \/ (~Less(D(y), D(x)) /\ x < y)
    <3> HIDE DEF S, R, D
    <3> QED BY <2>2
  <2> HIDE DEF R, S, D, before
  <2> QED BY <2>1, <2>3
<1> HIDE DEF R, S, D
<1>3. \A x \in S : <<x, x>> \notin R
  BY <1>1, <1>2, LessOrder
<1>4. ASSUME NEW x \in S, NEW y \in S, NEW z \in S, <<x, y>> \in R, <<y, z>> \in R
      PROVE  <<x, z>> \in R
  <2>1. /\ D(x) \in Id /\ D(y) \in Id /\ D(z) \in Id
        /\ x \in Int /\ y \in Int /\ z \in Int
    BY <1>1
  <2>2. /\ Less(D(x), D(y)) \/ (D(x) = D(y) /\ x < y)
        /\ Less(D(y), D(z)) \/ (D(y) = D(z) /\ y < z)
    BY <1>2, <1>4, <2>1, LessOrder
  <2>3. Less(D(x), D(z)) \/ (D(x) = D(z) /\ x < z)
    BY <2>1, <2>2, LessOrder
  <2>4. CASE Less(D(x), D(z))
    BY <1>2, <2>4
  <2>5. CASE D(x) = D(z) /\ x < z
    <3>1. ~Less(D(z), D(x))
      BY <2>1, <2>5, LessOrder
    <3> QED BY <1>2, <2>5, <3>1
  <2> QED BY <2>3, <2>4, <2>5
<1>5. ASSUME NEW x \in S, NEW y \in S PROVE x = y \/ <<x, y>> \in R \/ <<y, x>> \in R
  <2>1. D(x) \in Id /\ D(y) \in Id /\ x \in Int /\ y \in Int
    BY <1>1
  <2>2. D(x) = D(y) \/ Less(D(x), D(y)) \/ Less(D(y), D(x))
    BY <2>1, LessOrder
  <2>3. CASE Less(D(x), D(y)) \/ Less(D(y), D(x))
    BY <1>2, <2>3
  <2>4. CASE D(x) = D(y)
    <3>1. ~Less(D(x), D(y)) /\ ~Less(D(y), D(x))
      BY <2>1, <2>4, LessOrder
    <3>2. x = y \/ x < y \/ y < x
      BY <2>1
    <3> QED BY <1>2, <3>1, <3>2
  <2> QED BY <2>2, <2>3, <2>4
<1> QED BY <1>3, <1>4, <1>5 DEF StrictOrder, R, S

(***************************************************************************)
(* sort_by() keeps the peers and puts no peer behind one that is farther.  *)
(***************************************************************************)
LEMMA SortedByDistance ==
  ASSUME NEW ps \in Seq(Peers), IsInjective(ps), NEW target \in Id
  PROVE  LET q == SortByDistance(ps, target)
         IN  /\ q \in Seq(Peers) /\ IsInjective(q)
             /\ Len(q) = Len(ps) /\ ToSet(q) = ToSet(ps)
             /\ \A j, k \in DOMAIN q : j < k => ~Nearer(target, q[k].id, q[j].id)
<1> DEFINE S == DOMAIN ps
           n == Len(ps)
           R == {e \in S \X S : \/ Nearer(target, ps[e[1]].id, ps[e[2]].id)
                                \/ ~Nearer(target, ps[e[2]].id, ps[e[1]].id) /\ e[1] < e[2]}
<1>1. n \in Nat /\ S = 1..n /\ \A i \in S : ps[i] \in Peers
  OBVIOUS
<1>2. IsFiniteSet(S) /\ Cardinality(S) = n
  <2> HIDE DEF n, S
  <2> QED BY <1>1, FS_Interval, SMT
<1>3. StrictOrder(S, R)
  BY DistanceOrder
<1>4. SortByDistance(ps, target) = Arranged(ps, S, R)
  BY DEF SortByDistance
<1>5. PICK o : /\ Enumerates(o, n, S, R)
               /\ Arranged(ps, S, R) = [k \in 1..n |-> ps[o[k]]]
  <2> HIDE DEF S, R, n
  <2> QED BY <1>2, <1>3, ArrangedInOrder
<1> DEFINE q == [k \in 1..n |-> ps[o[k]]]
<1>6. /\ o \in [1..n -> S]
      /\ \A x \in S : \E k \in 1..n : o[k] = x
      /\ \A j, k \in 1..n : j < k => <<o[j], o[k]>> \in R
  <2> HIDE DEF S, R, n
  <2> QED BY <1>5 DEF Enumerates
<1>7. \A j, k \in 1..n : j < k => o[j] # o[k]
  <2> HIDE DEF S, R, n
  <2> QED BY <1>3, <1>6 DEF StrictOrder
<1>8. \A j, k \in 1..n : j < k => ~Nearer(target, ps[o[k]].id, ps[o[j]].id)
  <2> SUFFICES ASSUME NEW j \in 1..n, NEW k \in 1..n, j < k,
                      Nearer(target, ps[o[k]].id, ps[o[j]].id)
               PROVE  FALSE
    OBVIOUS
  <2> DEFINE x == ps[o[j]].id
             y == ps[o[k]].id
  <2>1. <<o[j], o[k]>> \in R
    BY <1>6
  <2>2. Nearer(target, x, y)
    BY <2>1
  <2>3. Distance(x, target) \in Id /\ Distance(y, target) \in Id
    BY DEF Distance, Id
  <2> HIDE DEF x, y
  <2>4. Less(Distance(x, target), Distance(x, target))
    BY <2>2, <2>3, LessOrder DEF Nearer, x, y
  <2> QED BY <2>3, <2>4, LessOrder
<1> HIDE DEF R
<1>9. q \in Seq(Peers) /\ Len(q) = n /\ DOMAIN q = 1..n /\ \A k \in 1..n : q[k] = ps[o[k]]
  BY <1>1, <1>6
<1> HIDE DEF q, n
<1>10. IsInjective(q)
  <2> SUFFICES ASSUME NEW j \in 1..n, NEW k \in 1..n, q[j] = q[k] PROVE j = k
    BY <1>9 DEF IsInjective
  <2>1. o[j] = o[k]
    BY <1>6, <1>9 DEF IsInjective
  <2>2. ~(j < k) /\ ~(k < j)
    BY <1>7, <2>1
  <2> QED BY <1>1, <2>2
<1>11. ToSet(q) = ToSet(ps)
  <2>1. ASSUME NEW a \in ToSet(q) PROVE a \in ToSet(ps)
    BY <1>6, <1>9 DEF ToSet
  <2>2. ASSUME NEW a \in ToSet(ps) PROVE a \in ToSet(q)
    <3>1. PICK x \in S : ps[x] = a
      BY DEF ToSet
    <3>2. PICK k \in 1..n : o[k] = x
      BY <1>6, <3>1
    <3> QED BY <1>9, <3>1, <3>2 DEF ToSet
  <2> QED BY <2>1, <2>2
<1>12. \A j, k \in DOMAIN q : j < k => ~Nearer(target, q[k].id, q[j].id)
  BY <1>8, <1>9
<1> QED BY <1>4, <1>5, <1>9, <1>10, <1>11, <1>12 DEF q, n

(***************************************************************************)
(* truncate() leaves the n nearest of the peers, or all of them.           *)
(***************************************************************************)
LEMMA Truncated ==
  ASSUME NEW ps \in Seq(Peers), IsInjective(ps), NEW target \in Id, NEW n \in Nat
  PROVE  LET S == ToSet(SubSeq(SortByDistance(ps, target), 1, Min({n, Len(ps)})))
         IN  /\ S \subseteq ToSet(ps)
             /\ Cardinality(S) = IF n < Len(ps) THEN n ELSE Len(ps)
             /\ Len(ps) <= n => S = ToSet(ps)
             /\ \A p \in S, q \in ToSet(ps) \ S : ~Nearer(target, q.id, p.id)
<1> DEFINE q == SortByDistance(ps, target)
           l == Len(ps)
           m == Min({n, l})
           s == SubSeq(q, 1, m)
<1>1. /\ q \in Seq(Peers) /\ IsInjective(q) /\ Len(q) = l /\ ToSet(q) = ToSet(ps)
      /\ \A j, k \in DOMAIN q : j < k => ~Nearer(target, q[k].id, q[j].id)
  BY SortedByDistance
<1>2. l \in Nat
  OBVIOUS
<1> HIDE DEF q, l
<1>3. m \in Nat /\ m = IF n < l THEN n ELSE l
  <2>1. m \in {n, l} /\ \A y \in {n, l} : m <= y
    BY <1>2, LeastOf
  <2> QED BY <1>2, <2>1
<1> HIDE DEF m
<1>4. /\ s \in Seq(Peers) /\ Len(s) = m /\ \A k \in 1..m : s[k] = q[k]
      /\ DOMAIN s = 1..m /\ DOMAIN q = 1..l /\ 1..m \subseteq 1..l
  BY <1>1, <1>2, <1>3
<1> HIDE DEF s
<1>5. IsInjective(s)
  BY <1>1, <1>4 DEF IsInjective
<1>6. ToSet(s) \subseteq ToSet(q)
  BY <1>4 DEF ToSet
<1>7. Cardinality(ToSet(s)) = m
  BY <1>4, <1>5, CountedSequence
<1>8. l <= n => ToSet(s) = ToSet(q)
  <2> SUFFICES ASSUME l <= n PROVE ToSet(q) \subseteq ToSet(s)
    BY <1>6
  <2>1. m = l
    BY <1>2, <1>3
  <2> QED BY <1>4, <2>1 DEF ToSet
<1>9. ASSUME NEW a \in ToSet(s), NEW b \in ToSet(q) \ ToSet(s)
      PROVE  ~Nearer(target, b.id, a.id)
  <2>1. PICK j \in 1..m : a = q[j]
    BY <1>4 DEF ToSet
  <2>2. PICK k \in 1..l : b = q[k]
    BY <1>4 DEF ToSet
  <2>3. k \notin 1..m
    BY <1>4, <2>2 DEF ToSet
  <2>4. j < k /\ j \in 1..l
    BY <1>2, <1>3, <1>4, <2>3
  <2> QED BY <1>1, <1>4, <2>1, <2>2, <2>4
<1> QED BY <1>1, <1>3, <1>6, <1>7, <1>8, <1>9 DEF s, m, q, l

\* Sequences without repetitions and without a common element.
LEMMA Joined ==
  ASSUME NEW s \in Seq(Peers), NEW t \in Seq(Peers), IsInjective(s), IsInjective(t),
         ToSet(s) \cap ToSet(t) = {}
  PROVE  s \o t \in Seq(Peers) /\ IsInjective(s \o t) /\ ToSet(s \o t) = ToSet(s) \cup ToSet(t)
<1> DEFINE m == Len(s)
           n == Len(t)
           u == s \o t
<1>1. /\ m \in Nat /\ n \in Nat /\ DOMAIN s = 1..m /\ DOMAIN t = 1..n
      /\ u \in Seq(Peers) /\ Len(u) = m + n /\ DOMAIN u = 1..(m + n)
      /\ \A k \in 1..m : u[k] = s[k]
      /\ \A k \in 1..(m + n) : k > m => u[k] = t[k - m]
  OBVIOUS
<1> HIDE DEF m, n, u
<1>2. ASSUME NEW j \in 1..(m + n), NEW k \in 1..(m + n), u[j] = u[k] PROVE j = k
  <2>1. CASE j <= m /\ k <= m
    <3>1. j \in DOMAIN s /\ k \in DOMAIN s /\ s[j] = s[k]
      BY <1>1, <1>2, <2>1
    <3> QED BY <3>1 DEF IsInjective
  <2>2. CASE j > m /\ k > m
    <3>1. j - m \in DOMAIN t /\ k - m \in DOMAIN t /\ t[j - m] = t[k - m]
      BY <1>1, <1>2, <2>2
    <3>2. j - m = k - m
      BY <3>1 DEF IsInjective
    <3> QED BY <1>1, <3>2
  <2>3. CASE j <= m /\ k > m
    <3>1. j \in DOMAIN s /\ k - m \in DOMAIN t /\ s[j] = t[k - m]
      BY <1>1, <1>2, <2>3
    <3>2. s[j] \in ToSet(s) /\ t[k - m] \in ToSet(t)
      BY <3>1 DEF ToSet
    <3> QED BY <3>1, <3>2
  <2>4. CASE j > m /\ k <= m
    <3>1. k \in DOMAIN s /\ j - m \in DOMAIN t /\ s[k] = t[j - m]
      BY <1>1, <1>2, <2>4
    <3>2. s[k] \in ToSet(s) /\ t[j - m] \in ToSet(t)
      BY <3>1 DEF ToSet
    <3> QED BY <3>1, <3>2
  <2> QED BY <1>1, <2>1, <2>2, <2>3, <2>4
<1>3. IsInjective(u)
  BY <1>1, <1>2 DEF IsInjective
<1>4. ASSUME NEW a \in ToSet(u) PROVE a \in ToSet(s) \cup ToSet(t)
  <2>1. PICK k \in 1..(m + n) : u[k] = a
    BY <1>1, <1>4 DEF ToSet
  <2>2. CASE k <= m
    BY <1>1, <2>1, <2>2 DEF ToSet
  <2>3. CASE k > m
    <3>1. k - m \in DOMAIN t /\ t[k - m] = a
      BY <1>1, <2>1, <2>3
    <3> QED BY <3>1 DEF ToSet
  <2> QED BY <1>1, <2>2, <2>3
<1>5. ASSUME NEW a \in ToSet(s) PROVE a \in ToSet(u)
  <2>1. PICK k \in 1..m : s[k] = a
    BY <1>1, <1>5 DEF ToSet
  <2>2. k \in 1..(m + n) /\ u[k] = a
    BY <1>1, <2>1
  <2> QED BY <1>1, <2>2 DEF ToSet
<1>6. ASSUME NEW a \in ToSet(t) PROVE a \in ToSet(u)
  <2>1. PICK k \in 1..n : t[k] = a
    BY <1>1, <1>6 DEF ToSet
  <2>2. m + k \in 1..(m + n) /\ m + k > m /\ (m + k) - m = k
    BY <1>1
  <2>3. u[m + k] = a
    BY <1>1, <2>1, <2>2
  <2> QED BY <1>1, <2>2, <2>3 DEF ToSet
<1> QED BY <1>1, <1>3, <1>4, <1>5, <1>6 DEF u

\* The peers that nearest_peers() sorts and truncates.
Examined(bs, target, n) ==
  LET i   == BucketIndex(bs, target)
      own == bs[i + 1].peers
  IN  IF Len(own) < n THEN own \o PrevPeers(bs, i) \o NextPeers(bs, i) ELSE own

LEMMA AnswerOfExamined ==
  ASSUME NEW bs, NEW target, NEW n
  PROVE  LET found == Examined(bs, target, n)
         IN  nearest_peers(bs, target, n)
               = SubSeq(SortByDistance(found, target), 1, Min({n, Len(found)}))
BY DEF nearest_peers, Examined

\* The peers of a bucket, and of the positions where there is none.
LEMMA BucketPeers ==
  ASSUME NEW bs, Table(bs), KnownIn(bs) = Known, NEW i \in Int, NEW s,
         s = IF i \in 0..(Len(bs) - 1) THEN bs[i + 1].peers ELSE <<>>
  PROVE  /\ s \in Seq(Peers) /\ IsInjective(s)
         /\ ToSet(s) = KB!Bucket(i, Len(bs))
         /\ Cardinality(ToSet(s)) = Len(s)
<1> DEFINE d == Len(bs)
<1>1. d \in Nat \ {0} /\ DOMAIN bs = 1..d
  BY UnfoldedBuckets
<1>2. CASE i \in 0..(d - 1)
  <2>1. i + 1 \in DOMAIN bs /\ (i + 1) - 1 = i /\ s = bs[i + 1].peers
    <3> HIDE DEF d
    <3> QED BY <1>1, <1>2 DEF d
  <2>2. s \in Seq(Peers) /\ IsInjective(s)
    <3>1. bs[i + 1] \in [index : Nat, peers : Seq(Peers)]
      BY <2>1, TableBucket
    <3>2. IsInjective(bs[i + 1].peers)
      BY <2>1 DEF Table, PlacedIn
    <3> QED BY <2>1, <3>1, <3>2
  <2>3. /\ KB!Bucket((i + 1) - 1, Len(bs)) = ToSet(bs[i + 1].peers)
        /\ Cardinality(ToSet(bs[i + 1].peers)) = Len(bs[i + 1].peers)
    BY <2>1, SameBucket
  <2> QED BY <2>1, <2>2, <2>3
<1>3. CASE i \notin 0..(d - 1)
  <2>1. s = <<>> /\ s \in Seq(Peers) /\ IsInjective(s) /\ ToSet(s) = {}
    BY <1>3 DEF IsInjective, ToSet
  <2>2. ASSUME NEW q \in Known PROVE KB!Slot(Cpl(q.id), d) \in 0..(d - 1)
    <3>1. Cpl(q.id) \in Nat
      BY KnownFinite, PrefixType
    <3> HIDE DEF d
    <3> QED BY <1>1, <3>1 DEF KB!Slot
  <2>3. KB!Bucket(i, d) = {}
    BY <1>3, <2>2, Abstraction
  <2> QED BY <2>1, <2>3, CountedSequence
<1> QED BY <1>2, <1>3

(***************************************************************************)
(* The examined vectors are the buckets that the abstract table examines,  *)
(* at both ends of the table too, and no peer occurs in them twice.        *)
(***************************************************************************)
LEMMA ExaminedIsVisible ==
  ASSUME Table(buckets), KnownIn(buckets) = Known, NEW target \in Id, NEW n \in Nat
  PROVE  LET found == Examined(buckets, target, n)
             own   == buckets[BucketIndex(buckets, target) + 1].peers
         IN  /\ found \in Seq(Peers) /\ IsInjective(found)
             /\ ToSet(found) = KB!Visible(target, n)
             /\ Len(own) >= n => found = own
             /\ own \in Seq(Peers) /\ Len(own) \in Nat
             /\ ToSet(own) = KB!Bucket(KB!Slot(Cpl(target), Len(buckets)), Len(buckets))
<1> DEFINE d == Len(buckets)
           i == BucketIndex(buckets, target)
           own == buckets[i + 1].peers
           prev == PrevPeers(buckets, i)
           next == NextPeers(buckets, i)
           found == Examined(buckets, target, n)
<1>1. d \in Nat \ {0} /\ DOMAIN buckets = 1..d
  BY UnfoldedBuckets
<1>2. Cpl(target) \in Nat
  BY PrefixRange
<1>3. i \in 0..(d - 1)
  BY <1>1, <1>2, IndexCases
<1>4. i = KB!Slot(Cpl(target), d)
  BY <1>1, <1>2, IndexIsSlot
<1> HIDE DEF d, i
<1>5. /\ own = IF i \in 0..(d - 1) THEN buckets[i + 1].peers ELSE <<>>
      /\ prev = IF i - 1 \in 0..(d - 1) THEN buckets[(i - 1) + 1].peers ELSE <<>>
      /\ next = IF i + 1 \in 0..(d - 1) THEN buckets[(i + 1) + 1].peers ELSE <<>>
  <2>1. /\ (i - 1) + 1 = i /\ (i + 1) + 1 = i + 2
        /\ i > 0 <=> i - 1 \in 0..(d - 1)
        /\ i < d - 1 <=> i + 1 \in 0..(d - 1)
    BY <1>1, <1>3
  <2> QED BY <1>3, <2>1 DEF PrevPeers, NextPeers, d
<1>6. i \in Int /\ i - 1 \in Int /\ i + 1 \in Int
  BY <1>3, <1>1
<1> HIDE DEF own, prev, next
<1>7. /\ own \in Seq(Peers) /\ IsInjective(own) /\ ToSet(own) = KB!Bucket(i, d)
      /\ Cardinality(ToSet(own)) = Len(own)
  BY <1>5, <1>6, BucketPeers DEF d
<1>8. prev \in Seq(Peers) /\ IsInjective(prev) /\ ToSet(prev) = KB!Bucket(i - 1, d)
  BY <1>5, <1>6, BucketPeers DEF d
<1>9. next \in Seq(Peers) /\ IsInjective(next) /\ ToSet(next) = KB!Bucket(i + 1, d)
  BY <1>5, <1>6, BucketPeers DEF d
<1>10. \A j, k \in Int : j # k => KB!Bucket(j, d) \cap KB!Bucket(k, d) = {}
  BY DEF KB!Bucket
<1>11. /\ ToSet(own) \cap ToSet(prev) = {}
       /\ (ToSet(own) \cup ToSet(prev)) \cap ToSet(next) = {}
  <2>1. i # i - 1 /\ i # i + 1 /\ i - 1 # i + 1
    BY <1>6
  <2> QED BY <1>6, <1>7, <1>8, <1>9, <1>10, <2>1
<1> DEFINE all == own \o prev \o next
<1>12. /\ all \in Seq(Peers) /\ IsInjective(all)
       /\ ToSet(all) = ToSet(own) \cup ToSet(prev) \cup ToSet(next)
  <2>1. /\ own \o prev \in Seq(Peers) /\ IsInjective(own \o prev)
        /\ ToSet(own \o prev) = ToSet(own) \cup ToSet(prev)
    BY <1>7, <1>8, <1>11, Joined
  <2> DEFINE ow == own \o prev
  <2> HIDE DEF ow
  <2>2. /\ ow \o next \in Seq(Peers) /\ IsInjective(ow \o next)
        /\ ToSet(ow \o next) = ToSet(ow) \cup ToSet(next)
    BY <1>9, <1>11, <2>1, Joined DEF ow
  <2> QED BY <2>1, <2>2 DEF ow
<1>13. found = IF Len(own) < n THEN all ELSE own
  BY DEF Examined, i, own, prev, next
<1>14. KB!Visible(target, n)
         = IF Len(own) < n THEN ToSet(own) \cup ToSet(prev) \cup ToSet(next) ELSE ToSet(own)
  <2>1. KB!common_prefix_length(Local.id, target) = Cpl(target)
    BY DEF KB!common_prefix_length, KB!LeadingZeros, KB!Distance, KB!Cardinality,
           Cpl, common_prefix_length, LeadingZeros, Distance, Cardinality
  <2>2. KB!Cardinality(KB!Bucket(i, d)) = Len(own)
    BY <1>7 DEF KB!Cardinality, Cardinality
  <2> QED BY <1>4, <1>7, <1>8, <1>9, <2>1, <2>2 DEF KB!Visible, d
<1> HIDE DEF all, found
<1>15. Len(own) \in Nat
  BY <1>7
<1>16. Len(own) >= n => found = own
  BY <1>13, <1>15
<1>17. found \in Seq(Peers) /\ IsInjective(found) /\ ToSet(found) = KB!Visible(target, n)
  BY <1>7, <1>12, <1>13, <1>14
<1> QED BY <1>4, <1>7, <1>15, <1>16, <1>17 DEF found, own, i, d

\* KBuckets' comparison of slots, in the terms of this module.
LEMMA OwnSlotIsNearer ==
  ASSUME NEW target \in Id, NEW p \in Id, NEW q \in Id, NEW d \in Nat \ {0},
         KB!Slot(Cpl(p), d) = KB!Slot(Cpl(target), d),
         KB!Slot(Cpl(q), d) # KB!Slot(Cpl(target), d)
  PROVE  Nearer(target, p, q)
<1>1. \A id : T!common_prefix_length(Local.id, id) = Cpl(id)
  BY DEF T!common_prefix_length, T!LeadingZeros, T!Distance, T!Cardinality,
         Cpl, common_prefix_length, LeadingZeros, Distance, Cardinality
<1>2. \A c : T!Slot(c, d) = KB!Slot(c, d)
  BY DEF T!Slot, KB!Slot
<1>3. /\ target \in T!Id /\ p \in T!Id /\ q \in T!Id
      /\ T!Slot(T!common_prefix_length(Local.id, p), d)
           = T!Slot(T!common_prefix_length(Local.id, target), d)
      /\ T!Slot(T!common_prefix_length(Local.id, q), d)
           # T!Slot(T!common_prefix_length(Local.id, target), d)
  BY <1>1, <1>2 DEF Id, T!Id
<1>4. T!Nearer(target, p, q)
  BY <1>3, WAssumption, KAssumption, PeersAssumption, T!SlotIsNearer DEF Id, T!Id
<1> QED BY <1>4 DEF T!Nearer, T!Less, T!Distance, Nearer, Less, Distance

\* An answer of the table is an answer of the abstract one.
LEMMA AnswerIsNearest ==
  ASSUME IInv, NEW target \in Id, NEW n \in Nat
  PROVE  KB!Nearest(target, n, ToSet(nearest_peers(buckets, target, n)))
<1> DEFINE found == Examined(buckets, target, n)
           S == ToSet(nearest_peers(buckets, target, n))
           V == KB!Visible(target, n)
<1>1. found \in Seq(Peers) /\ IsInjective(found) /\ ToSet(found) = V
  BY TableNow, ExaminedIsVisible
<1> HIDE DEF found, V
<1>2. /\ S \subseteq V
      /\ Cardinality(S) = IF n < Len(found) THEN n ELSE Len(found)
      /\ Len(found) <= n => S = V
      /\ \A p \in S, q \in V \ S : ~Nearer(target, q.id, p.id)
  BY <1>1, Truncated, AnswerOfExamined DEF found
<1>3. Len(found) \in Nat
  BY <1>1
<1> HIDE DEF S
<1>4. (S = V \/ Cardinality(S) = n) /\ Cardinality(S) <= n
  BY <1>2, <1>3
<1>5. KB!Cardinality(S) = Cardinality(S)
  BY DEF KB!Cardinality, Cardinality
<1>6. \A p \in S, q \in V \ S : ~KB!Nearer(target, q.id, p.id)
  BY <1>2 DEF KB!Nearer, KB!Less, KB!Distance, Nearer, Less, Distance
<1> QED BY <1>2, <1>4, <1>5, <1>6 DEF KB!Nearest, V, S

(***************************************************************************)
(* The answers of nearest_peers() are answers of the abstract table.       *)
(***************************************************************************)
THEOREM AnswersRefineHolds == Spec => []AnswersRefine
<1>1. IInv => AnswersRefine
  BY AnswerIsNearest, KAssumption DEF AnswersRefine
<1> QED BY <1>1, Invariance, PTL

(***************************************************************************)
(* An answer that the target's bucket suffices for is exact: no known peer *)
(* that it leaves out is nearer to the target than one that it names.      *)
(***************************************************************************)
THEOREM ExactWhenBucketSufficesHolds == Spec => []ExactWhenBucketSuffices
<1>1. IInv => ExactWhenBucketSuffices
  <2> SUFFICES ASSUME IInv, NEW target \in Id, NEW n \in 1..K,
                      Len(buckets[BucketIndex(buckets, target) + 1].peers) >= n
               PROVE  LET S == ToSet(nearest_peers(buckets, target, n))
                      IN  /\ Cardinality(S) = n
                          /\ \A p \in S, q \in Known \ S : ~Nearer(target, q.id, p.id)
    BY DEF ExactWhenBucketSuffices
  <2> DEFINE own == buckets[BucketIndex(buckets, target) + 1].peers
             B == KB!Bucket(KB!Slot(Cpl(target), Len(buckets)), Len(buckets))
             S == ToSet(nearest_peers(buckets, target, n))
  <2>1. n \in Nat
    BY KAssumption
  <2>2. /\ own \in Seq(Peers) /\ IsInjective(own) /\ ToSet(own) = B /\ Len(own) \in Nat
        /\ Examined(buckets, target, n) = own
    BY <2>1, TableNow, ExaminedIsVisible
  <2> HIDE DEF own, B
  <2>3. /\ S \subseteq B
        /\ Cardinality(S) = IF n < Len(own) THEN n ELSE Len(own)
        /\ \A p \in S, q \in B \ S : ~Nearer(target, q.id, p.id)
    BY <2>1, <2>2, Truncated, AnswerOfExamined
  <2> HIDE DEF S
  <2>4. Cardinality(S) = n
    BY <2>1, <2>2, <2>3 DEF own
  <2>5. ASSUME NEW p \in S, NEW q \in Known \ B PROVE ~Nearer(target, q.id, p.id)
    <3>1. p \in Known /\ p \in B
      BY <2>3, Abstraction DEF B
    <3>2. p.id \in Id /\ q.id \in Id /\ Len(buckets) \in Nat \ {0}
      BY <3>1, TableNow, KnownFinite, PrefixType, UnfoldedBuckets
    <3>3. /\ KB!Slot(Cpl(p.id), Len(buckets)) = KB!Slot(Cpl(target), Len(buckets))
          /\ KB!Slot(Cpl(q.id), Len(buckets)) # KB!Slot(Cpl(target), Len(buckets))
      BY <3>1, Abstraction DEF B
    <3>4. Nearer(target, p.id, q.id)
      BY <3>2, <3>3, OwnSlotIsNearer
    <3>5. Distance(p.id, target) \in Id /\ Distance(q.id, target) \in Id
      BY DEF Distance, Id
    <3> QED BY <3>4, <3>5, LessOrder DEF Nearer
  <2> QED BY <2>3, <2>4, <2>5 DEF S
<1> QED BY <1>1, Invariance, PTL
=============================================================================
