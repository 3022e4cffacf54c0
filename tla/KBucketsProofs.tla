--------------------------- MODULE KBucketsProofs ---------------------------
(***************************************************************************)
(* First the shared prefixes and the XOR distance of identifiers, then the *)
(* invariants of KBuckets, for every bucket capacity, identifier width and *)
(* set of peers.  Capacity is inductive once the peers are known to be     *)
(* finitely many.  The other properties rest on two facts about the shape  *)
(* of the table:                                                           *)
(*   - Edge: an unfolding stops one level after a bucket that held K       *)
(*     peers, so one of the last two buckets is never empty;               *)
(*   - Shut: a peer is only refused by a bucket before the last, which is  *)
(*     never split again and never loses a peer.                           *)
(***************************************************************************)
EXTENDS KBuckets, FiniteSetTheorems, WellFoundedInduction, TLAPS
-----------------------------------------------------------------------------
(***************************************************************************)
(* Facts about shared prefixes and the XOR distance.                       *)
(***************************************************************************)

\* The bit positions that leading_zeros counts for a ^ b.
Common(a, b) == {i \in 1..W : \A j \in 1..i : ~Distance(a, b)[j]}

\* A zero bit of a ^ b is a position where a and b agree.
LEMMA XorBit ==
  ASSUME NEW a \in Id, NEW b \in Id, NEW j \in 1..W
  PROVE  ~Distance(a, b)[j] <=> a[j] = b[j]
BY DEF Distance, Id

\* common_prefix_length() returns a number of bits between 0 and the width.
LEMMA CplType ==
  ASSUME NEW a \in Id, NEW b \in Id
  PROVE  common_prefix_length(a, b) \in 0..W
<1>1. IsFiniteSet(1..W) /\ Cardinality(1..W) = W
  BY WAssumption, FS_Interval, SMT
<1>2. Common(a, b) \in SUBSET (1..W)
  BY DEF Common
<1>3. IsFiniteSet(Common(a, b)) /\ Cardinality(Common(a, b)) <= W
  BY <1>1, <1>2, FS_Subset
<1>4. Cardinality(Common(a, b)) \in Nat
  BY <1>3, FS_CardinalityType
<1>5. common_prefix_length(a, b) = Cardinality(Common(a, b))
  BY DEF common_prefix_length, LeadingZeros, Common
<1> QED BY <1>3, <1>4, <1>5, WAssumption

(***************************************************************************)
(* common_prefix_length(a, b) >= n says what its name promises: the first  *)
(* n bits of a and b are the same.                                         *)
(***************************************************************************)
LEMMA CplPrefix ==
  ASSUME NEW a \in Id, NEW b \in Id, NEW n \in 1..W
  PROVE  common_prefix_length(a, b) >= n <=> \A j \in 1..n : a[j] = b[j]
<1> DEFINE C == Common(a, b)
<1>1. common_prefix_length(a, b) = Cardinality(C)
  BY DEF common_prefix_length, LeadingZeros, Common
<1>2. \A m \in 1..W : m \in C <=> \A j \in 1..m : a[j] = b[j]
  <2> SUFFICES ASSUME NEW m \in 1..W
               PROVE  m \in C <=> \A j \in 1..m : a[j] = b[j]
    OBVIOUS
  <2>1. \A j \in 1..m : j \in 1..W
    BY WAssumption
  <2>2. m \in C <=> \A j \in 1..m : ~Distance(a, b)[j]
    BY DEF Common
  <2> QED BY <2>1, <2>2, XorBit
<1>3. C \in SUBSET (1..W)
  BY DEF Common
<1>4. IsFiniteSet(1..W)
  BY WAssumption, FS_Interval, SMT
<1>5. IsFiniteSet(C) /\ Cardinality(C) \in Nat
  BY <1>3, <1>4, FS_Subset, FS_CardinalityType
<1>6. ASSUME n \in C PROVE Cardinality(C) >= n
  <2>1. 1..n \in SUBSET C
    <3> SUFFICES ASSUME NEW m \in 1..n PROVE m \in C
      OBVIOUS
    <3>1. m \in 1..W /\ \A j \in 1..m : j \in 1..n
      BY WAssumption
    <3> QED BY <1>2, <1>6, <3>1
  <2>2. Cardinality(1..n) = n
    BY WAssumption, FS_Interval, SMT
  <2>3. Cardinality(1..n) <= Cardinality(C)
    BY <1>5, <2>1, FS_Subset
  <2> QED BY <2>2, <2>3, <1>5
<1>7. ASSUME n \notin C PROVE ~(Cardinality(C) >= n)
  <2>1. C \in SUBSET (1..(n - 1))
    <3> SUFFICES ASSUME NEW m \in C, m \notin 1..(n - 1) PROVE FALSE
      OBVIOUS
    <3>1. m \in 1..W /\ n \in 1..m
      BY <1>3, WAssumption
    <3>2. \A j \in 1..n : j \in 1..m
      BY <3>1, WAssumption
    <3> QED BY <1>2, <1>7, <3>1, <3>2
  <2>2. IsFiniteSet(1..(n - 1)) /\ Cardinality(1..(n - 1)) = n - 1
    BY WAssumption, FS_Interval, SMT
  <2>3. Cardinality(C) <= n - 1
    BY <2>1, <2>2, FS_Subset
  <2> QED BY <2>3, <1>5, WAssumption
<1> QED BY <1>1, <1>2, <1>6, <1>7

\* Two identifiers with different prefix lengths differ just after the shorter.
LEMMA CplBit ==
  ASSUME NEW a \in Id, NEW b \in Id, common_prefix_length(a, b) < W
  PROVE  LET c == common_prefix_length(a, b)
         IN  /\ c + 1 \in 1..W
             /\ a[c + 1] # b[c + 1]
             /\ \A j \in 1..c : a[j] = b[j]
<1> DEFINE c == common_prefix_length(a, b)
<1>1. c \in 0..W /\ c < W
  BY CplType
<1> HIDE DEF c
<1>2. c + 1 \in 1..W
  BY <1>1, WAssumption
<1>3. \A j \in 1..c : a[j] = b[j]
  <2>1. CASE c = 0
    BY <2>1
  <2>2. CASE c # 0
    BY <1>1, <2>2, WAssumption, CplPrefix DEF c
  <2> QED BY <2>1, <2>2
<1>4. ~(\A j \in 1..(c + 1) : a[j] = b[j])
  <2>1. ~(common_prefix_length(a, b) >= c + 1)
    BY <1>1, WAssumption DEF c
  <2> QED BY <1>2, <2>1, CplPrefix
<1>5. \A j \in 1..(c + 1) : j \in 1..c \/ j = c + 1
  BY <1>1, WAssumption
<1> QED BY <1>2, <1>3, <1>4, <1>5 DEF c

(***************************************************************************)
(* Two peers p and target that share with l at least c + 1 bits, c being   *)
(* the prefix q shares with l, are nearer to each other than q is: the     *)
(* peers of the buckets before the target's are all farther away.          *)
(***************************************************************************)
LEMMA ShallowerIsFarther ==
  ASSUME NEW l \in Id, NEW target \in Id, NEW p \in Id, NEW q \in Id,
         common_prefix_length(l, q) < common_prefix_length(l, p),
         common_prefix_length(l, q) < common_prefix_length(l, target)
  PROVE  Nearer(target, p, q)
<1> DEFINE c == common_prefix_length(l, q)
<1>1. /\ c \in 0..W
      /\ common_prefix_length(l, p) \in 0..W
      /\ common_prefix_length(l, target) \in 0..W
  BY CplType
<1>2. /\ c + 1 \in 1..W
      /\ l[c + 1] # q[c + 1]
      /\ \A j \in 1..c : l[j] = q[j]
  BY <1>1, CplBit, WAssumption
<1>3. /\ \A j \in 1..(c + 1) : l[j] = p[j]
      /\ \A j \in 1..(c + 1) : l[j] = target[j]
  <2>1. /\ common_prefix_length(l, p) >= c + 1
        /\ common_prefix_length(l, target) >= c + 1
    BY <1>1, WAssumption
  <2> QED BY <1>2, <2>1, CplPrefix
<1> HIDE DEF c
<1>4. \A j \in 1..c : j \in 1..(c + 1) /\ j \in 1..W
  BY <1>1, <1>2, WAssumption
<1>5. c + 1 \in 1..(c + 1)
  BY <1>2
<1>6. ~Distance(p, target)[c + 1] /\ Distance(q, target)[c + 1]
  BY <1>2, <1>3, <1>5, XorBit
<1>7. \A j \in 1..((c + 1) - 1) : Distance(p, target)[j] = Distance(q, target)[j]
  <2>1. (c + 1) - 1 = c
    BY <1>1, WAssumption
  <2>2. \A j \in 1..c : p[j] = q[j]
    BY <1>2, <1>3, <1>4
  <2> QED BY <1>4, <2>1, <2>2 DEF Distance
<1> QED BY <1>2, <1>6, <1>7 DEF Nearer, Less

(***************************************************************************)
(* Two peers p and target that share exactly c bits with l are nearer to   *)
(* each other than a q that shares more with l: all three continue after   *)
(* c bits with the one of two possible bits, p and target with the same.   *)
(***************************************************************************)
LEMMA DeeperIsFarther ==
  ASSUME NEW l \in Id, NEW target \in Id, NEW p \in Id, NEW q \in Id,
         common_prefix_length(l, p) = common_prefix_length(l, target),
         common_prefix_length(l, q) > common_prefix_length(l, target)
  PROVE  Nearer(target, p, q)
<1> DEFINE c == common_prefix_length(l, target)
<1>1. c \in 0..W /\ common_prefix_length(l, q) \in 0..W
  BY CplType
<1>2. /\ c + 1 \in 1..W
      /\ l[c + 1] # target[c + 1]
      /\ \A j \in 1..c : l[j] = target[j]
  BY <1>1, CplBit, WAssumption
<1>3. l[c + 1] # p[c + 1] /\ \A j \in 1..c : l[j] = p[j]
  BY <1>1, CplBit, WAssumption
<1>4. \A j \in 1..(c + 1) : l[j] = q[j]
  <2>1. common_prefix_length(l, q) >= c + 1
    BY <1>1, WAssumption
  <2> QED BY <1>2, <2>1, CplPrefix
<1> HIDE DEF c
<1>5. \A j \in 1..c : j \in 1..(c + 1) /\ j \in 1..W
  BY <1>1, <1>2, WAssumption
<1>6. c + 1 \in 1..(c + 1)
  BY <1>2
<1>7. ~Distance(p, target)[c + 1] /\ Distance(q, target)[c + 1]
  <2>1. /\ l[c + 1] \in BOOLEAN /\ p[c + 1] \in BOOLEAN /\ target[c + 1] \in BOOLEAN
    BY <1>2 DEF Id
  <2>2. p[c + 1] = target[c + 1]
    BY <1>2, <1>3, <2>1
  <2>3. q[c + 1] # target[c + 1]
    BY <1>2, <1>4, <1>6
  <2> QED BY <1>2, <2>2, <2>3, XorBit
<1>8. \A j \in 1..((c + 1) - 1) : Distance(p, target)[j] = Distance(q, target)[j]
  <2>1. (c + 1) - 1 = c
    BY <1>1, WAssumption
  <2>2. \A j \in 1..c : p[j] = q[j]
    BY <1>3, <1>4, <1>5
  <2> QED BY <1>5, <2>1, <2>2 DEF Distance
<1> QED BY <1>2, <1>7, <1>8 DEF Nearer, Less

(***************************************************************************)
(* No identifier is as near to a target as the target itself.              *)
(***************************************************************************)
LEMMA TargetIsNearest ==
  ASSUME NEW target \in Id, NEW q \in Id, q # target
  PROVE  Nearer(target, target, q)
<1> DEFINE c == common_prefix_length(q, target)
<1>1. c \in 0..W
  BY CplType
<1>2. c < W
  <2> SUFFICES ASSUME ~(c < W) PROVE FALSE
    OBVIOUS
  <2>1. PICK j \in 1..W : q[j] # target[j]
    <3>1. q = [j \in 1..W |-> q[j]] /\ target = [j \in 1..W |-> target[j]]
      BY DEF Id
    <3> QED BY <3>1
  <2>2. W \in 1..W /\ c >= W
    BY <1>1, <2>1, WAssumption
  <2>3. \A i \in 1..W : q[i] = target[i]
    BY <2>2, CplPrefix
  <2> QED BY <2>1, <2>3
<1>3. /\ c + 1 \in 1..W /\ q[c + 1] # target[c + 1]
      /\ \A j \in 1..c : q[j] = target[j]
  BY <1>2, CplBit
<1>4. Distance(target, target)[c + 1] = FALSE /\ Distance(q, target)[c + 1] = TRUE
  BY <1>3 DEF Distance
<1>5. \A j \in 1..((c + 1) - 1) : Distance(target, target)[j] = Distance(q, target)[j]
  <2> SUFFICES ASSUME NEW j \in 1..c
               PROVE  Distance(target, target)[j] = Distance(q, target)[j]
    BY <1>1, WAssumption
  <2>1. j \in 1..W
    BY <1>1, WAssumption
  <2> QED BY <1>3, <2>1 DEF Distance
<1> HIDE DEF c
<1> QED BY <1>3, <1>4, <1>5 DEF Nearer, Less
-----------------------------------------------------------------------------
(***************************************************************************)
(* The table.                                                              *)
(***************************************************************************)

\* One of the last two buckets holds a peer, unless there is only one bucket.
Edge == depth > 1 => \E q \in known : Cpl(q) >= depth - 2

\* The peers whose prefix has exactly the length c.
Level(c) == {q \in known : Cpl(q) = c}

\* A refused peer belongs to a full bucket that is not the last.
Shut ==
  \A p \in refused : /\ p \notin known
                     /\ Cpl(p) < depth - 1
                     /\ Cardinality(Level(Cpl(p))) >= K

\* The inductive invariant.
IInv == TypeOK /\ Capacity /\ Edge /\ Shut
-----------------------------------------------------------------------------
\* A peer shares between 0 and W bits with the local one.
LEMMA PeerCpl == ASSUME NEW p \in Peers PROVE Cpl(p) \in 0..W
BY PeersAssumption, CplType DEF Cpl

\* Subsets of a finite table are finite, and counted by natural numbers.
LEMMA CountedSubset ==
  ASSUME NEW S, NEW T \in SUBSET S, IsFiniteSet(S)
  PROVE  IsFiniteSet(T) /\ Cardinality(T) \in Nat /\ Cardinality(T) <= Cardinality(S)
BY FS_Subset, FS_CardinalityType

\* What bucket a peer is in, in terms of its prefix length.
LEMMA SlotCases ==
  ASSUME NEW c \in Nat, NEW d \in Nat \ {0}, NEW i \in 0..(d - 1)
  PROVE  Slot(c, d) = i <=> IF i < d - 1 THEN c = i ELSE c >= d - 1
BY DEF Slot

\* The buckets of a table with d buckets: one level each, the last the rest.
LEMMA BucketCases ==
  ASSUME TypeOK, NEW d \in Nat \ {0}, NEW i \in 0..(d - 1)
  PROVE  Bucket(i, d) = IF i < d - 1 THEN Level(i) ELSE From(d - 1)
<1>1. \A q \in known : Cpl(q) \in Nat
  BY PeerCpl, WAssumption DEF TypeOK
<1>2. \A q \in known : Slot(Cpl(q), d) = i <=>
                         IF i < d - 1 THEN Cpl(q) = i ELSE Cpl(q) >= d - 1
  BY <1>1, SlotCases
<1> QED BY <1>2 DEF Bucket, Level, From

(***************************************************************************)
(* An identifier of the target's slot is nearer to the target than one of  *)
(* any other slot.                                                         *)
(***************************************************************************)
LEMMA SlotIsNearer ==
  ASSUME NEW target \in Id, NEW p \in Id, NEW q \in Id, NEW d \in Nat \ {0},
         Slot(common_prefix_length(Local.id, p), d)
           = Slot(common_prefix_length(Local.id, target), d),
         Slot(common_prefix_length(Local.id, q), d)
           # Slot(common_prefix_length(Local.id, target), d)
  PROVE  Nearer(target, p, q)
<1> DEFINE t == common_prefix_length(Local.id, target)
           cp == common_prefix_length(Local.id, p)
           cq == common_prefix_length(Local.id, q)
<1>1. Local.id \in Id
  BY PeersAssumption
<1>2. t \in 0..W /\ cp \in 0..W /\ cq \in 0..W
  BY <1>1, CplType
<1>3. (cq < cp /\ cq < t) \/ (cp = t /\ cq > t)
  <2> HIDE DEF t, cp, cq
  <2>1. Slot(cp, d) = Slot(t, d) /\ Slot(cq, d) # Slot(t, d)
    BY DEF t, cp, cq
  <2> QED BY <1>2, <2>1, WAssumption DEF Slot
<1>4. CASE cq < cp /\ cq < t
  BY <1>1, <1>4, ShallowerIsFarther
<1>5. CASE cp = t /\ cq > t
  BY <1>1, <1>5, DeeperIsFarther
<1> QED BY <1>3, <1>4, <1>5

\* Slot() yields the index of an existing bucket.
LEMMA SlotType ==
  ASSUME NEW c \in Nat, NEW d \in Nat \ {0}
  PROVE  Slot(c, d) \in 0..(d - 1)
BY DEF Slot
-----------------------------------------------------------------------------
\* The table starts with one empty bucket.
LEMMA InitIInv == Init => IInv
<1> SUFFICES ASSUME Init PROVE IInv
  OBVIOUS
<1> USE DEF Init
<1>1. TypeOK
  BY FS_EmptySet DEF TypeOK
<1>2. Capacity
  <2>1. \A i \in 0..(depth - 1) : Bucket(i, depth) = {}
    BY DEF Bucket
  <2> QED BY <2>1, FS_EmptySet, KAssumption DEF Capacity
<1>3. Edge /\ Shut
  BY DEF Edge, Shut
<1> QED BY <1>1, <1>2, <1>3 DEF IInv

\* One more peer leaves a set of known peers finite.
LEMMA AddedFinite ==
  ASSUME TypeOK, NEW p \in Peers
  PROVE  IsFiniteSet(known \cup {p}) /\ known \cup {p} \in SUBSET Peers
BY FS_AddElement DEF TypeOK

(***************************************************************************)
(* Adding p to a table of d buckets, none above K and p's own below K,     *)
(* leaves no bucket above K.                                               *)
(***************************************************************************)
LEMMA AddedCapacity ==
  ASSUME TypeOK, NEW p \in Peers, NEW d \in Nat \ {0}, p \notin known,
         \A i \in 0..(d - 1) : Cardinality(Bucket(i, d)) <= K,
         ~Full(Slot(Cpl(p), d), d),
         known' = known \cup {p}, depth' = d
  PROVE  Capacity'
<1> SUFFICES ASSUME NEW i \in 0..(d - 1)
             PROVE  Cardinality(Bucket(i, depth)') <= K
  BY DEF Capacity, Bucket
<1>1. Bucket(i, d) \in SUBSET known
  BY DEF Bucket
<1>2. IsFiniteSet(Bucket(i, d)) /\ Cardinality(Bucket(i, d)) \in Nat
  BY <1>1, CountedSubset DEF TypeOK
<1>3. CASE i = Slot(Cpl(p), d)
  <2>1. Bucket(i, depth)' = Bucket(i, d) \cup {p}
    BY <1>3 DEF Bucket
  <2>2. Cardinality(Bucket(i, d)) < K
    BY <1>2, <1>3, KAssumption DEF Full
  <2>3. p \notin Bucket(i, d)
    BY <1>1
  <2>4. Cardinality(Bucket(i, d) \cup {p}) = Cardinality(Bucket(i, d)) + 1
    BY <1>2, <2>3, FS_AddElement
  <2> QED BY <1>2, <2>1, <2>2, <2>4, KAssumption
<1>4. CASE i # Slot(Cpl(p), d)
  <2>1. Bucket(i, depth)' = Bucket(i, d)
    BY <1>4 DEF Bucket
  <2> QED BY <2>1
<1> QED BY <1>3, <1>4

(***************************************************************************)
(* Adding p, whose bucket among d >= depth has room, reopens no bucket     *)
(* that refused a peer; in particular p was not refused before.            *)
(***************************************************************************)
LEMMA AddedShut ==
  ASSUME TypeOK, Shut, NEW p \in Peers, NEW d \in Nat \ {0}, d >= depth,
         ~Full(Slot(Cpl(p), d), d),
         known' = known \cup {p}, depth' = d, refused' = refused
  PROVE  Shut'
<1> SUFFICES ASSUME NEW r \in refused
             PROVE  /\ r \notin known'
                    /\ Cpl(r) < depth' - 1
                    /\ Cardinality(Level(Cpl(r))') >= K
  BY DEF Shut
<1>1. Cpl(r) \in Nat /\ Cpl(r) \in 0..(d - 1) /\ Cpl(r) < d - 1
  BY PeerCpl, WAssumption DEF Shut, TypeOK
<1>2. Slot(Cpl(r), d) = Cpl(r)
  BY <1>1 DEF Slot
<1>3. Bucket(Cpl(r), d) = Level(Cpl(r))
  BY <1>1, BucketCases
<1>4. r # p
  BY <1>2, <1>3 DEF Shut, Full
<1>5. Level(Cpl(r)) \in SUBSET (Level(Cpl(r))')
  BY DEF Level
<1>6. Level(Cpl(r))' \in SUBSET (known \cup {p})
  BY DEF Level
<1>7. IsFiniteSet(Level(Cpl(r))') /\ Cardinality(Level(Cpl(r))') \in Nat
  BY <1>6, AddedFinite, CountedSubset
<1>8. /\ Cardinality(Level(Cpl(r))) \in Nat
      /\ Cardinality(Level(Cpl(r))) <= Cardinality(Level(Cpl(r))')
  BY <1>5, <1>7, CountedSubset
<1>9. Cardinality(Level(Cpl(r))') >= K
  BY <1>7, <1>8, KAssumption DEF Shut
<1> QED BY <1>1, <1>4, <1>9 DEF Shut
-----------------------------------------------------------------------------
\* update() of a peer whose bucket has room.
LEMMA InsertIInv ==
  ASSUME IInv, NEW p \in Peers, Insert(p)
  PROVE  IInv'
<1> USE DEF IInv, Insert
<1>1. TypeOK'
  BY AddedFinite DEF TypeOK
<1>2. Capacity'
  BY AddedCapacity DEF Capacity, TypeOK
<1>3. Edge'
  BY DEF Edge
<1>4. Shut'
  BY AddedShut DEF TypeOK
<1> QED BY <1>1, <1>2, <1>3, <1>4

\* update() of a peer whose bucket is full and not the last.
LEMMA RefuseIInv ==
  ASSUME IInv, NEW p \in Peers, Refuse(p)
  PROVE  IInv'
<1> USE DEF IInv, Refuse
<1>1. TypeOK'
  BY DEF TypeOK
<1>2. Capacity' /\ Edge'
  BY DEF Capacity, Bucket, Edge
<1>3. Shut'
  <2>1. Cpl(p) \in Nat /\ depth \in Nat \ {0}
    BY PeerCpl, WAssumption DEF TypeOK
  <2>2. Cpl(p) < depth - 1 /\ Slot(Cpl(p), depth) = Cpl(p)
    BY <2>1 DEF Slot
  <2>3. Bucket(Cpl(p), depth) = Level(Cpl(p))
    BY <2>1, <2>2, BucketCases
  <2>4. Cardinality(Level(Cpl(p))) >= K
    BY <2>2, <2>3 DEF Full
  <2> QED BY <2>2, <2>4 DEF Shut, Level
<1> QED BY <1>1, <1>2, <1>3

(***************************************************************************)
(* After unfolding to d buckets no bucket is above K: the buckets before   *)
(* the old last one are the same, the others share out its peers.          *)
(***************************************************************************)
LEMMA UnfoldedCapacity ==
  ASSUME IInv, NEW d \in Nat \ {0}, d > depth, NEW i \in 0..(d - 1)
  PROVE  Cardinality(Bucket(i, d)) <= K
<1>0. TypeOK /\ depth \in Nat \ {0}
  BY DEF IInv, TypeOK
<1>1. CASE i < depth - 1
  <2>1. i \in 0..(depth - 1)
    BY <1>0, <1>1
  <2>2. Bucket(i, d) = Bucket(i, depth)
    BY <1>0, <1>1, <2>1, BucketCases
  <2> QED BY <2>1, <2>2 DEF IInv, Capacity
<1>2. CASE i >= depth - 1
  <2>1. depth - 1 \in 0..(depth - 1)
    BY <1>0
  <2>2. Bucket(depth - 1, depth) = From(depth - 1)
    BY <1>0, <2>1, BucketCases
  <2>3. \A q \in known : Cpl(q) \in Nat
    BY <1>0, PeerCpl, WAssumption DEF TypeOK
  <2>4. Bucket(i, d) \in SUBSET From(depth - 1)
    BY <1>0, <1>2, <2>3, BucketCases DEF Level, From
  <2>5. From(depth - 1) \in SUBSET known
    BY DEF From
  <2>6. /\ IsFiniteSet(From(depth - 1))
        /\ Cardinality(From(depth - 1)) \in Nat
    BY <1>0, <2>5, CountedSubset DEF TypeOK
  <2>7. /\ Cardinality(Bucket(i, d)) \in Nat
        /\ Cardinality(Bucket(i, d)) <= Cardinality(From(depth - 1))
    BY <2>4, <2>6, CountedSubset
  <2>8. Cardinality(From(depth - 1)) <= K
    BY <2>1, <2>2 DEF IInv, Capacity
  <2> QED BY <2>6, <2>7, <2>8, KAssumption
<1> QED BY <1>0, <1>1, <1>2

\* An unfolding goes one level past a bucket that held K peers.
LEMMA UnfoldedEdge ==
  ASSUME IInv, NEW d, Unfolded(d), Full(depth - 1, depth)
  PROVE  \E q \in known : Cpl(q) >= d - 2
<1>0. /\ TypeOK /\ depth \in Nat \ {0}
      /\ d \in Nat /\ d > depth
  BY WAssumption DEF IInv, TypeOK, Unfolded
<1>1. Cardinality(From(d - 2)) >= K
  <2>1. CASE d - 1 = depth
    <3>1. Bucket(depth - 1, depth) = From(depth - 1)
      BY <1>0, BucketCases
    <3>2. d - 2 = depth - 1
      BY <1>0, <2>1
    <3> QED BY <3>1, <3>2 DEF Full
  <2>2. CASE d - 1 # depth
    <3>1. d - 1 \in (depth + 1)..(d - 1) /\ (d - 1) - 1 = d - 2
      BY <1>0, <2>2
    <3> QED BY <3>1 DEF Unfolded
  <2> QED BY <2>1, <2>2
<1>2. From(d - 2) # {}
  BY <1>1, FS_EmptySet, KAssumption
<1> QED BY <1>2 DEF From

\* update() of a peer whose bucket is the last one, and full.
LEMMA UnfoldIInv ==
  ASSUME IInv, NEW p \in Peers, Unfold(p)
  PROVE  IInv'
<1>0. TypeOK /\ depth \in Nat \ {0} /\ Shut /\ p \notin known
  BY DEF IInv, TypeOK, Unfold
<1>1. PICK d \in (depth + 1)..(depth + W + 2) :
        /\ Unfolded(d)
        /\ depth' = d
        /\ \/ /\ Full(Slot(Cpl(p), d), d)
              /\ refused' = refused \cup {p}
              /\ UNCHANGED known
           \/ /\ ~Full(Slot(Cpl(p), d), d)
              /\ known' = known \cup {p}
              /\ UNCHANGED refused
  BY DEF Unfold
<1>2. d \in Nat \ {0} /\ d > depth /\ d >= depth
  BY <1>0, <1>1, WAssumption
<1>3. \A i \in 0..(d - 1) : Cardinality(Bucket(i, d)) <= K
  BY <1>2, UnfoldedCapacity
<1>4. \E q \in known : Cpl(q) >= d - 2
  BY <1>1, UnfoldedEdge DEF Unfold
<1>5. CASE Full(Slot(Cpl(p), d), d) /\ refused' = refused \cup {p} /\ known' = known
  <2>1. TypeOK'
    BY <1>0, <1>1, <1>2, <1>5 DEF TypeOK
  <2>2. Capacity'
    BY <1>1, <1>3, <1>5 DEF Capacity, Bucket
  <2>3. Edge'
    BY <1>1, <1>4, <1>5 DEF Edge
  <2>4. Cpl(p) < d - 1 /\ Cardinality(Level(Cpl(p))) >= K
    <3>1. Cpl(p) \in Nat
      BY PeerCpl, WAssumption
    <3>2. Cpl(p) < d - 1
      <4> SUFFICES ASSUME ~(Cpl(p) < d - 1) PROVE FALSE
        OBVIOUS
      <4>1. Slot(Cpl(p), d) = d - 1
        BY <1>2, <3>1 DEF Slot
      <4>2. Bucket(d - 1, d) = From(d - 1)
        BY <1>0, <1>2, BucketCases
      <4>3. Cardinality(From(d - 1)) >= K /\ Cardinality(From(d - 1)) < K
        BY <1>1, <1>5, <4>1, <4>2 DEF Full, Unfolded
      <4>4. Cardinality(From(d - 1)) \in Nat
        BY <1>0, CountedSubset DEF From, TypeOK
      <4> QED BY <4>3, <4>4, KAssumption
    <3>3. Slot(Cpl(p), d) = Cpl(p) /\ Bucket(Cpl(p), d) = Level(Cpl(p))
      BY <1>0, <1>2, <3>1, <3>2, BucketCases DEF Slot
    <3> QED BY <1>5, <3>2, <3>3 DEF Full
  <2>5. \A r \in refused : Cpl(r) < d - 1
    <3>1. \A r \in refused : Cpl(r) \in Nat
      BY <1>0, PeerCpl, WAssumption DEF TypeOK
    <3> QED BY <1>0, <1>2, <3>1 DEF Shut
  <2>6. Shut'
    BY <1>0, <1>1, <1>5, <2>4, <2>5 DEF Shut, Level
  <2> QED BY <2>1, <2>2, <2>3, <2>6 DEF IInv
<1>6. CASE ~Full(Slot(Cpl(p), d), d) /\ known' = known \cup {p} /\ refused' = refused
  <2>1. TypeOK'
    BY <1>0, <1>1, <1>2, <1>6, AddedFinite DEF TypeOK
  <2>2. Capacity'
    BY <1>0, <1>1, <1>2, <1>3, <1>6, AddedCapacity
  <2>3. Edge'
    BY <1>1, <1>4, <1>6 DEF Edge
  <2>4. Shut'
    BY <1>0, <1>1, <1>2, <1>6, AddedShut
  <2> QED BY <2>1, <2>2, <2>3, <2>4 DEF IInv
<1> QED BY <1>1, <1>5, <1>6

\* Every step keeps the inductive invariant.
LEMMA NextIInv == IInv /\ [Next]_vars => IInv'
<1> SUFFICES ASSUME IInv, [Next]_vars PROVE IInv'
  OBVIOUS
<1>1. ASSUME UNCHANGED vars PROVE IInv'
  BY <1>1 DEF vars, IInv, TypeOK, Capacity, Bucket, Edge, Shut, Level
<1>2. ASSUME NEW p \in Peers, Touch(p) PROVE IInv'
  BY <1>1, <1>2 DEF Touch
<1>3. ASSUME NEW p \in Peers, Insert(p) PROVE IInv'
  BY <1>3, InsertIInv
<1>4. ASSUME NEW p \in Peers, Unfold(p) PROVE IInv'
  BY <1>4, UnfoldIInv
<1>5. ASSUME NEW p \in Peers, Refuse(p) PROVE IInv'
  BY <1>5, RefuseIInv
<1> QED BY <1>1, <1>2, <1>3, <1>4, <1>5 DEF Next, Update

\* The inductive invariant holds in every reachable state.
LEMMA Invariance == Spec => []IInv
BY InitIInv, NextIInv, PTL DEF Spec
-----------------------------------------------------------------------------
\* update() forgets nobody, and either records the peer or refuses it.
LEMMA UpdateRecords ==
  ASSUME NEW p, Update(p)
  PROVE  known \subseteq known' /\ refused \subseteq refused' /\ p \in known' \cup refused'
BY DEF Update, Touch, Insert, Unfold, Refuse, vars

(***************************************************************************)
(* A known peer is in every answer for its own identifier: only peers with *)
(* the same identifier are as near, they share its bucket, and no bucket   *)
(* holds more than K peers.                                                *)
(***************************************************************************)
LEMMA OwnIdAnswered ==
  ASSUME IInv, NEW p \in known, NEW S, Nearest(p.id, K, S)
  PROVE  p \in S
<1> SUFFICES ASSUME p \notin S PROVE FALSE
  OBVIOUS
<1> DEFINE i == Slot(Cpl(p), depth)
<1>1. /\ TypeOK /\ depth \in Nat \ {0} /\ p \in Peers
      /\ \A q \in known : q.id \in Id /\ Cpl(q) \in Nat
  BY PeerCpl, PeersAssumption, WAssumption DEF IInv, TypeOK
<1>2. i \in 0..(depth - 1) /\ p \in Bucket(i, depth)
  BY <1>1, SlotType DEF Bucket
<1> HIDE DEF i
<1>3. /\ S \subseteq Visible(p.id, K)
      /\ Bucket(i, depth) \subseteq Visible(p.id, K) /\ Visible(p.id, K) \subseteq known
  BY DEF Nearest, Visible, Bucket, i, Cpl
<1>4. Cardinality(S) = K
  BY <1>2, <1>3 DEF Nearest
<1>5. \A q \in S : q.id = p.id
  <2> SUFFICES ASSUME NEW q \in S, q.id # p.id PROVE FALSE
    OBVIOUS
  <2>1. Nearer(p.id, p.id, q.id)
    BY <1>1, <1>3, TargetIsNearest
  <2> QED BY <1>2, <1>3, <2>1 DEF Nearest
<1>6. S \cup {p} \subseteq Bucket(i, depth)
  BY <1>2, <1>3, <1>5 DEF Bucket, Cpl
<1>7. IsFiniteSet(Bucket(i, depth)) /\ Cardinality(Bucket(i, depth)) <= K
  BY <1>1, <1>2, CountedSubset DEF IInv, TypeOK, Capacity, Bucket
<1>8. IsFiniteSet(S) /\ Cardinality(S \cup {p}) = Cardinality(S) + 1
  BY <1>6, <1>7, CountedSubset, FS_AddElement
<1>9. Cardinality(S \cup {p}) <= Cardinality(Bucket(i, depth))
  BY <1>6, <1>7, CountedSubset
<1>10. Cardinality(Bucket(i, depth)) \in Nat
  BY <1>7, FS_CardinalityType
<1> QED BY <1>4, <1>7, <1>8, <1>9, <1>10, KAssumption
-----------------------------------------------------------------------------
(***************************************************************************)
(* What the code computes is always there: a number of levels at which an  *)
(* unfolding stops, and an answer to every question for nearest peers.     *)
(***************************************************************************)

\* A nonempty set of natural numbers has a least element.
LEMMA LeastExists ==
  ASSUME NEW B \in SUBSET Nat, B # {}
  PROVE  \E m \in B : \A y \in B : m <= y
<1>1. PICK m \in B : \A y \in B : ~(<<y, m>> \in OpToRel(<, Nat))
  BY NatLessThanWellFounded, WFMin
<1>2. ASSUME NEW y \in B PROVE m <= y
  <2>1. y \in Nat /\ m \in Nat
    OBVIOUS
  <2>2. ~(y < m)
    BY <1>1, <2>1 DEF OpToRel
  <2> QED BY <2>1, <2>2
<1> QED BY <1>2

\* No peer lies beyond level W: an unfolding can always stop there.
LEMMA UnfoldingStops ==
  ASSUME TypeOK
  PROVE  \E d \in (depth + 1)..(depth + W + 2) :
           Unfolded(d) /\ \A e \in (depth + 1)..(depth + W + 2) : Unfolded(e) => e = d
<1> DEFINE Levels == (depth + 1)..(depth + W + 2)
           B == {d \in Levels : Cardinality(From(d - 1)) < K}
<1>1. depth \in Nat \ {0} /\ W \in Nat /\ Levels \in SUBSET Nat
  BY WAssumption DEF TypeOK
<1>2. depth + W + 2 \in B
  <2>1. \A q \in known : Cpl(q) \in 0..W
    BY PeerCpl DEF TypeOK
  <2>2. From((depth + W + 2) - 1) = {}
    BY <1>1, <2>1 DEF From
  <2>3. Cardinality(From((depth + W + 2) - 1)) = 0
    BY <2>2, FS_EmptySet
  <2>4. depth + W + 2 \in Levels
    BY <1>1
  <2> QED BY <2>3, <2>4, KAssumption
<1>3. PICK d \in B : \A e \in B : d <= e
  <2>1. B \in SUBSET Nat
    BY <1>1
  <2> HIDE DEF B
  <2> QED BY <1>2, <2>1, LeastExists
<1>4. \A e \in Levels : Cardinality(From(e - 1)) \in Nat
  BY CountedSubset DEF From, TypeOK
<1>5. \A e \in (depth + 1)..(d - 1) : Cardinality(From(e - 1)) >= K
  <2> SUFFICES ASSUME NEW e \in (depth + 1)..(d - 1) PROVE Cardinality(From(e - 1)) >= K
    OBVIOUS
  <2>1. e \in Levels /\ ~(d <= e)
    BY <1>1
  <2>2. ~(Cardinality(From(e - 1)) < K)
    BY <1>3, <2>1
  <2>3. Cardinality(From(e - 1)) \in Nat
    BY <1>4, <2>1
  <2> QED BY <2>2, <2>3, KAssumption
<1>6. d \in Levels /\ Cardinality(From(d - 1)) < K
  OBVIOUS
<1>7. Unfolded(d)
  BY <1>5, <1>6 DEF Unfolded
<1>8. ASSUME NEW e \in Levels, Unfolded(e) PROVE e = d
  <2>1. e \in B
    BY <1>8 DEF Unfolded
  <2>2. d <= e
    BY <1>3, <2>1
  <2>3. CASE d < e
    <3>1. d \in (depth + 1)..(e - 1)
      BY <1>1, <1>6, <1>8, <2>3
    <3>2. Cardinality(From(d - 1)) >= K
      BY <1>8, <3>1 DEF Unfolded
    <3> QED BY <1>4, <1>6, <3>2, KAssumption
  <2> QED BY <1>1, <1>6, <1>8, <2>2, <2>3
<1> QED BY <1>6, <1>7, <1>8

\* Being nearer to a target is a strict order.
LEMMA NearerOrder ==
  ASSUME NEW target \in Id, NEW x \in Id, NEW y \in Id, NEW z \in Id
  PROVE  /\ ~Nearer(target, x, x)
         /\ Nearer(target, x, y) /\ Nearer(target, y, z) => Nearer(target, x, z)
<1>1. ~Nearer(target, x, x)
  BY DEF Nearer, Less
<1>2. ASSUME Nearer(target, x, y), Nearer(target, y, z) PROVE Nearer(target, x, z)
  <2> DEFINE a == Distance(x, target)
             b == Distance(y, target)
             c == Distance(z, target)
  <2>1. PICK i \in 1..W : ~a[i] /\ b[i] /\ \A k \in 1..(i-1) : a[k] = b[k]
    BY <1>2 DEF Nearer, Less
  <2>2. PICK j \in 1..W : ~b[j] /\ c[j] /\ \A k \in 1..(j-1) : b[k] = c[k]
    BY <1>2 DEF Nearer, Less
  <2> HIDE DEF a, b, c
  <2>3. CASE i < j
    <3>1. i \in 1..(j - 1) /\ \A k \in 1..(i - 1) : k \in 1..(j - 1)
      BY <2>3, WAssumption
    <3>2. ~a[i] /\ c[i] /\ \A k \in 1..(i-1) : a[k] = c[k]
      BY <2>1, <2>2, <3>1
    <3> QED BY <3>2 DEF Nearer, Less, a, c
  <2>4. CASE j < i
    <3>1. j \in 1..(i - 1) /\ \A k \in 1..(j - 1) : k \in 1..(i - 1)
      BY <2>4, WAssumption
    <3>2. ~a[j] /\ c[j] /\ \A k \in 1..(j-1) : a[k] = c[k]
      BY <2>1, <2>2, <3>1
    <3> QED BY <3>2 DEF Nearer, Less, a, c
  <2>5. i # j
    BY <2>1, <2>2
  <2> QED BY <2>3, <2>4, <2>5, WAssumption
<1> QED BY <1>1, <1>2

\* Of finitely many peers one is nearest: nobody is ahead of it.
LEMMA NearestPeer ==
  ASSUME NEW T, IsFiniteSet(T), T # {}, \A q \in T : q.id \in Id, NEW target \in Id
  PROVE  \E p \in T : \A q \in T : ~Nearer(target, q.id, p.id)
<1> DEFINE Ahead(p) == {q \in T : Nearer(target, q.id, p.id)}
           B == {Cardinality(Ahead(p)) : p \in T}
<1>1. \A p \in T : IsFiniteSet(Ahead(p)) /\ Cardinality(Ahead(p)) \in Nat
  BY CountedSubset
<1>2. PICK p \in T : \A q \in T : Cardinality(Ahead(p)) <= Cardinality(Ahead(q))
  <2>1. B \in SUBSET Nat /\ B # {}
    <3> HIDE DEF Ahead
    <3> QED BY <1>1
  <2>2. PICK m \in B : \A y \in B : m <= y
    <3> HIDE DEF B
    <3> QED BY <2>1, LeastExists
  <2> HIDE DEF Ahead
  <2> QED BY <2>2
<1>3. ASSUME NEW q \in T, Nearer(target, q.id, p.id) PROVE FALSE
  <2>1. Ahead(q) \subseteq Ahead(p) \ {q}
    <3> SUFFICES ASSUME NEW r \in Ahead(q) PROVE r \in Ahead(p) /\ r # q
      OBVIOUS
    <3>1. r \in T /\ Nearer(target, r.id, q.id)
      OBVIOUS
    <3>2. r.id \in Id /\ q.id \in Id /\ p.id \in Id
      BY <3>1
    <3> QED BY <1>3, <3>1, <3>2, NearerOrder
  <2>2. q \in Ahead(p)
    BY <1>3
  <2> HIDE DEF Ahead
  <2>3. /\ IsFiniteSet(Ahead(p) \ {q})
        /\ Cardinality(Ahead(p) \ {q}) = Cardinality(Ahead(p)) - 1
    BY <1>1, <2>2, FS_RemoveElement
  <2>4. Cardinality(Ahead(q)) <= Cardinality(Ahead(p) \ {q})
    BY <2>1, <2>3, CountedSubset
  <2> QED BY <1>1, <1>2, <2>3, <2>4
<1> QED BY <1>3

\* S holds the m nearest peers of V, or all of V.
IsNearest(S, V, target, m) ==
  /\ S \subseteq V
  /\ S = V \/ Cardinality(S) = m
  /\ Cardinality(S) <= m
  /\ \A p \in S, q \in V \ S : ~Nearer(target, q.id, p.id)

LEMMA NearestExists ==
  ASSUME NEW V, IsFiniteSet(V), \A q \in V : q.id \in Id, NEW target \in Id, NEW n \in Nat
  PROVE  \E S : IsNearest(S, V, target, n)
<1> DEFINE Bad == {m \in Nat : ~\E S : IsNearest(S, V, target, m)}
<1> SUFFICES ASSUME Bad # {} PROVE FALSE
  OBVIOUS
<1>1. PICK m \in Bad : \A y \in Bad : m <= y
  <2>1. Bad \in SUBSET Nat
    OBVIOUS
  <2> HIDE DEF Bad
  <2> QED BY <2>1, LeastExists
<1>2. CASE m = 0
  <2>1. IsNearest({}, V, target, 0)
    BY FS_EmptySet DEF IsNearest
  <2> QED BY <1>2, <2>1
<1>3. CASE m # 0
  <2>1. m - 1 \in Nat /\ m - 1 \notin Bad
    BY <1>1, <1>3
  <2>2. PICK S : IsNearest(S, V, target, m - 1)
    BY <2>1
  <2>3. IsFiniteSet(S) /\ Cardinality(S) \in Nat /\ S \subseteq V
    BY <2>2, CountedSubset DEF IsNearest
  <2>4. CASE S = V
    <3>1. IsNearest(S, V, target, m)
      BY <2>1, <2>2, <2>3, <2>4 DEF IsNearest
    <3> QED BY <3>1
  <2>5. CASE S # V
    <3>1. IsFiniteSet(V \ S) /\ V \ S # {}
      BY <2>3, <2>5, CountedSubset
    <3>2. PICK p \in V \ S : \A q \in V \ S : ~Nearer(target, q.id, p.id)
      <4>1. \A q \in V \ S : q.id \in Id
        OBVIOUS
      <4> QED BY <3>1, <4>1, NearestPeer
    <3>3. Cardinality(S \cup {p}) = m
      <4>1. Cardinality(S) = m - 1
        BY <2>2, <2>5 DEF IsNearest
      <4>2. Cardinality(S \cup {p}) = Cardinality(S) + 1
        BY <2>3, FS_AddElement
      <4> QED BY <2>1, <4>1, <4>2
    <3>4. ASSUME NEW r \in S \cup {p}, NEW q \in V \ (S \cup {p})
          PROVE  ~Nearer(target, q.id, r.id)
      BY <2>2, <3>2 DEF IsNearest
    <3>5. IsNearest(S \cup {p}, V, target, m)
      BY <2>3, <3>3, <3>4 DEF IsNearest
    <3> QED BY <3>5
  <2> QED BY <2>4, <2>5
<1> QED BY <1>2, <1>3

\* Whatever is asked for, some set of known peers is an answer.
LEMMA AnswerExists ==
  ASSUME TypeOK, NEW target \in Id, NEW n \in Nat
  PROVE  \E S \in SUBSET Peers : Nearest(target, n, S)
<1> DEFINE V == Visible(target, n)
<1>1. V \in SUBSET known
  BY DEF Visible, Bucket
<1>2. IsFiniteSet(V) /\ V \subseteq Peers
  BY <1>1, CountedSubset DEF TypeOK
<1> HIDE DEF V
<1>3. \A q \in V : q.id \in Id
  BY <1>2, PeersAssumption
<1>4. PICK S : IsNearest(S, V, target, n)
  BY <1>2, <1>3, NearestExists
<1> QED BY <1>2, <1>4 DEF IsNearest, Nearest, V
-----------------------------------------------------------------------------
\* The variables of the table keep their types, and it stays finite.
THEOREM TypeCorrect == Spec => []TypeOK
BY Invariance, PTL DEF IInv

(***************************************************************************)
(* No interleaving of contacts and unfoldings puts more than K peers into  *)
(* a bucket.                                                               *)
(***************************************************************************)
THEOREM CapacityHolds == Spec => []Capacity
BY Invariance, PTL DEF IInv

\* unfold_buckets() never makes more than W + 2 buckets, so it terminates.
THEOREM DepthBoundHolds == Spec => []DepthBound
<1>1. IInv => DepthBound
  <2> SUFFICES ASSUME IInv, depth > 1 PROVE depth <= W + 2
    BY WAssumption DEF DepthBound, IInv, TypeOK
  <2>1. PICK q \in known : Cpl(q) >= depth - 2
    BY DEF IInv, Edge
  <2>2. Cpl(q) \in 0..W
    BY PeerCpl DEF IInv, TypeOK
  <2> QED BY <2>1, <2>2, WAssumption DEF IInv, TypeOK
<1> QED BY <1>1, Invariance, PTL

(***************************************************************************)
(* unfold_buckets() is a function: from every reachable table it stops, at *)
(* exactly one number of buckets.                                          *)
(***************************************************************************)
UnfoldingEnds ==
  \E d \in (depth + 1)..(depth + W + 2) :
    Unfolded(d) /\ \A e \in (depth + 1)..(depth + W + 2) : Unfolded(e) => e = d

THEOREM UnfoldingEndsHolds == Spec => []UnfoldingEnds
<1>1. IInv => UnfoldingEnds
  BY UnfoldingStops DEF IInv, UnfoldingEnds
<1> QED BY <1>1, Invariance, PTL

(***************************************************************************)
(* A node without bootstrap peers notices its first contact: what          *)
(* wait_for_connection() polls is not empty once a peer is known.          *)
(***************************************************************************)
THEOREM ConnectionDetectedHolds == Spec => []ConnectionDetected
<1>1. IInv => ConnectionDetected
  <2> SUFFICES ASSUME IInv, known # {} PROVE Visible(Local.id, 2) # {}
    BY DEF ConnectionDetected
  <2> DEFINE c == common_prefix_length(Local.id, Local.id)
             i == Slot(c, depth)
  <2>1. depth \in Nat \ {0} /\ c \in 0..W /\ c \in Nat
    BY PeersAssumption, CplType, WAssumption DEF IInv, TypeOK
  <2>2. c = W
    <3>1. CASE W = 0
      BY <2>1, <3>1
    <3>2. CASE W # 0
      <4>1. W \in 1..W /\ \A j \in 1..W : Local.id[j] = Local.id[j]
        BY <3>2, WAssumption
      <4>2. c >= W
        BY <4>1, PeersAssumption, CplPrefix
      <4> QED BY <2>1, <4>2, WAssumption
    <3> QED BY <3>1, <3>2
  <2>3. PICK q \in known : depth > 1 => Cpl(q) >= depth - 2
    BY DEF IInv, Edge
  <2>4. Cpl(q) \in 0..W
    BY PeerCpl DEF IInv, TypeOK
  <2> DEFINE s == Slot(Cpl(q), depth)
  <2>5. s \in {i - 1, i, i + 1}
    BY <2>1, <2>2, <2>3, <2>4, WAssumption DEF Slot
  <2>6. q \in Bucket(s, depth)
    BY DEF Bucket
  <2>7. CASE Bucket(i, depth) = {}
    <3>1. Cardinality(Bucket(i, depth)) < 2
      BY <2>7, FS_EmptySet
    <3>2. Visible(Local.id, 2) =
            Bucket(i, depth) \cup Bucket(i - 1, depth) \cup Bucket(i + 1, depth)
      BY <3>1 DEF Visible
    <3> HIDE DEF i, s
    <3> QED BY <2>5, <2>6, <3>2
  <2>8. CASE Bucket(i, depth) # {}
    BY <2>8 DEF Visible
  <2> QED BY <2>7, <2>8
<1> QED BY <1>1, Invariance, PTL

\* A peer that was refused is never admitted, and its bucket stays full.
THEOREM RefusedForGoodHolds == Spec => []RefusedForGood
<1>1. IInv => RefusedForGood
  <2> SUFFICES ASSUME IInv, NEW p \in refused
               PROVE  p \notin known /\ Full(Slot(Cpl(p), depth), depth)
    BY DEF RefusedForGood
  <2>1. TypeOK /\ depth \in Nat \ {0} /\ Cpl(p) \in Nat
    BY PeerCpl, WAssumption DEF IInv, TypeOK
  <2>2. /\ p \notin known /\ Cpl(p) < depth - 1
        /\ Cardinality(Level(Cpl(p))) >= K
    BY DEF IInv, Shut
  <2>3. Slot(Cpl(p), depth) = Cpl(p) /\ Bucket(Cpl(p), depth) = Level(Cpl(p))
    BY <2>1, <2>2, BucketCases DEF Slot
  <2> QED BY <2>2, <2>3 DEF Full
<1> QED BY <1>1, Invariance, PTL

(***************************************************************************)
(* The peers of the target's bucket are nearer to the target than all      *)
(* other known peers, so the early stop of nearest_peers() is right.       *)
(***************************************************************************)
THEOREM OwnBucketNearestHolds == Spec => []OwnBucketNearest
<1>1. IInv => OwnBucketNearest
  <2> SUFFICES ASSUME IInv, NEW target \in Id,
                      NEW p \in Bucket(Slot(common_prefix_length(Local.id, target), depth), depth),
                      NEW q \in known \ Bucket(Slot(common_prefix_length(Local.id, target), depth), depth)
               PROVE  Nearer(target, p.id, q.id)
    BY DEF OwnBucketNearest
  <2>1. p.id \in Id /\ q.id \in Id /\ depth \in Nat \ {0}
    BY PeersAssumption DEF IInv, TypeOK, Bucket
  <2>2. /\ Slot(common_prefix_length(Local.id, p.id), depth)
             = Slot(common_prefix_length(Local.id, target), depth)
        /\ Slot(common_prefix_length(Local.id, q.id), depth)
             # Slot(common_prefix_length(Local.id, target), depth)
    BY DEF Bucket, Cpl
  <2> QED BY <2>1, <2>2, SlotIsNearer
<1> QED BY <1>1, Invariance, PTL
=============================================================================
