------------------------------ MODULE KBuckets ------------------------------
(***************************************************************************)
(* What the routing table promises (src/src/routing_table.rs), without the *)
(* order of the peers inside a bucket.  The table is the set of peers it   *)
(* knows and the number of its buckets: where a peer sits follows from the *)
(* length of the prefix its identifier shares with the local one.  Module  *)
(* RoutingTable, which keeps the vectors of the code, implements this      *)
(* specification (RoutingTableProofs).  KBucketsProofs proves invariants   *)
(* for every K, every identifier width and every set of peers.             *)
(***************************************************************************)
EXTENDS KeyUtil

CONSTANTS
  K,        \* capacity of a bucket
  Local,    \* the peer that owns the table
  Peers     \* the peers that may contact it, itself among them

ASSUME KAssumption     == K \in Nat \ {0}
ASSUME PeersAssumption == \A p \in Peers \cup {Local} : p.id \in Id

VARIABLES
  known,    \* the peers in the table
  depth,    \* the number of buckets
  refused   \* history: the peers that update() answered with NoCapacityError

vars == <<known, depth, refused>>

Cpl(p) == common_prefix_length(Local.id, p.id)

\* Mutant: the index is only clamped when it is past the end by two.
SlotOffByOne(c, d) == IF c > d THEN d - 1 ELSE c

\* The bucket, counted from 0, for a prefix of length c in a table of d buckets.
Slot(c, d) == IF c > d - 1 THEN d - 1 ELSE c

Bucket(i, d) == {q \in known : Slot(Cpl(q), d) = i}

\* Mutant: a bucket takes one peer more than K.
FullOffByOne(i, d) == Cardinality(Bucket(i, d)) > K

Full(i, d) == Cardinality(Bucket(i, d)) >= K

\* The peers that split() moves out of the buckets before bucket i.
From(i) == {q \in known : Cpl(q) >= i}

(***************************************************************************)
(* unfold_buckets() adds buckets until the last one is below K: d is the   *)
(* resulting number of buckets.  The interval only makes the choice of d   *)
(* finite: it leaves room for more levels than DepthBound allows.          *)
(***************************************************************************)
Unfolded(d) ==
  /\ d \in (depth + 1)..(depth + W + 2)
  /\ Cardinality(From(d - 1)) < K
  /\ \A e \in (depth + 1)..(d - 1) : Cardinality(From(e - 1)) >= K
-----------------------------------------------------------------------------
\* Mutant: the table starts without its first bucket.
InitNoBucket == known = {} /\ depth = 0 /\ refused = {}

Init == known = {} /\ depth = 1 /\ refused = {}

\* The peer is in its bucket already: only its position there changes.
Touch(p) == p \in known /\ UNCHANGED vars

\* The bucket of the peer has room.
Insert(p) ==
  /\ p \notin known
  /\ ~Full(Slot(Cpl(p), depth), depth)
  /\ known' = known \cup {p}
  /\ UNCHANGED <<depth, refused>>

\* Mutant: unfolds for any full bucket, not only for the last one.
UnfoldAnyBucket(p) ==
  /\ p \notin known
  /\ Full(Slot(Cpl(p), depth), depth)
  /\ depth' = depth + 1
  /\ refused' = refused \cup {p}
  /\ UNCHANGED known

\* Mutant: does not look for the peer's position again after unfolding.
UnfoldNoRecheck(p) ==
  /\ p \notin known
  /\ Slot(Cpl(p), depth) = depth - 1
  /\ Full(depth - 1, depth)
  /\ \E d \in (depth + 1)..(depth + W + 2) : Unfolded(d) /\ depth' = d
  /\ refused' = refused \cup {p}
  /\ UNCHANGED known

\* The peer belongs to the last bucket, which is full: unfold and look again.
Unfold(p) ==
  /\ p \notin known
  /\ Slot(Cpl(p), depth) = depth - 1
  /\ Full(depth - 1, depth)
  /\ \E d \in (depth + 1)..(depth + W + 2) :
       /\ Unfolded(d)
       /\ depth' = d
       /\ \/ /\ Full(Slot(Cpl(p), d), d)
             /\ refused' = refused \cup {p}
             /\ UNCHANGED known
          \/ /\ ~Full(Slot(Cpl(p), d), d)
             /\ known' = known \cup {p}
             /\ UNCHANGED refused

\* The peer belongs to an earlier bucket, which is full.
Refuse(p) ==
  /\ p \notin known
  /\ Slot(Cpl(p), depth) # depth - 1
  /\ Full(Slot(Cpl(p), depth), depth)
  /\ refused' = refused \cup {p}
  /\ UNCHANGED <<known, depth>>

Update(p) == Touch(p) \/ Insert(p) \/ Unfold(p) \/ Refuse(p)

Next == \E p \in Peers : Update(p)

Spec == Init /\ [][Next]_vars
-----------------------------------------------------------------------------
\* Mutant: looks at the target's bucket only.
VisibleOwnBucket(target, n) == Bucket(Slot(common_prefix_length(Local.id, target), depth), depth)

(***************************************************************************)
(* The peers nearest_peers(target, n) sorts and truncates: the bucket of   *)
(* the target and, when it holds fewer than n, the two beside it.          *)
(***************************************************************************)
Visible(target, n) ==
  LET i == Slot(common_prefix_length(Local.id, target), depth)
  IN  IF Cardinality(Bucket(i, depth)) < n
      THEN Bucket(i, depth) \cup Bucket(i - 1, depth) \cup Bucket(i + 1, depth)
      ELSE Bucket(i, depth)

(***************************************************************************)
(* S is an answer of nearest_peers(target, n): n of the visible peers, or  *)
(* all of them, and none of the others strictly nearer.  Peers at the same *)
(* distance carry the same identifier; either may be cut off.              *)
(***************************************************************************)
Nearest(target, n, S) ==
  LET visible == Visible(target, n)
  IN  /\ S \subseteq visible
      /\ S = visible \/ Cardinality(S) = n
      /\ Cardinality(S) <= n
      /\ \A p \in S, q \in visible \ S : ~Nearer(target, q.id, p.id)
-----------------------------------------------------------------------------
\* Type invariant.
TypeOK ==
  /\ known \in SUBSET Peers /\ IsFiniteSet(known)
  /\ depth \in Nat \ {0}
  /\ refused \in SUBSET Peers

(***************************************************************************)
(* No bucket ever holds more than K peers, whatever the order of contacts  *)
(* and unfoldings: update() tests the length before every push, and an     *)
(* unfolding only distributes one bucket of at most K peers.               *)
(***************************************************************************)
Capacity == \A i \in 0..(depth - 1) : Cardinality(Bucket(i, depth)) <= K

(***************************************************************************)
(* The recursion of unfold_buckets() is bounded: there are never more than *)
(* W + 2 buckets, and the last two levels are only reached by peers that   *)
(* carry the local identifier itself (bootstrap can insert the node into   *)
(* its own table).                                                         *)
(***************************************************************************)
DepthBound == depth <= W + 2

(***************************************************************************)
(* wait_for_connection() sees the first contact: once any peer is known,   *)
(* nearest_peers(own id, 2) is not empty, although it examines only the    *)
(* last buckets of the table.  Otherwise init() of a node without          *)
(* bootstrap peers would wait for ever.                                    *)
(***************************************************************************)
ConnectionDetected == known # {} => Visible(Local.id, 2) # {}

(***************************************************************************)
(* A refusal is for good: the code never evicts a peer, so one that got a  *)
(* NoCapacityError can never enter the table later, and the bucket that    *)
(* refused it stays full.                                                  *)
(***************************************************************************)
RefusedForGood ==
  \A p \in refused : /\ p \notin known
                     /\ Full(Slot(Cpl(p), depth), depth)

(***************************************************************************)
(* nearest_peers() may stop at the target's own bucket when that holds     *)
(* enough: each peer in it is strictly nearer to the target than every     *)
(* known peer outside it, including for targets that the last bucket       *)
(* stands in for.                                                          *)
(***************************************************************************)
OwnBucketNearest ==
  \A target \in Id :
    LET i == Slot(common_prefix_length(Local.id, target), depth)
    IN  \A p \in Bucket(i, depth), q \in known \ Bucket(i, depth) :
          Nearer(target, p.id, q.id)
=============================================================================
