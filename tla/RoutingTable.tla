---------------------------- MODULE RoutingTable ----------------------------
(***************************************************************************)
(* The routing table of a node (src/src/routing_table.rs): a vector of     *)
(* buckets, each a vector of at most K peers in the order of their last    *)
(* contact, unfolded lazily as the last bucket fills up.  All callers hold *)
(* the mutex around the table for the whole call, so update() is one step. *)
(* Bucket and vector indices of the code start at 0, sequences at 1:       *)
(* buckets[i + 1] is the code's buckets[i].                                *)
(***************************************************************************)
EXTENDS KeyUtil, Vectors

CONSTANTS
  K,        \* capacity of a bucket
  Local,    \* the peer that owns the table, a record [id, address]
  Peers     \* the peers that may be offered to update()

ASSUME KAssumption     == K \in Nat \ {0}
ASSUME PeersAssumption == \A p \in Peers \cup {Local} : p.id \in Id

VARIABLES
  buckets,  \* sequence of records [index, peers]
  refused,  \* history: the peers answered with NoCapacityError
  contacts  \* history: the peers accepted, by their last successful update()

vars == <<buckets, refused, contacts>>

Cpl(id) == common_prefix_length(Local.id, id)

\* Mutant: the index of a new bucket is one too small.
newBucketOffByOne(i) == [index |-> i - 1, peers |-> <<>>]

newBucket(i) == [index |-> i, peers |-> <<>>]

\* The ideal bucket for an identifier, or the last one if there is none yet.
BucketIndex(bs, id) == Min({Cpl(id), Len(bs) - 1})

\* Despite its name, move_to_front_if_exists() moves the peer to the end.
MoveToFront(ps, p) == Append(RemoveFirst(ps, p), p)

add_peer_to_bucket(bs, i, p) == [bs EXCEPT ![i + 1].peers = Append(@, p)]

\* The peers of bucket b that belong further down.
Deeper(b) == {p \in ToSet(b.peers) : Cpl(p.id) > b.index}

\* Mutant: copies the peers that belong further down instead of moving them.
KeptAll(b) == b.peers

Kept(b) == retain(b.peers, ToSet(b.peers) \ Deeper(b))

\* Mutant: collects the moved peers from the back.
MovedReversed(b) == Reverse(retain(b.peers, Deeper(b)))

Moved(b) == retain(b.peers, Deeper(b))

split(b) ==
  <<[b EXCEPT !.peers = Kept(b)], [newBucket(b.index + 1) EXCEPT !.peers = Moved(b)]>>

unfoldOnce(bs) == Front(bs) \o split(Last(bs))

(***************************************************************************)
(* The function calls itself until the new last bucket is below K: here    *)
(* unfolded[n] are the buckets after n calls.  The bound on n only makes   *)
(* the function finite: bucket W + 1 stays empty, as no prefix is longer   *)
(* than W bits, so W + 2 calls leave room for one more than is ever made.  *)
(***************************************************************************)
unfold_buckets(bs) ==
  LET unfolded[n \in 0..(W + 2)] == IF n = 0 THEN bs ELSE unfoldOnce(unfolded[n - 1])
      below == {n \in 1..(W + 2) : Len(Last(unfolded[n]).peers) < K}
  IN  unfolded[Min(below)]

\* Mutant: keeps the position found before the buckets were unfolded.
FormerIndex(bs, unfolded, p) == Len(bs) - 1

\* The position of p is computed again after the buckets were unfolded.
NewIndex(bs, unfolded, p) == BucketIndex(unfolded, p.id)

(***************************************************************************)
(* The result of update(): the new buckets and whether it returned Ok.     *)
(* The table stays unfolded even when the peer is then refused.            *)
(***************************************************************************)
update(bs, p) ==
  LET i        == BucketIndex(bs, p.id)
      unfolded == unfold_buckets(bs)
      j        == NewIndex(bs, unfolded, p)
  IN  CASE Contains(bs[i + 1].peers, p) ->
             [ok |-> TRUE, buckets |-> [bs EXCEPT ![i + 1].peers = MoveToFront(@, p)]]
        [] ~Contains(bs[i + 1].peers, p) /\ Len(bs[i + 1].peers) < K ->
             [ok |-> TRUE, buckets |-> add_peer_to_bucket(bs, i, p)]
        [] OTHER ->
             IF i # Len(bs) - 1 THEN [ok |-> FALSE, buckets |-> bs]
             ELSE IF Len(unfolded[j + 1].peers) >= K THEN [ok |-> FALSE, buckets |-> unfolded]
             ELSE [ok |-> TRUE, buckets |-> add_peer_to_bucket(unfolded, j, p)]

\* Mutant: leaves the peers in the order of the buckets.
Unsorted(ps, target) == ps

\* sort_by is stable: peers at the same distance keep their order.
SortByDistance(ps, target) ==
  LET before(x, y) == \/ Nearer(target, ps[x].id, ps[y].id)
                      \/ ~Nearer(target, ps[y].id, ps[x].id) /\ x < y
  IN  Arranged(ps, DOMAIN ps, {e \in (DOMAIN ps) \X (DOMAIN ps) : before(e[1], e[2])})

\* Mutant: never looks at the bucket after the target's own.
NextPeersNone(bs, i) == <<>>

PrevPeers(bs, i) == IF i > 0 THEN bs[i].peers ELSE <<>>
NextPeers(bs, i) == IF i < Len(bs) - 1 THEN bs[i + 2].peers ELSE <<>>

nearest_peers(bs, target, n) ==
  LET i     == BucketIndex(bs, target)
      own   == bs[i + 1].peers
      found == IF Len(own) < n THEN own \o PrevPeers(bs, i) \o NextPeers(bs, i) ELSE own
  IN  SubSeq(SortByDistance(found, target), 1, Min({n, Len(found)}))

k_nearest_peers(bs, target) == nearest_peers(bs, target, K)
-----------------------------------------------------------------------------
Init == buckets = <<newBucket(0)>> /\ refused = {} /\ contacts = <<>>

Update(p) ==
  LET r == update(buckets, p)
  IN  /\ buckets'  = r.buckets
      /\ refused'  = IF r.ok THEN refused ELSE refused \cup {p}
      /\ contacts' = IF r.ok THEN Append(RemoveFirst(contacts, p), p) ELSE contacts

Next == \E p \in Peers : Update(p)

Spec == Init /\ [][Next]_vars
-----------------------------------------------------------------------------
Known == UNION {ToSet(buckets[x].peers) : x \in DOMAIN buckets}

\* Type invariant.
TypeOK ==
  /\ buckets \in Seq([index : Nat, peers : Seq(Peers)]) /\ buckets # <<>>
  /\ refused \in SUBSET Peers
  /\ contacts \in Seq(Peers)

(***************************************************************************)
(* Every peer sits in exactly one bucket, once, and it is the bucket that  *)
(* a lookup of its identifier examines.  update() searches only that       *)
(* bucket for the peer, and find_value() relies on answers without         *)
(* repetitions, so a misplaced or doubled peer would stay unnoticed.       *)
(***************************************************************************)
Placement ==
  \A x \in DOMAIN buckets :
    /\ buckets[x].index = x - 1
    /\ IsInjective(buckets[x].peers)
    /\ \A p \in ToSet(buckets[x].peers) : BucketIndex(buckets, p.id) = x - 1

(***************************************************************************)
(* Inside a bucket the peers stay ordered by their last contact, the least *)
(* recent first, through insertions, moves and splits: retain() must keep  *)
(* the order in both halves.                                               *)
(***************************************************************************)
LeastRecentFirst ==
  \A x \in DOMAIN buckets :
    buckets[x].peers = retain(contacts, ToSet(buckets[x].peers))

(***************************************************************************)
(* When the bucket of the target holds enough peers for the answer, the    *)
(* answer of nearest_peers() is exact, although no other bucket is         *)
(* examined: no known peer outside it is nearer than one inside it.        *)
(***************************************************************************)
ExactWhenBucketSuffices ==
  \A target \in Id, n \in 1..K :
    LET found == ToSet(nearest_peers(buckets, target, n))
    IN  Len(buckets[BucketIndex(buckets, target) + 1].peers) >= n =>
          /\ Cardinality(found) = n
          /\ \A p \in found, q \in Known \ found : ~Nearer(target, q.id, p.id)

(***************************************************************************)
(* The table implements the abstract one: no peer is lost or doubled by an *)
(* unfolding, a refusal leaves the known peers alone, and NoCapacityError  *)
(* is returned exactly when the peer's bucket is full.                     *)
(***************************************************************************)
KB == INSTANCE KBuckets WITH known <- Known, depth <- Len(buckets)

ImplementsKBuckets == KB!Spec

(***************************************************************************)
(* The answers of nearest_peers() are answers of the abstract table: the   *)
(* bucket arithmetic, the sorting and the truncation yield n of the        *)
(* nearest peers that the examined buckets hold, or all of these.  The     *)
(* modules of the server and of the bootstrap rely on that.                *)
(***************************************************************************)
AnswersRefine ==
  \A target \in Id, n \in 1..(K + 1) :
    KB!Nearest(target, n, ToSet(nearest_peers(buckets, target, n)))
=============================================================================
