-------------------------- MODULE DHTServerProofs --------------------------
(***************************************************************************)
(* Proofs about DHTServer for any number of concurrent requests, any       *)
(* messages and any routing table.                                         *)
(***************************************************************************)
EXTENDS DHTServer, TLAPS

(***************************************************************************)
(* The inductive invariant.  A handler is inside a critical section        *)
(* exactly while it holds the mutex (Locks).  A value is never removed, so *)
(* an acknowledged key has one (Kept), and a lookup falls through to       *)
(* find_node_async only for a key that was not yet acknowledged when the   *)
(* lookup arrived (Routed says which handler can be where).                *)
(***************************************************************************)
Locks ==
  \A r \in Requests : /\ InTable(r) <=> table_lock = r
                      /\ InStore(r) <=> kv_lock = r

Kept ==
  /\ \A k \in acked : kvstore[k] # None
  /\ \A r \in Requests : expected[r] \subseteq acked

Routed ==
  \A r \in Requests :
    /\ \/ handler[r] = msg[r].kind
       \/ /\ handler[r] = "find_node" /\ msg[r].kind = "find_value"
          /\ msg[r].key \notin expected[r]
          /\ pc[r] # "sent"
    /\ pc[r] = "nearest" => handler[r] = "find_node"
    /\ pc[r] = "lock_kv" => handler[r] \in {"store", "find_value"}
    /\ pc[r] \in {"store", "find_value"} => handler[r] = pc[r]

IInv == HandlersTypeOK /\ Replied /\ Locks /\ Kept /\ Routed /\ AckedVisible

(***************************************************************************)
(* The routing table as KBucketsProofs knows it.  Both instances of        *)
(* KBuckets have the same definitions.                                     *)
(***************************************************************************)
KB == INSTANCE KBucketsProofs

\* What find_node_async is about to answer from knows the peer that asks.
Introduced == \A r \in Requests : pc[r] = "nearest" => msg[r].from \in known \cup refused

\* The handlers together with the table that they share.
TableInv == IInv /\ KB!IInv /\ Introduced /\ RequesterIntroduced

USE DEF Goto, Finish, NoReply, Reply, InTable, InStore, history, locks, get, put,
        KeepsGuard, RecordPeer, DropGuards, Hit

LEMMA MessageType ==
  ASSUME HandlersTypeOK, NEW r \in Requests
  PROVE  /\ msg[r].kind \in Kinds /\ msg[r].valid \in BOOLEAN
         /\ msg[r].key \in Id /\ msg[r].value \in Values
  BY MessagesAssumption DEF HandlersTypeOK

LEMMA InitIInv == Init => IInv
  <1> SUFFICES ASSUME Init PROVE IInv
    OBVIOUS
  <1>1. \A r \in Requests : msg[r].kind \in Kinds
    BY MessagesAssumption DEF Init
  <1>2. HandlersTypeOK
    BY <1>1 DEF Init, HandlersTypeOK, Kinds
  <1>3. Replied /\ Locks /\ Kept /\ Routed /\ AckedVisible
    BY NoneAssumption DEF Init, Replied, Locks, Kept, Routed, AckedVisible
  <1> QED
    BY <1>2, <1>3 DEF IInv

LEMMA ArriveIInv ==
  ASSUME IInv, NEW r \in Requests, Arrive(r)
  PROVE  IInv'
  <1> USE DEF IInv, Arrive
  <1>1. HandlersTypeOK'
    BY DEF HandlersTypeOK
  <1>2. Locks'
    BY DEF Locks, HandlersTypeOK
  <1>3. Kept'
    BY DEF Kept, HandlersTypeOK
  <1>4. Routed'
    BY DEF Routed, HandlersTypeOK
  <1>5. AckedVisible'
    BY DEF AckedVisible, HandlersTypeOK
  <1>6. Replied'
    BY DEF Replied, HandlersTypeOK
  <1> QED
    BY <1>1, <1>2, <1>3, <1>4, <1>5, <1>6

LEMMA LockTableIInv ==
  ASSUME IInv, NEW r \in Requests, LockTable(r)
  PROVE  IInv'
  <1> USE DEF IInv, LockTable
  <1>1. HandlersTypeOK'
    BY DEF HandlersTypeOK
  <1>2. Locks'
    BY NoneAssumption DEF Locks, HandlersTypeOK
  <1>3. Kept' /\ Routed'
    BY DEF Kept, Routed, HandlersTypeOK
  <1>4. AckedVisible'
    BY DEF AckedVisible, HandlersTypeOK
  <1>5. Replied'
    BY DEF Replied, HandlersTypeOK
  <1> QED
    BY <1>1, <1>2, <1>3, <1>4, <1>5

LEMMA UpdateTableIInv ==
  ASSUME IInv, NEW r \in Requests, UpdateTable(r)
  PROVE  IInv'
  <1> USE DEF IInv, UpdateTable
  <1>0. \/ /\ handler[r] = "ping"
           /\ pc' = [pc EXCEPT ![r] = "done"]
           /\ reply' = [reply EXCEPT ![r] = [code |-> "OK", value |-> None, closerPeers |-> {}]]
        \/ /\ \/ pc' = [pc EXCEPT ![r] = "nearest"]
              \/ pc' = [pc EXCEPT ![r] = "lock_kv"]
           /\ reply' = reply
    OBVIOUS
  <1>1. HandlersTypeOK'
    <2>1. pc' \in [Requests -> {"sent", "lock_table", "update", "nearest", "lock_kv",
                               "store", "find_value", "done"}]
      BY <1>0 DEF HandlersTypeOK
    <2>2. reply' \in [Requests -> [code : {"none", "OK", "BAD_REQUEST"},
                         value : Values \cup {None}, closerPeers : SUBSET Peers]]
      BY <1>0 DEF HandlersTypeOK
    <2>3. table_lock' \in Requests \cup {None} /\ kv_lock' \in Requests \cup {None}
      BY DEF HandlersTypeOK
    <2> QED
      BY <2>1, <2>2, <2>3 DEF HandlersTypeOK
  <1>2. Locks'
    BY NoneAssumption DEF Locks, HandlersTypeOK
  <1>3. Kept'
    BY DEF Kept
  <1>5. Routed'
    <2>1. handler[r] = "find_node" \/ handler[r] \in {"store", "find_value", "ping"}
      BY DEF HandlersTypeOK, Kinds
    <2>2. pc'[r] = "nearest" => handler[r] = "find_node"
      BY DEF HandlersTypeOK
    <2>3. pc'[r] = "lock_kv" => handler[r] \in {"store", "find_value"}
      BY <2>1 DEF HandlersTypeOK
    <2>4. pc'[r] \in {"nearest", "lock_kv", "done"}
      BY DEF HandlersTypeOK
    <2>5. \A s \in Requests \ {r} : pc'[s] = pc[s]
      BY DEF HandlersTypeOK
    <2> QED
      BY <2>2, <2>3, <2>4, <2>5 DEF Routed
  <1>4. AckedVisible'
    BY DEF AckedVisible, Routed, HandlersTypeOK
  <1>6. Replied'
    BY <1>0 DEF Replied, HandlersTypeOK
  <1> QED
    BY <1>1, <1>2, <1>3, <1>4, <1>5, <1>6

LEMMA AnswerPeersIInv ==
  ASSUME IInv, NEW r \in Requests, NEW S \in SUBSET Peers, AnswerPeers(r, S)
  PROVE  IInv'
  <1> USE DEF IInv, AnswerPeers
  <1>1. HandlersTypeOK'
    BY DEF HandlersTypeOK
  <1>2. Locks'
    BY NoneAssumption DEF Locks, HandlersTypeOK
  <1>3. Kept' /\ Routed'
    BY DEF Kept, Routed, HandlersTypeOK
  <1>4. AckedVisible'
    BY DEF AckedVisible, Routed, HandlersTypeOK
  <1>5. Replied'
    BY DEF Replied, HandlersTypeOK
  <1> QED
    BY <1>1, <1>2, <1>3, <1>4, <1>5

LEMMA LockStoreIInv ==
  ASSUME IInv, NEW r \in Requests, LockStore(r)
  PROVE  IInv'
  <1> USE DEF IInv, LockStore
  <1>1. handler[r] \in {"store", "find_value"}
    BY DEF Routed
  <1>2. HandlersTypeOK'
    BY <1>1 DEF HandlersTypeOK
  <1>3. Locks'
    BY <1>1, NoneAssumption DEF Locks, HandlersTypeOK
  <1>4. Kept' /\ Routed'
    BY <1>1 DEF Kept, Routed, HandlersTypeOK
  <1>5. AckedVisible'
    BY <1>1 DEF AckedVisible, HandlersTypeOK
  <1>6. Replied'
    BY <1>1 DEF Replied, HandlersTypeOK
  <1> QED
    BY <1>2, <1>3, <1>4, <1>5, <1>6

LEMMA PutIInv ==
  ASSUME IInv, NEW r \in Requests, Put(r)
  PROVE  IInv'
  <1> USE DEF IInv, Put
  <1>1. msg[r].key \in Id /\ msg[r].value \in Values
    BY MessageType
  <1>2. HandlersTypeOK'
    BY <1>1 DEF HandlersTypeOK
  <1>3. Locks'
    BY NoneAssumption DEF Locks, HandlersTypeOK
  <1>4. Kept'
    BY <1>1, NoneAssumption DEF Kept, HandlersTypeOK
  <1>5. Routed'
    BY DEF Routed, HandlersTypeOK
  <1>6. AckedVisible'
    BY DEF AckedVisible, Routed, HandlersTypeOK
  <1>7. Replied'
    BY DEF Replied, HandlersTypeOK
  <1> QED
    BY <1>2, <1>3, <1>4, <1>5, <1>6, <1>7

LEMMA GetIInv ==
  ASSUME IInv, NEW r \in Requests, Get(r)
  PROVE  IInv'
  <1> USE DEF IInv, Get
  <1>1. msg[r].key \in Id /\ handler[r] = "find_value" /\ msg[r].kind = "find_value"
    BY MessageType DEF Routed
  <1>2. HandlersTypeOK'
    <2>1. CASE kvstore[msg[r].key] # None
      <3>1. kvstore[msg[r].key] \in Values \cup {None}
        BY <1>1 DEF HandlersTypeOK
      <3>2. reply' = [reply EXCEPT ![r] =
                        [code |-> "OK", value |-> kvstore[msg[r].key], closerPeers |-> {}]]
        BY <2>1
      <3>3. reply' \in [Requests -> [code : {"none", "OK", "BAD_REQUEST"},
                           value : Values \cup {None}, closerPeers : SUBSET Peers]]
        BY <3>1, <3>2 DEF HandlersTypeOK
      <3> QED
        BY <2>1, <3>3 DEF HandlersTypeOK
    <2>2. CASE kvstore[msg[r].key] = None
      BY <2>2 DEF HandlersTypeOK, Kinds
    <2> QED
      BY <2>1, <2>2
  <1>3. Locks'
    BY NoneAssumption DEF Locks, HandlersTypeOK
  <1>4. Kept'
    BY DEF Kept
  <1>5. kvstore[msg[r].key] = None => msg[r].key \notin expected[r]
    BY DEF Kept
  <1>6. Routed'
    BY <1>1, <1>5 DEF Routed, HandlersTypeOK
  <1>7. AckedVisible'
    BY DEF AckedVisible, HandlersTypeOK
  <1>8. Replied'
    BY <1>1 DEF Replied, HandlersTypeOK
  <1> QED
    BY <1>2, <1>3, <1>4, <1>6, <1>7, <1>8

LEMMA NextIInv == IInv /\ [Next]_vars => IInv'
  <1> SUFFICES ASSUME IInv, [Next]_vars PROVE IInv'
    OBVIOUS
  <1>1. ASSUME NEW r \in Requests, Arrive(r) \/ Handle(r)
        PROVE  IInv'
    BY <1>1, ArriveIInv, LockTableIInv, UpdateTableIInv, AnswerPeersIInv,
       LockStoreIInv, PutIInv, GetIInv DEF Handle
  <1>2. CASE UNCHANGED vars
    BY <1>2 DEF vars, IInv, HandlersTypeOK, Replied, Locks, Kept, Routed, AckedVisible
  <1> QED
    BY <1>1, <1>2 DEF Next

LEMMA Invariance == Spec => []IInv
  BY InitIInv, NextIInv, PTL DEF Spec
-----------------------------------------------------------------------------
(***************************************************************************)
(* No two handlers are in critical sections of the same mutex.             *)
(***************************************************************************)
THEOREM MutualExclusionHolds == Spec => []MutualExclusion
  <1>1. IInv => MutualExclusion
    BY DEF IInv, Locks, MutualExclusion
  <1> QED
    BY <1>1, Invariance, PTL

(***************************************************************************)
(* A node that has acknowledged a store answers every later find_value     *)
(* for the key with a value.                                               *)
(***************************************************************************)
THEOREM AckedVisibleHolds == Spec => []AckedVisible
  <1>1. IInv => AckedVisible
    BY DEF IInv
  <1> QED
    BY <1>1, Invariance, PTL
-----------------------------------------------------------------------------
\* The two instances describe one table.
LEMMA SameUpdate == \A p : Table!Update(p) <=> KB!Update(p)
  BY DEF Table!Update, Table!Touch, Table!Insert, Table!Unfold, Table!Refuse, Table!vars,
         Table!Full, Table!Unfolded, Table!From, Table!Bucket, Table!Slot, Table!Cpl,
         Table!common_prefix_length, Table!LeadingZeros, Table!Distance, Table!Cardinality,
         KB!Update, KB!Touch, KB!Insert, KB!Unfold, KB!Refuse, KB!vars,
         KB!Full, KB!Unfolded, KB!From, KB!Bucket, KB!Slot, KB!Cpl,
         KB!common_prefix_length, KB!LeadingZeros, KB!Distance, KB!Cardinality

LEMMA SameNearest == \A target, n, S : Table!Nearest(target, n, S) <=> KB!Nearest(target, n, S)
  BY DEF Table!Nearest, Table!Visible, Table!Bucket, Table!Slot, Table!Cpl, Table!Nearer,
         Table!Less, Table!common_prefix_length, Table!LeadingZeros, Table!Distance,
         Table!Cardinality,
         KB!Nearest, KB!Visible, KB!Bucket, KB!Slot, KB!Cpl, KB!Nearer,
         KB!Less, KB!common_prefix_length, KB!LeadingZeros, KB!Distance, KB!Cardinality

LEMMA SameType == Table!TypeOK <=> KB!TypeOK
  BY DEF Table!TypeOK, Table!IsFiniteSet, KB!TypeOK, KB!IsFiniteSet

\* What the table guarantees for each of its steps.
LEMMA TableStep ==
  ASSUME KB!IInv, NEW p \in Peers, Table!Update(p)
  PROVE  KB!IInv' /\ known \subseteq known' /\ refused \subseteq refused'
         /\ p \in known' \cup refused'
  <1>1. KB!Update(p)
    BY SameUpdate
  <1>2. KB!IInv'
    BY <1>1, TableAssumption, KB!NextIInv DEF KB!Next, KB!Id
  <1>3. known \subseteq known' /\ refused \subseteq refused' /\ p \in known' \cup refused'
    BY <1>1, TableAssumption, KB!UpdateRecords DEF KB!Id
  <1> QED
    BY <1>2, <1>3

LEMMA InitTableInv == Init => TableInv
  <1> SUFFICES ASSUME Init PROVE TableInv
    OBVIOUS
  <1>1. IInv
    BY InitIInv
  <1>2. KB!IInv
    BY TableAssumption, KB!InitIInv DEF Init, KB!Init, KB!Id
  <1>3. Introduced /\ RequesterIntroduced
    BY DEF Init, Introduced, RequesterIntroduced
  <1> QED
    BY <1>1, <1>2, <1>3 DEF TableInv

\* A handler of tasks that do not touch the table and give no answer from it.
LEMMA OtherStepsTableInv ==
  ASSUME TableInv, IInv', NEW r \in Requests,
         Arrive(r) \/ LockTable(r) \/ LockStore(r) \/ Put(r) \/ Get(r)
  PROVE  TableInv'
  <1>1. UNCHANGED <<known, depth, refused>>
    BY DEF Arrive, LockTable, LockStore, Put, Get, table
  <1>2. KB!IInv'
    BY <1>1, TableAssumption, KB!NextIInv DEF TableInv, KB!vars, KB!Id
  <1>3. Introduced'
    BY <1>1 DEF TableInv, IInv, HandlersTypeOK, Routed, Introduced,
                Arrive, LockTable, LockStore, Put, Get
  <1>4. RequesterIntroduced'
    BY <1>1 DEF TableInv, IInv, HandlersTypeOK, Routed, RequesterIntroduced,
                Arrive, LockTable, LockStore, Put, Get
  <1> QED
    BY <1>2, <1>3, <1>4 DEF TableInv

LEMMA UpdateTableTableInv ==
  ASSUME TableInv, IInv', NEW r \in Requests, UpdateTable(r)
  PROVE  TableInv'
  <1>1. msg[r].from \in Peers
    BY MessagesAssumption DEF TableInv, IInv, HandlersTypeOK
  <1>2. KB!IInv' /\ known \subseteq known' /\ refused \subseteq refused'
        /\ msg[r].from \in known' \cup refused'
    BY <1>1, TableStep DEF TableInv, UpdateTable
  <1>3. Introduced'
    BY <1>2 DEF TableInv, IInv, HandlersTypeOK, Introduced, UpdateTable
  <1>4. RequesterIntroduced'
    BY <1>2 DEF TableInv, IInv, HandlersTypeOK, RequesterIntroduced, UpdateTable
  <1> QED
    BY <1>2, <1>3, <1>4 DEF TableInv

LEMMA AnswerPeersTableInv ==
  ASSUME TableInv, IInv', NEW r \in Requests, NEW S \in SUBSET Peers, AnswerPeers(r, S)
  PROVE  TableInv'
  <1>1. UNCHANGED <<known, depth, refused>>
    BY DEF AnswerPeers, table
  <1>2. KB!IInv'
    BY <1>1, TableAssumption, KB!NextIInv DEF TableInv, KB!vars, KB!Id
  <1>3. Introduced'
    BY <1>1 DEF TableInv, IInv, HandlersTypeOK, Introduced, AnswerPeers
  <1>4. ASSUME msg[r].key = msg[r].from.id, msg[r].from \in known
        PROVE  msg[r].from \in S
    <2>1. KB!Nearest(msg[r].from.id, K, S)
      BY <1>4, SameNearest DEF AnswerPeers
    <2> QED
      BY <1>4, <2>1, TableAssumption, KB!OwnIdAnswered DEF TableInv, KB!Id
  <1>5. msg[r].from \in known \cup refused
    BY DEF TableInv, Introduced, AnswerPeers
  <1>6. RequesterIntroduced'
    <2>1. reply' = [reply EXCEPT ![r] = [code |-> "OK", value |-> None, closerPeers |-> S]]
          /\ pc' = [pc EXCEPT ![r] = "done"] /\ msg' = msg /\ handler' = handler
          /\ refused' = refused
      BY <1>1 DEF AnswerPeers
    <2> QED
      BY <1>4, <1>5, <2>1 DEF TableInv, IInv, HandlersTypeOK, RequesterIntroduced
  <1> QED
    BY <1>2, <1>3, <1>6 DEF TableInv

LEMMA NextTableInv == TableInv /\ [Next]_vars => TableInv'
  <1> SUFFICES ASSUME TableInv, [Next]_vars PROVE TableInv'
    OBVIOUS
  <1>1. IInv'
    BY NextIInv DEF TableInv
  <1>2. ASSUME NEW r \in Requests, Arrive(r) \/ Handle(r)
        PROVE  TableInv'
    BY <1>1, <1>2, OtherStepsTableInv, UpdateTableTableInv, AnswerPeersTableInv DEF Handle
  <1>3. CASE UNCHANGED vars
    <2>1. KB!IInv'
      BY <1>3, TableAssumption, KB!NextIInv DEF TableInv, KB!vars, KB!Id, vars, table
    <2>2. Introduced' /\ RequesterIntroduced'
      BY <1>3 DEF TableInv, Introduced, RequesterIntroduced, vars, table
    <2> QED
      BY <1>1, <2>1, <2>2 DEF TableInv
  <1> QED
    BY <1>2, <1>3 DEF Next

LEMMA TableInvariance == Spec => []TableInv
  BY InitTableInv, NextTableInv, PTL DEF Spec

(***************************************************************************)
(* Types of the handlers and of the table, and exactly the handlers that   *)
(* are done have answered.                                                 *)
(***************************************************************************)
THEOREM TypeCorrect == Spec => []TypeOK
  <1>1. TableInv => TypeOK
    BY SameType DEF TableInv, IInv, TypeOK, KB!IInv
  <1> QED
    BY <1>1, TableInvariance, PTL

(***************************************************************************)
(* A peer that asks for the nodes nearest to itself is in the answer, or   *)
(* was refused by a full bucket.                                           *)
(***************************************************************************)
THEOREM RequesterIntroducedHolds == Spec => []RequesterIntroduced
  <1>1. TableInv => RequesterIntroduced
    BY DEF TableInv
  <1> QED
    BY <1>1, TableInvariance, PTL

(***************************************************************************)
(* Whatever the handlers interleave, the table of the server is one that   *)
(* KBuckets describes: all that KBucketsProofs proves holds of it.         *)
(***************************************************************************)
THEOREM TableImplemented == Spec => Table!Spec
  <1>1. Init => Table!Init
    BY DEF Init, Table!Init
  <1>2. TableInv /\ [Next]_vars => [Table!Next]_(Table!vars)
    <2> SUFFICES ASSUME TableInv, [Next]_vars PROVE [Table!Next]_(Table!vars)
      OBVIOUS
    <2>1. ASSUME NEW r \in Requests, UpdateTable(r)
          PROVE  Table!Next
      <3>1. msg[r].from \in Peers
        BY MessagesAssumption DEF TableInv, IInv, HandlersTypeOK
      <3> QED
        BY <2>1, <3>1 DEF UpdateTable, RecordPeer, Table!Next
    <2>2. ASSUME NEW r \in Requests, Arrive(r) \/ (Handle(r) /\ ~UpdateTable(r))
          PROVE  UNCHANGED table
      BY <2>2 DEF Arrive, Handle, LockTable, AnswerPeers, LockStore, Put, Get
    <2>3. CASE UNCHANGED vars
      BY <2>3 DEF vars, table, Table!vars
    <2> QED
      BY <2>1, <2>2, <2>3 DEF Next, table, Table!vars
  <1> QED
    BY <1>1, <1>2, TableInvariance, PTL DEF Spec, Table!Spec
-----------------------------------------------------------------------------
(***************************************************************************)
(* Why every request is answered: its handler needs few steps, and nobody  *)
(* it waits for waits in turn.                                             *)
(***************************************************************************)

\* What a handler has before it once it has recorded the peer.
AfterUpdate(r) ==
  CASE handler[r] = "ping"       -> 0
    [] handler[r] = "find_node"  -> 1
    [] handler[r] = "store"      -> 2
    [] handler[r] = "find_value" -> 5

\* The steps to the answer, at most: find_value_async may pass through
\* find_node_async and record the peer once more.
StepsLeft(r) ==
  CASE pc[r] = "sent"       -> 8
    [] pc[r] = "lock_table" -> AfterUpdate(r) + 2
    [] pc[r] = "update"     -> AfterUpdate(r) + 1
    [] pc[r] = "lock_kv"    -> AfterUpdate(r)
    [] pc[r] = "find_value" -> 4
    [] pc[r] = "store"      -> 1
    [] pc[r] = "nearest"    -> 1
    [] pc[r] = "done"       -> 0

LEMMA StepsType ==
  ASSUME HandlersTypeOK, NEW r \in Requests
  PROVE  AfterUpdate(r) \in 0..5 /\ StepsLeft(r) \in 0..8
  <1>1. handler[r] \in Kinds
        /\ pc[r] \in {"sent", "lock_table", "update", "nearest", "lock_kv",
                      "store", "find_value", "done"}
    BY DEF HandlersTypeOK
  <1>2. AfterUpdate(r) \in 0..5
    BY <1>1 DEF AfterUpdate, Kinds
  <1> QED
    BY <1>1, <1>2 DEF StepsLeft

\* A step of a handler leaves the others where they are.
LEMMA OthersStay ==
  ASSUME IInv, NEW r \in Requests, Arrive(r) \/ Handle(r), NEW s \in Requests, s # r
  PROVE  pc'[s] = pc[s] /\ handler'[s] = handler[s]
  BY DEF IInv, HandlersTypeOK, Arrive, Handle, LockTable, UpdateTable, AnswerPeers,
         LockStore, Put, Get

\* The step of a handler brings it nearer to its answer.
LEMMA HandlerSteps ==
  ASSUME IInv, NEW r \in Requests, Arrive(r) \/ Handle(r)
  PROVE  StepsLeft(r)' < StepsLeft(r)
  <1>1. AfterUpdate(r) \in 0..5 /\ handler[r] \in Kinds
    BY StepsType DEF IInv, HandlersTypeOK
  <1>2. CASE Arrive(r)
    <2>1. pc[r] = "sent" /\ handler' = handler /\ pc'[r] \in {"done", "lock_table"}
      BY <1>2 DEF Arrive, IInv, HandlersTypeOK
    <2>2. AfterUpdate(r)' = AfterUpdate(r)
      BY <2>1 DEF AfterUpdate
    <2> QED
      BY <1>1, <2>1, <2>2 DEF StepsLeft
  <1>3. CASE LockTable(r)
    <2>1. pc[r] = "lock_table" /\ handler' = handler /\ pc'[r] = "update"
      BY <1>3 DEF LockTable, IInv, HandlersTypeOK
    <2>2. AfterUpdate(r)' = AfterUpdate(r)
      BY <2>1 DEF AfterUpdate
    <2> QED
      BY <1>1, <2>1, <2>2 DEF StepsLeft
  <1>4. CASE UpdateTable(r)
    <2>1. /\ pc[r] = "update" /\ handler' = handler
          /\ \/ pc'[r] = "done"
             \/ handler[r] = "find_node" /\ pc'[r] = "nearest"
             \/ pc'[r] = "lock_kv"
      BY <1>4 DEF UpdateTable, IInv, HandlersTypeOK
    <2>2. AfterUpdate(r)' = AfterUpdate(r) /\ (handler[r] = "find_node" => AfterUpdate(r) = 1)
      BY <2>1 DEF AfterUpdate
    <2> QED
      BY <1>1, <2>1, <2>2 DEF StepsLeft
  <1>5. CASE LockStore(r)
    <2>1. /\ pc[r] = "lock_kv" /\ pc'[r] = handler[r]
          /\ handler[r] \in {"store", "find_value"}
      BY <1>5 DEF LockStore, IInv, HandlersTypeOK, Routed
    <2>2. AfterUpdate(r) = IF handler[r] = "store" THEN 2 ELSE 5
      BY <2>1 DEF AfterUpdate
    <2> QED
      BY <2>1, <2>2 DEF StepsLeft
  <1>6. CASE Put(r) \/ \E S \in SUBSET Peers : AnswerPeers(r, S)
    <2>1. pc[r] \in {"store", "nearest"} /\ pc'[r] = "done"
      BY <1>6 DEF Put, AnswerPeers, IInv, HandlersTypeOK
    <2> QED
      BY <2>1 DEF StepsLeft
  <1>7. CASE Get(r)
    <2>1. /\ pc[r] = "find_value"
          /\ \/ pc'[r] = "done"
             \/ pc'[r] = "lock_table" /\ handler'[r] = "find_node"
      BY <1>7 DEF Get, IInv, HandlersTypeOK
    <2>2. handler'[r] = "find_node" => AfterUpdate(r)' = 1
      BY DEF AfterUpdate
    <2> QED
      BY <2>1, <2>2 DEF StepsLeft
  <1> QED
    BY <1>2, <1>3, <1>4, <1>5, <1>6, <1>7 DEF Handle

(***************************************************************************)
(* A handler answers within eight steps of its own, counting the arrival   *)
(* of the request: each step uses one up, and no step of another handler   *)
(* sets it back, in particular not the way of find_value_async into        *)
(* find_node_async.                                                        *)
(***************************************************************************)
THEOREM HandlersBounded ==
  Spec => /\ [](\A r \in Requests : StepsLeft(r) \in 0..8)
          /\ [][\E r \in Requests :
                  /\ StepsLeft(r)' < StepsLeft(r)
                  /\ \A s \in Requests \ {r} : StepsLeft(s)' = StepsLeft(s)]_vars
  <1>1. IInv => \A r \in Requests : StepsLeft(r) \in 0..8
    BY StepsType DEF IInv
  <1>2. IInv /\ [Next]_vars =>
          [\E r \in Requests :
             /\ StepsLeft(r)' < StepsLeft(r)
             /\ \A s \in Requests \ {r} : StepsLeft(s)' = StepsLeft(s)]_vars
    <2> SUFFICES ASSUME IInv, NEW r \in Requests, Arrive(r) \/ Handle(r)
                 PROVE  /\ StepsLeft(r)' < StepsLeft(r)
                        /\ \A s \in Requests \ {r} : StepsLeft(s)' = StepsLeft(s)
      BY DEF Next
    <2>1. StepsLeft(r)' < StepsLeft(r)
      BY HandlerSteps
    <2>2. ASSUME NEW s \in Requests \ {r} PROVE StepsLeft(s)' = StepsLeft(s)
      <3>1. pc'[s] = pc[s] /\ handler'[s] = handler[s]
        BY OthersStay
      <3> QED
        BY <3>1 DEF StepsLeft, AfterUpdate
    <2> QED
      BY <2>1, <2>2
  <1>3. Spec => []IInv /\ [][Next]_vars
    BY Invariance DEF Spec
  <1> QED
    BY <1>1, <1>2, <1>3, PTL

(***************************************************************************)
(* What the next step of a handler needs: the mutex it waits for, or an    *)
(* outcome of the computation it is about to do on the table.  The other   *)
(* steps need nothing.                                                     *)
(***************************************************************************)
InFlight(r) == pc[r] \notin {"sent", "done"}

Able(r) ==
  /\ pc[r] = "lock_table" => table_lock = None
  /\ pc[r] = "lock_kv"    => kv_lock = None
  /\ pc[r] = "update"     => \E d \in (depth + 1)..(depth + W + 2) : Table!Unfolded(d)
  /\ pc[r] = "nearest"    => \E S \in SUBSET Peers : Table!Nearest(msg[r].key, K, S)

\* The holder of the mutex that r waits for, if it waits.
WaitsFor(r, h) ==
  \/ pc[r] = "lock_table" /\ table_lock = h
  \/ pc[r] = "lock_kv"    /\ kv_lock = h

(***************************************************************************)
(* The handlers never block one another for good: one that cannot go on    *)
(* waits for one that can.  Chains of waiting have length one, because no  *)
(* handler awaits a mutex with a guard in its hand, not even               *)
(* find_value_async when it calls find_node_async.                         *)
(***************************************************************************)
NobodyStuck ==
  \A r \in Requests : InFlight(r) =>
    \/ Able(r)
    \/ \E h \in Requests : WaitsFor(r, h) /\ InFlight(h) /\ Able(h)

LEMMA SameUnfolded == \A d : Table!Unfolded(d) <=> KB!Unfolded(d)
  BY DEF Table!Unfolded, Table!From, Table!Cpl, Table!common_prefix_length,
         Table!LeadingZeros, Table!Distance, Table!Cardinality,
         KB!Unfolded, KB!From, KB!Cpl, KB!common_prefix_length, KB!LeadingZeros,
         KB!Distance, KB!Cardinality

\* Inside a critical section nothing is waited for.
LEMMA InsideAble ==
  ASSUME TableInv, NEW h \in Requests, InTable(h) \/ InStore(h)
  PROVE  InFlight(h) /\ Able(h)
  <1>1. \E d \in (depth + 1)..(depth + W + 2) : Table!Unfolded(d)
    BY SameUnfolded, TableAssumption, KB!UnfoldingStops DEF TableInv, KB!IInv, KB!Id
  <1>2. \E S \in SUBSET Peers : Table!Nearest(msg[h].key, K, S)
    <2>1. msg[h].key \in KB!Id /\ K \in Nat
      BY MessageType, TableAssumption DEF TableInv, IInv, Id, KB!Id
    <2>2. PICK S \in SUBSET Peers : KB!Nearest(msg[h].key, K, S)
      BY <2>1, TableAssumption, KB!AnswerExists DEF TableInv, KB!IInv, KB!Id
    <2> QED
      BY <2>2, SameNearest
  <1> QED
    BY <1>1, <1>2 DEF InFlight, Able

THEOREM NobodyStuckHolds == Spec => []NobodyStuck
  <1>1. TableInv => NobodyStuck
    <2> SUFFICES ASSUME TableInv, NEW r \in Requests, InFlight(r), ~Able(r)
                 PROVE  \E h \in Requests : WaitsFor(r, h) /\ InFlight(h) /\ Able(h)
      BY DEF NobodyStuck
    <2>1. ~InTable(r) /\ ~InStore(r)
      BY InsideAble
    <2>2. \/ pc[r] = "lock_table" /\ table_lock # None
          \/ pc[r] = "lock_kv" /\ kv_lock # None
      BY <2>1 DEF Able
    <2>3. CASE pc[r] = "lock_table" /\ table_lock # None
      <3>1. table_lock \in Requests /\ InTable(table_lock)
        BY <2>3 DEF TableInv, IInv, HandlersTypeOK, Locks
      <3> QED
        BY <2>3, <3>1, InsideAble DEF WaitsFor
    <2>4. CASE pc[r] = "lock_kv" /\ kv_lock # None
      <3>1. kv_lock \in Requests /\ InStore(kv_lock)
        BY <2>4 DEF TableInv, IInv, HandlersTypeOK, Locks
      <3> QED
        BY <2>4, <3>1, InsideAble DEF WaitsFor
    <2> QED
      BY <2>2, <2>3, <2>4
  <1> QED
    BY <1>1, TableInvariance, PTL
=============================================================================
