--------------------------- MODULE NetworkProofs ---------------------------
(***************************************************************************)
(* Proofs about Network for any number of nodes, identifiers of any width, *)
(* any K and Alpha, any losses and restarts.  The invariants of the put    *)
(* and of the get are those of StoreProofs and FindValueProofs, carried    *)
(* over to the instances of Network; the invariant about the tables and    *)
(* the theorems that relate the three are new.                             *)
(***************************************************************************)
EXTENDS Network, FiniteSetTheorems, SequenceTheorems, TLAPS

P == INSTANCE StoreProofs WITH pc <- put_pc, outcome <- put_outcome, Unparseable <- {}

G == INSTANCE FindValueProofs WITH Values <- {Value}, Dist <- Rank, Unparseable <- {}

(***************************************************************************)
(* The steps of Network as steps of the put, of the get and of the tables. *)
(***************************************************************************)
LEMMA RankType == Rank \in [Peers -> Nat]
  <1> SUFFICES ASSUME NEW p \in Peers
               PROVE  Cardinality({q \in Peers : Nearer(Key, q.id, p.id)}) \in Nat
    BY DEF Rank
  <1> DEFINE S == {q \in Peers : Nearer(Key, q.id, p.id)}
  <1>1. S \subseteq Peers
    OBVIOUS
  <1>2. IsFiniteSet(S)
    BY <1>1, NodesAssumption, FS_Subset
  <1> QED
    BY <1>2, FS_CardinalityType

LEMMA SamePut ==
  /\ P!TypeOK <=> Put!TypeOK
  /\ P!OkMeansStored <=> Put!OkMeansStored
  BY DEF P!TypeOK, Put!TypeOK, P!Answers, Put!Answers, P!ErrorCode, Put!ErrorCode,
     P!BoundedSeq, Put!BoundedSeq, P!SeqOf, Put!SeqOf, P!IsInjective, Put!IsInjective,
     P!Waiting, Put!Waiting, P!ToSet, Put!ToSet, P!Pending, Put!Pending, P!Ok, Put!Ok,
     P!Err, Put!Err, P!OkMeansStored, Put!OkMeansStored

LEMMA SameGet == G!TypeOK <=> Get!TypeOK
  BY DEF G!TypeOK, Get!TypeOK, G!Results, Get!Results, G!Answers, Get!Answers,
     G!NotFound, Get!NotFound, G!Pending, Get!Pending, G!Found, Get!Found

\* The inductive invariants of StoreProofs and FindValueProofs at work here.
LEMMA PutInvariant == P!Init => P!IInv
  BY BoundsAssumption, P!InitIInv

LEMMA GetInvariant == G!Init => G!IInv
  BY BoundsAssumption, NodesAssumption, ValueAssumption, RankType, G!InitIInv

LEMMA PutNext == P!IInv /\ [P!Next]_(P!vars) => P!IInv'
  BY BoundsAssumption, P!NextIInv

LEMMA GetNext == G!IInv /\ [G!Next]_(G!vars) => G!IInv'
  BY BoundsAssumption, NodesAssumption, ValueAssumption, RankType, G!NextIInv

\* The finite set of peers that a table yields becomes a sequence of them.
LEMMA SequenceOfPeers ==
  ASSUME NEW S \in SUBSET Peers, Cardinality(S) <= K
  PROVE  /\ SetToSeq(S) \in P!Answers
         /\ \A i \in DOMAIN SetToSeq(S) : SetToSeq(S)[i] \in S
  <1> DEFINE n == Cardinality(S)
             s == SetToSeq(S)
  <1>1. IsFiniteSet(S) /\ n \in Nat /\ n <= K
    BY NodesAssumption, FS_Subset, FS_CardinalityType
  <1>2. PICK f \in [1..n -> S] : IsInjective(f)
    <2>1. ExistsBijection(1..n, S)
      BY <1>1, FS_CardinalityType
    <2> QED
      BY <2>1 DEF ExistsBijection, Bijection, Injection, Surjection, IsInjective
  <1>3. s \in [1..n -> S] /\ IsInjective(s)
    BY <1>2 DEF SetToSeq
  <1>4. s \in [1..n -> Peers] /\ n \in 0..K
    BY <1>1, <1>3, BoundsAssumption
  <1>5. P!IsInjective(s)
    BY <1>3 DEF IsInjective, P!IsInjective
  <1> HIDE DEF n, s
  <1>6. s \in P!Answers
    BY <1>4, <1>5 DEF P!Answers, P!BoundedSeq, P!SeqOf
  <1> QED
    BY <1>3, <1>6 DEF s

\* What a table yields is a part of what it knows, and not more than K peers.
LEMMA Yielded ==
  ASSUME NEW n \in Peers, NEW S, Yields(n, S)
  PROVE  S \subseteq known[n] /\ Cardinality(S) <= K
  <1>1. Table(n)!Cardinality(S) = Cardinality(S)
    BY DEF Table!Cardinality, Cardinality
  <1> QED
    BY <1>1 DEF Yields, Table!Nearest, Table!Visible, Table!Bucket

\* The tables keep their shape.
Tables ==
  /\ known \in [Peers -> SUBSET Peers]
  /\ depth \in [Peers -> Nat \ {0}]
  /\ refused \in [Peers -> SUBSET Peers]

\* A table that learns of a peer forgets none, and the others stay as they are.
LEMMA RecordTables ==
  ASSUME Tables, NEW n \in Peers, NEW p \in Peers, Record(n, p)
  PROVE  /\ Tables'
         /\ \A q \in Peers : known[q] \subseteq known'[q]
         /\ p \in known'[n] \cup refused'[n]
  <1>1. /\ known'[n] \in {known[n], known[n] \cup {p}} /\ depth'[n] \in depth[n]..(W + 2)
        /\ refused'[n] \in {refused[n], refused[n] \cup {p}}
        /\ \A q \in Peers \ {n} : known'[q] = known[q]
    BY DEF Tables, Record
  <1>2. Tables'
    BY WAssumption DEF Tables, Record
  <1>3. p \in known'[n] \cup refused'[n]
    BY DEF Record, Table!Update, Table!Touch, Table!Insert, Table!Unfold, Table!Refuse, Table!vars
  <1> QED
    BY <1>1, <1>2, <1>3

\* A step of the network is a step of the put or leaves it alone.
LEMMA PutStepIsPut ==
  ASSUME Tables, [Next]_vars
  PROVE  [P!Next]_(P!vars)
  <1>1. ASSUME NEW S \in SUBSET Peers, PutNearest(S)
        PROVE  P!Next
    <2> DEFINE s == SetToSeq(S)
    <2>1. s \in P!Answers
      BY <1>1, NodesAssumption, Yielded, SequenceOfPeers DEF PutNearest
    <2> HIDE DEF s
    <2>2. P!NearestPeers(s)
      BY <1>1 DEF PutNearest, Put!NearestPeers, P!NearestPeers, s, P!Waiting, Put!Waiting
    <2> QED
      BY <2>1, <2>2 DEF P!Next
  <1>2. ASSUME NEW i \in DOMAIN peers, NEW p \in Peers, PeerStores(i, p)
        PROVE  P!Next
    <2>1. P!PeerStores(i)
      BY <1>2 DEF PeerStores, Put!PeerStores, P!PeerStores
    <2> QED
      BY <2>1 DEF P!Next
  <1>3. ASSUME NEW i \in DOMAIN peers, PutRpc(i)
        PROVE  P!Next
    <2>1. P!Rpc(i)
      BY <1>3 DEF PutRpc, Put!Rpc, P!Rpc, Put!ReplyArrives, P!ReplyArrives,
         Put!ConnectFails, P!ConnectFails, Put!RpcFails, P!RpcFails,
         Put!Waiting, P!Waiting, Put!ErrorCode, P!ErrorCode
    <2> QED
      BY <2>1 DEF P!Next
  <1>4. CASE PutReturn
    <2>1. P!Return
      BY <1>4 DEF PutReturn, Put!Return, P!Return, Put!Ready, P!Ready, Put!Waiting, P!Waiting,
         Put!AllFailed, P!AllFailed, Put!Failures, P!Failures, Put!last_error, P!last_error,
         Put!Cardinality, P!Cardinality, Put!Max, P!Max, Put!Err, P!Err, Put!Ok, P!Ok
    <2> QED
      BY <2>1 DEF P!Next
  <1>5. ASSUME \/ \E m \in Meetings : Contact(m[1], m[2])
               \/ GetStep
               \/ \E p \in Peers : Task(p) \/ Restart(p)
               \/ UNCHANGED vars
        PROVE  UNCHANGED P!vars
    BY <1>5 DEF Contact, GetStep, GetLocally, GetNearest, GetLoop, Task, AnswerValue,
       AnswerPeers, QueryFails, Restart, vars, put, P!vars
  <1> QED
    BY <1>1, <1>2, <1>3, <1>4, <1>5 DEF Next, PutStep

\* A step of the network is a step of the get, or leaves it alone, or a restart.
LEMMA GetStepIsGet ==
  ASSUME Tables, [Next]_vars, \A n \in Peers : ~Restart(n)
  PROVE  [G!Next]_(G!vars)
  <1> USE DEF Get!client, G!client, Get!nodes, G!nodes, Get!seen, G!seen, G!Found, Get!Found, G!NotFound, Get!NotFound
  <1>1. CASE GetLocally
    <2>1. G!FindValueLocal
      BY <1>1 DEF GetLocally, Get!FindValueLocal, G!FindValueLocal, Get!HeldLocally, G!HeldLocally
    <2> QED
      BY <2>1 DEF G!Next, G!Client
  <1>2. ASSUME NEW S \in SUBSET Peers, GetNearest(S)
        PROVE  G!Next
    <2>1. G!NearestPeers(S)
      BY <1>2 DEF GetNearest, Get!NearestPeers, G!NearestPeers, Get!Cardinality, G!Cardinality
    <2> QED
      BY <2>1 DEF G!Next, G!Client, G!Answers
  <1>3. CASE GetLoop
    <2>1. ASSUME Get!CheckCandidates PROVE G!CheckCandidates
      BY <2>1 DEF Get!CheckCandidates, G!CheckCandidates, Get!Exhausted, G!Exhausted
    <2>2. ASSUME NEW p \in Peers, Get!SpawnQuery(p) PROVE G!SpawnQuery(p)
      BY <2>2 DEF Get!SpawnQuery, G!SpawnQuery, Get!CanSpawn, G!CanSpawn,
         Get!NearestCandidate, G!NearestCandidate
    <2>3. ASSUME Get!Await PROVE G!Await
      BY <2>3 DEF Get!Await, G!Await, Get!CanSpawn, G!CanSpawn
    <2>4. ASSUME Get!Receive PROVE G!Receive
      BY <2>4 DEF Get!Receive, G!Receive, Get!HasValue, G!HasValue,
         Get!NewCandidates, G!NewCandidates
    <2> QED
      BY <1>3, <2>1, <2>2, <2>3, <2>4 DEF GetLoop, G!Next, G!Client
  <1>4. ASSUME NEW p \in Peers, Task(p)
        PROVE  G!Next
    <2> USE DEF Get!Report, G!Report, Get!Sent, G!Sent
    <2>1. ASSUME AnswerValue(p) PROVE G!AnswerValue(p)
      BY <2>1 DEF AnswerValue, Get!AnswerValue, G!AnswerValue
    <2>2. ASSUME NEW S \in SUBSET Peers, AnswerPeers(p, S) PROVE G!AnswerPeers(p, S)
      BY <2>2 DEF AnswerPeers, Get!AnswerPeers, G!AnswerPeers, Get!Cardinality, G!Cardinality
    <2>3. ASSUME QueryFails(p) PROVE G!QueryFails(p)
      BY <2>3 DEF QueryFails, Get!QueryFails, G!QueryFails
    <2>4. G!Task(p)
      BY <1>4, <2>1, <2>2, <2>3 DEF Task, G!Task, G!Answers
    <2> QED
      BY <2>4 DEF G!Next
  <1>5. ASSUME NEW i \in DOMAIN peers, NEW p \in Peers, PeerStores(i, p)
        PROVE  G!Next
    <2>1. G!StoreAt(p, Value)
      BY <1>5 DEF PeerStores, Get!StoreAt, G!StoreAt
    <2> QED
      BY <2>1 DEF G!Next
  <1>6. ASSUME \/ \E m \in Meetings : Contact(m[1], m[2])
               \/ PutStep
               \/ UNCHANGED vars
        PROVE  UNCHANGED G!vars
    BY <1>6 DEF Contact, PutStep, PutNearest, PutRpc, PutReturn, vars, get, nodes, G!vars
  <1> QED
    BY <1>1, <1>2, <1>3, <1>4, <1>5, <1>6 DEF Next, GetStep

\* No query is lost to a panic: the addresses of nodes parse.
LEMMA NoneLost == G!Lost = {} /\ G!Cardinality(G!Lost) = 0
  <1>1. G!Lost = {}
    BY DEF G!Lost
  <1>2. G!Cardinality({}) = Cardinality({})
    BY DEF G!Cardinality, Cardinality
  <1> QED
    BY <1>1, <1>2, FS_EmptySet

\* A node that restarts loses its value; what it held before stays in the history.
LEMMA RestartGet ==
  ASSUME G!IInv, NEW n \in Peers, Restart(n)
  PROVE  G!IInv'
  <1> USE DEF G!IInv, Restart, get
  <1>1. G!TypeOK'
    BY DEF G!TypeOK
  <1>2. (G!IsFiniteSet(tasks) /\ G!IsFiniteSet(G!Lost) /\ G!InProgressExact)'
    BY DEF G!InProgressExact, G!Lost
  <1>3. (G!Disjoint /\ G!Remembered /\ G!Progress /\ G!FoundWasHeld)'
    BY DEF G!Disjoint, G!Remembered, G!Progress, G!FoundWasHeld
  <1>4. G!Honest'
    BY DEF G!Honest, G!TypeOK
  <1> QED
    BY <1>1, <1>2, <1>4, <1>3
-----------------------------------------------------------------------------
(***************************************************************************)
(* What holds in networks of every size.                                   *)
(***************************************************************************)

\* The histories keep their types.
Histories ==
  /\ restarts \in 0..MaxRestarts /\ failed \in SUBSET Peers
  /\ start \in [known : [Peers -> SUBSET Peers], store : [Peers -> {Value, None}]]

TInv == Tables /\ P!IInv /\ G!IInv /\ Histories

LEMMA InitTInv == Init => TInv
  <1> SUFFICES ASSUME Init PROVE TInv
    OBVIOUS
  <1>1. Tables
    BY DEF Init, Tables
  <1>2. P!Init
    BY DEF Init, Put!Init, P!Init, Put!Pending, P!Pending
  <1>3. G!Init
    BY DEF Init, Get!Init, G!Init, Get!Pending, G!Pending
  <1>4. Histories
    BY BoundsAssumption DEF Init, Histories
  <1> QED
    BY <1>1, <1>2, <1>3, <1>4, PutInvariant, GetInvariant DEF TInv

LEMMA NextTables == Tables /\ [Next]_vars => Tables'
  <1> SUFFICES ASSUME Tables, [Next]_vars PROVE Tables'
    OBVIOUS
  <1>1. CASE \E n \in Peers, p \in Peers : Record(n, p)
    BY <1>1, RecordTables
  <1>2. ASSUME NEW n \in Peers, Restart(n) PROVE Tables'
    BY <1>2 DEF Restart, Tables
  <1>3. CASE UNCHANGED tables
    BY <1>3 DEF tables, Tables
  <1>4. \/ \E n \in Peers, p \in Peers : Record(n, p)
        \/ \E n \in Peers : Restart(n)
        \/ UNCHANGED tables
    BY NodesAssumption, MeetingsAssumption DEF Next, Contact, PutStep, PutNearest, PeerStores, PutRpc, PutReturn, GetStep,
       GetLocally, GetNearest, GetLoop, Task, AnswerValue, AnswerPeers, QueryFails, vars
  <1> QED
    BY <1>1, <1>2, <1>3, <1>4

LEMMA NextHistories == TInv /\ [Next]_vars => Histories'
  <1> SUFFICES ASSUME TInv, [Next]_vars PROVE Histories'
    OBVIOUS
  <1>1. store \in [Peers -> {Value, None}]
    BY DEF TInv, G!IInv, G!TypeOK
  <1>2. ASSUME NEW S \in SUBSET Peers, GetNearest(S) PROVE Histories'
    BY <1>1, <1>2 DEF GetNearest, Tables, TInv, Histories
  <1>3. ASSUME NEW n \in Peers, Restart(n) PROVE Histories'
    BY <1>3, BoundsAssumption DEF Restart, TInv, Histories
  <1>4. ASSUME NEW p \in Peers, QueryFails(p) PROVE Histories'
    BY <1>4 DEF QueryFails, TInv, Histories
  <1>5. CASE UNCHANGED history
    BY <1>5 DEF history, TInv, Histories
  <1>6. \/ \E S \in SUBSET Peers : GetNearest(S)
        \/ \E p \in Peers : Restart(p) \/ QueryFails(p)
        \/ UNCHANGED history
    BY DEF Next, Contact, PutStep, PutNearest, PeerStores, PutRpc, PutReturn, GetStep,
       GetLocally, GetLoop, Task, AnswerValue, AnswerPeers, vars
  <1> QED
    BY <1>2, <1>3, <1>4, <1>5, <1>6

LEMMA NextTInv == TInv /\ [Next]_vars => TInv'
  <1> SUFFICES ASSUME TInv, [Next]_vars PROVE TInv'
    OBVIOUS
  <1>1. P!IInv'
    BY PutStepIsPut, PutNext DEF TInv
  <1>2. G!IInv'
    BY GetStepIsGet, GetNext, RestartGet DEF TInv
  <1> QED
    BY <1>1, <1>2, NextTables, NextHistories DEF TInv

\* Type correctness of the network with its tables, the put and the get.
THEOREM TypeCorrect == Spec => []TypeOK
  <1>1. TInv => TypeOK
    <2> SUFFICES ASSUME TInv PROVE TypeOK
      OBVIOUS
    <2>1. ASSUME NEW n \in Peers PROVE Table(n)!TypeOK
      <3>1. known[n] \in SUBSET Peers /\ depth[n] \in Nat \ {0} /\ refused[n] \in SUBSET Peers
        BY DEF TInv, Tables
      <3>2. IsFiniteSet(known[n])
        BY <3>1, NodesAssumption, FS_Subset
      <3>3. Table(n)!IsFiniteSet(known[n])
        BY <3>2 DEF IsFiniteSet, Table!IsFiniteSet
      <3> QED
        BY <3>1, <3>3 DEF Table!TypeOK
    <2>2. Put!TypeOK /\ Get!TypeOK
      BY SamePut, SameGet DEF TInv, P!IInv, G!IInv
    <2> QED
      BY <2>1, <2>2 DEF TInv, Histories, TypeOK
  <1> QED
    BY <1>1, InitTInv, NextTInv, PTL DEF Spec

\* The put at work in the network implements module Store, but for fairness.
THEOREM PutImplemented == Spec => P!Init /\ [][P!Next]_(P!vars)
  <1>1. Init => P!Init
    BY DEF Init, Put!Init, P!Init, Put!Pending, P!Pending
  <1>2. TInv /\ [Next]_vars => [P!Next]_(P!vars)
    BY PutStepIsPut DEF TInv
  <1> QED
    BY <1>1, <1>2, InitTInv, NextTInv, PTL DEF Spec

(***************************************************************************)
(* What the put and the get promise by themselves they promise in the      *)
(* network too, where their peers are nodes that learn, restart and lose   *)
(* what they held.                                                         *)
(***************************************************************************)
THEOREM PromisesKept ==
  Spec => [](/\ Put!OkMeansStored
             /\ Get!InProgressExact /\ Get!FoundWasHeld)
  <1>1. TInv => Put!OkMeansStored
    <2> SUFFICES ASSUME TInv, put_outcome = P!Ok PROVE stored # {}
      BY DEF Put!OkMeansStored, P!Ok, Put!Ok
    <2> USE DEF TInv, P!IInv
    <2>1. put_pc = "done"
      BY DEF P!Returned, P!Ok, P!Pending
    <2>2. PICK i \in DOMAIN result : result[i] = "OK"
      BY <2>1 DEF P!ConfirmedMeansOk
    <2> QED
      BY <2>2 DEF P!TypeOK, P!Confirmed
  <1>2. TInv => Get!InProgressExact /\ Get!FoundWasHeld
    BY DEF TInv, G!IInv, Get!InProgressExact, G!InProgressExact, Get!FoundWasHeld, G!FoundWasHeld,
       Get!Cardinality, G!Cardinality, Get!Lost, G!Lost
  <1> QED
    BY <1>1, <1>2, InitTInv, NextTInv, PTL DEF Spec
-----------------------------------------------------------------------------
(***************************************************************************)
(* How the put comes before the get, and what the histories tell about the *)
(* present.  Tables only grow and values only change, except at nodes that *)
(* restart (Kept); the writer, which does not, knows the nodes that store  *)
(* its value (Holders), so that the get starts with one of them behind the *)
(* writer (Linked).                                                        *)
(***************************************************************************)
Looking == pc \in {"loop", "spawn", "recv"}

Phases ==
  /\ outcome = Get!Pending <=> pc # "done"
  /\ pc # "find_value_local" => put_outcome = Put!Ok

Kept ==
  \A p \in Peers \ failed : /\ start.known[p] \subseteq known[p]
                            /\ start.store[p] # None => store[p] # None

Holders ==
  /\ \A i \in DOMAIN peers : peers[i] \in known[Writer]
  /\ restarts = 0 => \A p \in stored : store[p] = Value

Linked ==
  (Looking \/ outcome = Get!NotFound) /\ restarts = 0 =>
     \E p \in start.known[Writer] : start.store[p] # None

NInv == TInv /\ Phases /\ Kept /\ Holders /\ Linked

LEMMA InitNInv == Init => NInv
  <1> SUFFICES ASSUME Init PROVE NInv
    OBVIOUS
  <1>1. Phases /\ Kept /\ Holders /\ Linked
    BY NodesAssumption DEF Init, Get!Init, Put!Init, Phases, Kept, Holders, Linked, Looking, Get!Pending, Get!NotFound
  <1> QED
    BY <1>1, InitTInv DEF NInv

\* Without a restart no table forgets a peer and no node loses its value.
LEMMA Growth ==
  ASSUME TInv, [Next]_vars, \A n \in Peers : ~Restart(n), NEW q \in Peers
  PROVE  known[q] \subseteq known'[q] /\ (store[q] # None => store'[q] # None)
  <1>1. \/ \E n \in Peers, p \in Peers : Record(n, p)
        \/ UNCHANGED known
    BY NodesAssumption, MeetingsAssumption DEF Next, Contact, PutStep, PutNearest, PeerStores, PutRpc, PutReturn, GetStep,
       GetLocally, GetNearest, GetLoop, Task, AnswerValue, AnswerPeers, QueryFails, vars, tables
  <1>2. known[q] \subseteq known'[q]
    BY <1>1, RecordTables DEF TInv
  <1>3. \/ \E p \in Peers : store' = [store EXCEPT ![p] = Value]
        \/ UNCHANGED store
    <2> USE DEF get, nodes, Get!nodes, Get!Report
    <2>1. ASSUME NEW i \in DOMAIN peers, NEW p \in Peers, PeerStores(i, p)
          PROVE  store' = [store EXCEPT ![p] = Value]
      BY <2>1 DEF PeerStores, Get!StoreAt
    <2>2. CASE GetStep
      BY <2>2 DEF GetStep, GetLocally, GetNearest, GetLoop, Get!FindValueLocal, Get!NearestPeers,
         Get!CheckCandidates, Get!SpawnQuery, Get!Await, Get!Receive
    <2>3. ASSUME NEW p \in Peers, Task(p)
          PROVE  UNCHANGED store
      BY <2>3 DEF Task, AnswerValue, AnswerPeers, QueryFails, Get!AnswerValue, Get!AnswerPeers,
         Get!QueryFails
    <2>4. ASSUME \/ \E m \in Meetings : Contact(m[1], m[2])
                 \/ PutStep
                 \/ UNCHANGED vars
          PROVE  UNCHANGED store
      BY <2>4 DEF Contact, PutStep, PutNearest, PutRpc, PutReturn, vars
    <2> QED
      BY <2>1, <2>2, <2>3, <2>4 DEF Next
  <1>4. store \in [Peers -> {Value} \cup {None}]
    BY DEF TInv, G!IInv, G!TypeOK
  <1> QED
    BY <1>2, <1>3, <1>4, ValueAssumption

LEMMA NextKept == NInv /\ [Next]_vars => Kept'
  <1> SUFFICES ASSUME NInv, [Next]_vars PROVE Kept'
    OBVIOUS
  <1> USE DEF NInv
  <1>1. CASE \E S \in SUBSET Peers : GetNearest(S)
    BY <1>1 DEF GetNearest, Get!NearestPeers, Get!nodes, tables, Kept
  <1>2. ASSUME NEW n \in Peers, Restart(n)
        PROVE  Kept'
    <2>1. \A p \in Peers \ failed' : known'[p] = known[p] /\ store'[p] = store[p]
      BY <1>2 DEF Restart, TInv, Tables, G!IInv, G!TypeOK
    <2> QED
      BY <1>2, <2>1 DEF Restart, Kept
  <1>3. CASE (\A n \in Peers : ~Restart(n)) /\ (\A S \in SUBSET Peers : ~GetNearest(S))
    <2>1. start' = start /\ failed \subseteq failed'
      BY <1>3 DEF Next, Contact, PutStep, PutNearest, PeerStores, PutRpc, PutReturn, GetStep,
         GetLocally, GetLoop, Task, AnswerValue, AnswerPeers, QueryFails, vars, history
    <2> QED
      BY <1>3, <2>1, Growth DEF Kept
  <1> QED
    BY <1>1, <1>2, <1>3

LEMMA NextHolders == NInv /\ [Next]_vars => Holders'
  <1> SUFFICES ASSUME NInv, [Next]_vars PROVE Holders'
    OBVIOUS
  <1> USE DEF NInv
  <1>1. ASSUME NEW S \in SUBSET Peers, PutNearest(S)
        PROVE  Holders'
    <2>1. S \subseteq known[Writer] /\ peers' = SetToSeq(S)
          /\ \A i \in DOMAIN SetToSeq(S) : SetToSeq(S)[i] \in S
      BY <1>1, NodesAssumption, Yielded, SequenceOfPeers DEF PutNearest, Put!NearestPeers
    <2>2. UNCHANGED <<known, stored, store, restarts>>
      BY <1>1 DEF PutNearest, Put!NearestPeers, tables, nodes, history
    <2> QED
      BY <2>1, <2>2 DEF Holders
  <1>2. ASSUME NEW i \in DOMAIN peers, NEW p \in Peers, PeerStores(i, p)
        PROVE  Holders'
    <2>1. /\ peers' = peers /\ stored' = stored \cup {p} /\ restarts' = restarts
          /\ store' = [store EXCEPT ![p] = Value]
      BY <1>2 DEF PeerStores, Put!PeerStores, Get!StoreAt, history
    <2>2. known[Writer] \subseteq known'[Writer]
      BY <1>2, NodesAssumption, RecordTables DEF PeerStores, TInv
    <2>3. \A q \in stored \cup {p} : q \in Peers /\ (q = p \/ q \in stored)
      BY DEF TInv, P!IInv, P!TypeOK, P!Answers, P!BoundedSeq, P!SeqOf, P!ToSet
    <2>4. store \in [Peers -> {Value} \cup {None}]
      BY DEF TInv, G!IInv, G!TypeOK
    <2> QED
      BY <2>1, <2>2, <2>3, <2>4 DEF Holders
  <1>3. ASSUME NEW n \in Peers, Restart(n)
        PROVE  Holders'
    BY <1>3, BoundsAssumption DEF Restart, put, TInv, Tables, Histories, Holders
  <1>4. CASE /\ \A n \in Peers : ~Restart(n)
             /\ \A S \in SUBSET Peers : ~PutNearest(S)
             /\ \A i \in DOMAIN peers, p \in Peers : ~PeerStores(i, p)
    <2>1. UNCHANGED <<peers, stored, store, restarts>>
      <3> USE DEF get, nodes, history, put, Get!nodes, Get!Report
      <3>1. CASE PutStep
        BY <1>4, <3>1 DEF PutStep, PutRpc, PutReturn, Put!Rpc, Put!ReplyArrives, Put!ConnectFails,
           Put!RpcFails, Put!Return
      <3>2. CASE GetStep
        BY <3>2 DEF GetStep, GetLocally, GetNearest, GetLoop, Get!FindValueLocal, Get!NearestPeers,
           Get!CheckCandidates, Get!SpawnQuery, Get!Await, Get!Receive
      <3>3. ASSUME NEW p \in Peers, Task(p)
            PROVE  UNCHANGED <<peers, stored, store, restarts>>
        BY <3>3 DEF Task, AnswerValue, AnswerPeers, QueryFails, Get!AnswerValue, Get!AnswerPeers,
           Get!QueryFails
      <3>4. CASE (\E m \in Meetings : Contact(m[1], m[2])) \/ UNCHANGED vars
        BY <3>4 DEF Contact, vars
      <3> QED
        BY <1>4, <3>1, <3>2, <3>3, <3>4 DEF Next
    <2> QED
      BY <1>4, <2>1, NodesAssumption, Growth DEF Holders
  <1> QED
    BY <1>1, <1>2, <1>3, <1>4

\* Only the get moves its caller and decides its outcome.
LEMMA OthersLeaveGet ==
  ASSUME [Next]_vars, ~GetStep
  PROVE  UNCHANGED <<pc, candidates, queried, in_progress, outcome, start>>
  <1> USE DEF get, nodes, history, Get!client, Get!nodes, Get!Report
  <1>1. ASSUME NEW p \in Peers, Task(p)
        PROVE  UNCHANGED <<pc, candidates, queried, in_progress, outcome, start>>
    BY <1>1 DEF Task, AnswerValue, AnswerPeers, QueryFails, Get!AnswerValue, Get!AnswerPeers,
       Get!QueryFails
  <1>2. ASSUME NEW i \in DOMAIN peers, NEW p \in Peers, PeerStores(i, p)
        PROVE  UNCHANGED <<pc, candidates, queried, in_progress, outcome, start>>
    BY <1>2 DEF PeerStores, Get!StoreAt
  <1>3. ASSUME \/ \E m \in Meetings : Contact(m[1], m[2])
               \/ PutStep
               \/ \E p \in Peers : Restart(p)
               \/ UNCHANGED vars
        PROVE  UNCHANGED <<pc, candidates, queried, in_progress, outcome, start>>
    BY <1>3 DEF Contact, PutStep, PutNearest, PutRpc, PutReturn, Restart, vars
  <1> QED
    BY <1>1, <1>2, <1>3 DEF Next

LEMMA NextPhases == NInv /\ [Next]_vars => Phases'
  <1> SUFFICES ASSUME NInv, [Next]_vars PROVE Phases'
    OBVIOUS
  <1> USE DEF NInv, Get!Pending, Get!NotFound, Get!Found
  <1>1. put_outcome = Put!Ok => put_outcome' = Put!Ok
    <2>1. put_outcome = Put!Ok => put_pc = "done"
      BY DEF TInv, P!IInv, P!Returned, P!Pending, Put!Ok
    <2>2. CASE PutStep
      BY <2>1, <2>2 DEF PutStep, PutNearest, PutRpc, PutReturn, Put!NearestPeers, Put!Rpc,
         Put!ReplyArrives, Put!ConnectFails, Put!RpcFails, Put!Return
    <2>3. ASSUME NEW i \in DOMAIN peers, NEW p \in Peers, PeerStores(i, p)
          PROVE  UNCHANGED put_outcome
      BY <2>3 DEF PeerStores, Put!PeerStores
    <2>4. CASE \/ \E m \in Meetings : Contact(m[1], m[2])
               \/ GetStep
               \/ \E p \in Peers : Task(p) \/ Restart(p)
               \/ UNCHANGED vars
      BY <2>4 DEF Contact, GetStep, GetLocally, GetNearest, GetLoop, Task, AnswerValue,
         AnswerPeers, QueryFails, Restart, vars, put
    <2> QED
      BY <2>2, <2>3, <2>4 DEF Next
  <1>2. CASE GetLocally
    BY <1>1, <1>2 DEF GetLocally, Get!FindValueLocal, Phases
  <1>3. ASSUME NEW S \in SUBSET Peers, GetNearest(S)
        PROVE  Phases'
    BY <1>1, <1>3 DEF GetNearest, Get!NearestPeers, Phases
  <1>4. CASE GetLoop
    BY <1>1, <1>4 DEF GetLoop, Get!CheckCandidates, Get!SpawnQuery, Get!Await, Get!Receive,
       Get!client, Phases
  <1>5. CASE ~GetStep
    BY <1>1, <1>5, OthersLeaveGet DEF Phases
  <1> QED
    BY <1>2, <1>3, <1>4, <1>5 DEF GetStep

LEMMA NextLinked == NInv /\ [Next]_vars => Linked'
  <1> SUFFICES ASSUME NInv, [Next]_vars PROVE Linked'
    OBVIOUS
  <1> USE DEF NInv, Get!Pending, Get!NotFound, Get!Found
  <1>1. ASSUME NEW S \in SUBSET Peers, GetNearest(S)
        PROVE  Linked'
    <2>1. start' = [known |-> known, store |-> store] /\ restarts' = restarts
          /\ put_outcome = Put!Ok
      BY <1>1 DEF GetNearest, Get!NearestPeers, Phases
    <2>2. PICK p \in stored : TRUE
      <3>1. put_pc = "done" /\ put_outcome = P!Ok
        BY <2>1 DEF TInv, P!IInv, P!Returned, P!Pending, Put!Ok, P!Ok
      <3>2. PICK i \in DOMAIN result : result[i] = "OK"
        BY <3>1 DEF TInv, P!IInv, P!ConfirmedMeansOk
      <3> QED
        BY <3>2 DEF TInv, P!IInv, P!TypeOK, P!Confirmed
    <2>3. PICK i \in DOMAIN peers : p = peers[i]
      <3>1. p \in P!ToSet(peers) /\ peers \in P!Answers
        BY <2>2 DEF TInv, P!IInv, P!TypeOK
      <3>2. PICK n \in 0..K : peers \in [1..n -> Peers]
        BY <3>1 DEF P!Answers, P!BoundedSeq, P!SeqOf
      <3> QED
        BY <3>1, <3>2 DEF P!ToSet
    <2>4. p \in known[Writer]
      BY <2>3 DEF Holders
    <2> QED
      BY <2>1, <2>2, <2>4, ValueAssumption DEF Holders, Linked
  <1>2. CASE GetLocally \/ GetLoop
    <2>1. UNCHANGED <<start, restarts>>
      BY <1>2 DEF GetLocally, GetLoop, history
    <2>2. Looking' \/ outcome' = Get!NotFound => Looking \/ outcome = Get!NotFound
      BY <1>2 DEF GetLocally, GetLoop, Get!FindValueLocal, Get!CheckCandidates, Get!SpawnQuery,
         Get!Await, Get!Receive, Looking
    <2> QED
      BY <2>1, <2>2 DEF Linked
  <1>3. CASE ~GetStep
    <2>1. restarts' = 0 => restarts = 0
      <3>1. restarts' = restarts \/ restarts' = restarts + 1
        BY <1>3 DEF Next, Contact, PutStep, PutNearest, PeerStores, PutRpc, PutReturn, Task,
           AnswerValue, AnswerPeers, QueryFails, Restart, vars, history
      <3> QED
        BY <3>1, BoundsAssumption DEF TInv, Histories
    <2> QED
      BY <1>3, <2>1, OthersLeaveGet DEF Linked, Looking
  <1> QED
    BY <1>1, <1>2, <1>3 DEF GetStep

LEMMA NInvariance == Spec => []NInv
  <1>1. NInv /\ [Next]_vars => NInv'
    BY NextTInv, NextPhases, NextKept, NextHolders, NextLinked DEF NInv
  <1> QED
    BY <1>1, InitNInv, PTL DEF Spec
-----------------------------------------------------------------------------
(***************************************************************************)
(* Networks whose nodes fit into one bucket: there are at most K of them.  *)
(* No table unfolds or refuses a peer, and each yields all that it knows.  *)
(***************************************************************************)
SmallNetwork == Cardinality(Peers) <= K

Roomy == \A n \in Peers : depth[n] = 1 /\ refused[n] = {}

\* The only bucket of a table holds all that the node knows.
LEMMA OneBucket ==
  ASSUME NEW n \in Peers, known[n] \in SUBSET Peers
  PROVE  /\ Table(n)!Bucket(0, 1) = known[n]
         /\ \A target \in Id : Table(n)!Slot(common_prefix_length(n.id, target), 1) = 0
  <1>1. ASSUME NEW target \in Id
        PROVE  Table(n)!Slot(common_prefix_length(n.id, target), 1) = 0
    <2> DEFINE common == {i \in 1..W : \A j \in 1..i : ~Distance(n.id, target)[j]}
    <2>1. IsFiniteSet(1..W) /\ common \in SUBSET (1..W)
      BY WAssumption, FS_Interval, SMT
    <2>2. Cardinality(common) \in Nat
      BY <2>1, FS_Subset, FS_CardinalityType
    <2>3. common_prefix_length(n.id, target) = Cardinality(common)
      BY DEF common_prefix_length, LeadingZeros
    <2> QED
      BY <2>2, <2>3 DEF Table!Slot
  <1>2. ASSUME NEW q \in Peers
        PROVE  Table(n)!Slot(Table(n)!Cpl(q), 1) = 0
    <2>1. Table(n)!Cpl(q) = common_prefix_length(n.id, q.id)
      BY DEF Table!Cpl, Table!common_prefix_length, Table!LeadingZeros, Table!Distance,
         Table!Cardinality, common_prefix_length, LeadingZeros, Distance, Cardinality
    <2> QED
      BY <1>1, <2>1, IdAssumption
  <1> QED
    BY <1>1, <1>2 DEF Table!Bucket

\* A bucket that lacks one of the nodes has room.
LEMMA NeverFull ==
  ASSUME SmallNetwork, NEW n \in Peers, known[n] \in SUBSET Peers,
         NEW p \in Peers, p \notin known[n]
  PROVE  ~Table(n)!Full(0, 1)
  <1>1. Table(n)!Cardinality(known[n]) = Cardinality(known[n])
    BY DEF Table!Cardinality, Cardinality
  <1>2. Cardinality(known[n]) <= Cardinality(Peers) /\ Cardinality(known[n]) # Cardinality(Peers)
        /\ Cardinality(known[n]) \in Nat /\ Cardinality(Peers) \in Nat
    BY NodesAssumption, FS_Subset, FS_CardinalityType
  <1>3. ~(Cardinality(known[n]) >= K)
    BY <1>2, BoundsAssumption DEF SmallNetwork
  <1> QED
    BY <1>1, <1>3, OneBucket DEF Table!Full

LEMMA RecordRoomy ==
  ASSUME SmallNetwork, Tables, Roomy, NEW n \in Peers, NEW p \in Peers, Record(n, p)
  PROVE  Roomy' /\ p \in known'[n]
  <1>1. depth[n] = 1 /\ refused[n] = {} /\ known[n] \in SUBSET Peers
    BY DEF Roomy, Tables
  <1>2. Table(n)!Slot(Table(n)!Cpl(p), 1) = 0
    <2>1. Table(n)!Cpl(p) = common_prefix_length(n.id, p.id)
      BY DEF Table!Cpl, Table!common_prefix_length, Table!LeadingZeros, Table!Distance,
         Table!Cardinality, common_prefix_length, LeadingZeros, Distance, Cardinality
    <2> QED
      BY <1>1, <2>1, IdAssumption, OneBucket
  <1>3. ~Table(n)!Unfold(p) /\ ~Table(n)!Refuse(p)
    BY <1>1, <1>2, NeverFull DEF Table!Unfold, Table!Refuse
  <1>4. depth'[n] = depth[n] /\ refused'[n] = refused[n]
    BY <1>3 DEF Record, Table!Update, Table!Touch, Table!Insert, Table!vars
  <1>5. Roomy'
    BY <1>1, <1>4 DEF Roomy, Record, Tables
  <1> QED
    BY <1>5, RecordTables DEF Roomy

\* nearest_peers() yields every peer that the node knows.
LEMMA YieldsAll ==
  SmallNetwork /\ Tables /\ Roomy => \A n \in Peers : \A S : Yields(n, S) => S = known[n]
  <1> SUFFICES ASSUME SmallNetwork, Tables, Roomy, NEW n \in Peers, NEW S, Yields(n, S)
               PROVE  S = known[n]
    OBVIOUS
  <1>1. known[n] \in SUBSET Peers /\ depth[n] = 1
    BY DEF Tables, Roomy
  <1>2. Table(n)!common_prefix_length(n.id, Key) = common_prefix_length(n.id, Key)
    BY DEF Table!common_prefix_length, Table!LeadingZeros, Table!Distance,
       Table!Cardinality, common_prefix_length, LeadingZeros, Distance, Cardinality
  <1>3. Table(n)!Visible(Key, K) = known[n]
    BY <1>1, <1>2, IdAssumption, OneBucket DEF Table!Visible, Table!Bucket
  <1>4. S \subseteq known[n] /\ (S = known[n] \/ Table(n)!Cardinality(S) = K)
    BY <1>3 DEF Yields, Table!Nearest
  <1>5. Table(n)!Cardinality(S) = Cardinality(S)
    BY DEF Table!Cardinality, Cardinality
  <1>6. ASSUME Cardinality(S) = K PROVE S = Peers
    BY <1>1, <1>4, <1>6, NodesAssumption, BoundsAssumption, FS_Subset, FS_CardinalityType
       DEF SmallNetwork
  <1> QED
    BY <1>1, <1>4, <1>5, <1>6

LEMMA YieldsAllNext ==
  (SmallNetwork /\ Tables /\ Roomy => \A n \in Peers : \A S : Yields(n, S) => S = known[n])'
  BY YieldsAll, PTL

(***************************************************************************)
(* The lookup explores what can be explored.  A result on its way tells    *)
(* all that its sender knew when the get began, unless the sender failed   *)
(* (Truthful).  The peers that were known to the reader are queried or     *)
(* will be, and so are those known to a peer that has answered (Frontier). *)
(***************************************************************************)
Informs(r) ==
  \/ r.from \in failed
  \/ /\ r.ok
     /\ r.value = Empty => start.known[r.from] \subseteq r.closerPeers /\ start.store[r.from] = None

Truthful == pc # "done" => \A x \in DOMAIN channel : Informs(channel[x])

Answering == {channel[x].from : x \in DOMAIN channel}

Explored(p) == start.known[p] \subseteq queried \cup candidates /\ start.store[p] = None

Frontier ==
  Looking =>
    /\ start.known[Self] \subseteq queried \cup candidates
    /\ \A p \in queried \ failed : p \in tasks \cup Answering \/ Explored(p)

SInv == NInv /\ Roomy /\ Truthful /\ Frontier

LEMMA InitSInv == Init => SInv
  <1> SUFFICES ASSUME Init PROVE SInv
    OBVIOUS
  <1>1. Roomy /\ Truthful /\ Frontier
    BY DEF Init, Get!Init, Roomy, Truthful, Frontier, Looking
  <1> QED
    BY <1>1, InitNInv DEF SInv

LEMMA NextRoomy == SmallNetwork /\ SInv /\ [Next]_vars => Roomy'
  <1> SUFFICES ASSUME SmallNetwork, SInv, [Next]_vars PROVE Roomy'
    OBVIOUS
  <1> USE DEF SInv, NInv, TInv
  <1>1. CASE \E n \in Peers, p \in Peers : Record(n, p)
    BY <1>1, RecordRoomy
  <1>2. ASSUME NEW n \in Peers, Restart(n) PROVE Roomy'
    BY <1>2 DEF Restart, Tables, Roomy
  <1>3. CASE UNCHANGED tables
    BY <1>3 DEF tables, Roomy
  <1>4. \/ \E n \in Peers, p \in Peers : Record(n, p)
        \/ \E n \in Peers : Restart(n)
        \/ UNCHANGED tables
    BY NodesAssumption, MeetingsAssumption DEF Next, Contact, PutStep, PutNearest, PeerStores, PutRpc, PutReturn, GetStep,
       GetLocally, GetNearest, GetLoop, Task, AnswerValue, AnswerPeers, QueryFails, vars
  <1> QED
    BY <1>1, <1>2, <1>3, <1>4

\* What a task leaves behind when it ends, and what it tells the caller.
LEMMA TaskInforms ==
  ASSUME SmallNetwork, Value # Empty, SInv, Tables', Roomy', NEW p \in Peers, Task(p)
  PROVE  /\ p \in tasks /\ tasks' = tasks \ {p}
         /\ start' = start /\ failed \subseteq failed'
         /\ \E r : r.from = p /\ Informs(r)' /\ channel' = IF pc = "done" THEN channel ELSE Append(channel, r)
  <1> USE DEF Get!Report, Get!Sent, SInv, NInv, TInv
  <1>1. CASE AnswerValue(p)
    <2> DEFINE r == [from |-> p, ok |-> TRUE, value |-> Value, had |-> TRUE, closerPeers |-> {}]
    <2>1. store[p] = Value
      BY <1>1 DEF AnswerValue, Get!AnswerValue, G!IInv, G!TypeOK
    <2>2. Informs(r)'
      BY DEF Informs
    <2> QED
      BY <1>1, <2>1, <2>2 DEF AnswerValue, Get!AnswerValue, history
  <1>2. ASSUME NEW S \in SUBSET Peers, AnswerPeers(p, S)
        PROVE  /\ p \in tasks /\ tasks' = tasks \ {p}
               /\ start' = start /\ failed \subseteq failed'
               /\ \E r : r.from = p /\ Informs(r)'
                         /\ channel' = IF pc = "done" THEN channel ELSE Append(channel, r)
    <2> DEFINE r == [from |-> p, ok |-> TRUE, value |-> Empty, had |-> FALSE, closerPeers |-> S]
    <2>1. UNCHANGED history /\ store[p] = None
      BY <1>2 DEF AnswerPeers, Get!AnswerPeers
    <2>2. S = known'[p]
      BY <1>2, YieldsAllNext DEF AnswerPeers
    <2>3. known[p] \subseteq known'[p]
      BY <1>2, NodesAssumption, RecordTables DEF AnswerPeers
    <2>4. Informs(r)'
      BY <2>1, <2>2, <2>3 DEF Informs, Kept, history
    <2> QED
      BY <1>2, <2>1, <2>4 DEF AnswerPeers, Get!AnswerPeers, history
  <1>3. CASE QueryFails(p)
    <2> DEFINE r == [from |-> p, ok |-> FALSE, value |-> Empty, had |-> FALSE, closerPeers |-> {}]
    <2>1. Informs(r)'
      BY <1>3 DEF QueryFails, Informs
    <2> QED
      BY <1>3, <2>1 DEF QueryFails, Get!QueryFails
  <1> QED
    BY <1>1, <1>2, <1>3 DEF Task

\* Results leave the channel at its head and enter it at its end.
LEMMA Received ==
  ASSUME NEW R, NEW c \in Seq(R), c # <<>>
  PROVE  /\ 1 \in DOMAIN c /\ Head(c) = c[1]
         /\ \A x \in DOMAIN Tail(c) : x + 1 \in DOMAIN c /\ Tail(c)[x] = c[x + 1]
         /\ \A x \in DOMAIN c : x = 1 \/ (x - 1 \in DOMAIN Tail(c) /\ c[x] = Tail(c)[x - 1])
  OBVIOUS

LEMMA Appended ==
  ASSUME NEW R, NEW c \in Seq(R), NEW r
  PROVE  /\ \A x \in DOMAIN c : x \in DOMAIN Append(c, r) /\ Append(c, r)[x] = c[x]
         /\ \A x \in DOMAIN Append(c, r) : (x \in DOMAIN c /\ Append(c, r)[x] = c[x]) \/ Append(c, r)[x] = r
         /\ Len(c) + 1 \in DOMAIN Append(c, r) /\ Append(c, r)[Len(c) + 1] = r
  OBVIOUS

LEMMA NextTruthful ==
  SmallNetwork /\ Value # Empty /\ SInv /\ [Next]_vars /\ Tables' /\ Roomy' => Truthful'
  <1> SUFFICES ASSUME SmallNetwork, Value # Empty, SInv, [Next]_vars, Tables', Roomy'
               PROVE  Truthful'
    OBVIOUS
  <1> USE DEF SInv, NInv, TInv
  <1>1. channel \in Seq(G!Results)
    BY DEF G!IInv, G!TypeOK
  <1>2. ASSUME NEW S \in SUBSET Peers, GetNearest(S)
        PROVE  Truthful'
    <2>1. DOMAIN channel = {} /\ channel' = channel
      BY <1>2 DEF GetNearest, Get!NearestPeers, G!IInv, G!Disjoint, G!Honest
    <2> QED
      BY <2>1 DEF Truthful
  <1>3. CASE GetLocally
    BY <1>3 DEF GetLocally, Get!FindValueLocal, history, Truthful, Informs
  <1>4. CASE GetLoop
    <2>1. pc # "done" /\ start' = start /\ failed' = failed
      BY <1>4 DEF GetLoop, history, Get!CheckCandidates, Get!SpawnQuery, Get!Await, Get!Receive
    <2>2. channel' = channel \/ (channel # <<>> /\ channel' = Tail(channel))
      BY <1>4 DEF GetLoop, Get!CheckCandidates, Get!SpawnQuery, Get!Await, Get!Receive, Get!client
    <2>3. \A x \in DOMAIN channel' : \E y \in DOMAIN channel : channel'[x] = channel[y]
      BY <1>1, <2>2, Received
    <2> QED
      BY <2>1, <2>3 DEF Truthful, Informs
  <1>5. ASSUME NEW p \in Peers, Task(p)
        PROVE  Truthful'
    <2>1. pc' = pc /\ start' = start /\ failed \subseteq failed'
      BY <1>5, TaskInforms DEF Task, AnswerValue, AnswerPeers, QueryFails, Get!AnswerValue,
         Get!AnswerPeers, Get!QueryFails, Get!Report
    <2>2. CASE pc # "done"
      <3>1. PICK r : Informs(r)' /\ channel' = Append(channel, r)
        BY <1>5, <2>2, TaskInforms
      <3>2. \A x \in DOMAIN channel' : (\E y \in DOMAIN channel : channel'[x] = channel[y]) \/ channel'[x] = r
        BY <1>1, <3>1, Appended
      <3>3. \A y \in DOMAIN channel : Informs(channel[y])
        BY <2>2 DEF Truthful
      <3> QED
        BY <2>1, <3>1, <3>2, <3>3 DEF Truthful, Informs
    <2> QED
      BY <2>1, <2>2 DEF Truthful
  <1>6. CASE ~GetStep /\ \A p \in Peers : ~Task(p)
    <2>1. channel' = channel /\ failed \subseteq failed'
      BY <1>6 DEF Next, Contact, PutStep, PutNearest, PeerStores, PutRpc, PutReturn, Get!StoreAt,
         Get!client, Restart, vars, get, history
    <2>2. pc' = pc /\ start' = start
      BY <1>6, OthersLeaveGet
    <2> QED
      BY <2>1, <2>2 DEF Truthful, Informs
  <1> QED
    BY <1>2, <1>3, <1>4, <1>5, <1>6 DEF GetStep

LEMMA ReceiveFrontier ==
  ASSUME SInv, Get!Receive, start' = start, failed' = failed
  PROVE  Frontier'
  <1> SUFFICES ASSUME Looking' PROVE Frontier'
    BY DEF Frontier
  <1> USE DEF SInv, NInv, TInv
  <1> DEFINE r == Head(channel)
  <1>1. channel \in Seq(G!Results) /\ channel # <<>> /\ channel' = Tail(channel)
    BY DEF G!IInv, G!TypeOK, Get!Receive
  <1>2. Looking /\ pc # "done" /\ queried' = queried /\ tasks' = tasks
    BY DEF Get!Receive, Looking
  <1>3. candidates \subseteq candidates'
    BY DEF Get!Receive
  <1>4. r = channel[1] /\ Informs(r)
    BY <1>1, <1>2, Received DEF Truthful
  <1>5. ASSUME r.from \notin failed
        PROVE  start.known[r.from] \subseteq queried \cup candidates' /\ start.store[r.from] = None
    BY <1>4, <1>5 DEF Get!Receive, Get!HasValue, Get!NewCandidates, Informs, Looking
  <1>6. ASSUME NEW p \in queried \ failed
        PROVE  p \in tasks \cup Answering' \/ Explored(p)'
    <2>1. CASE p \in Answering
      <3>1. PICK x \in DOMAIN channel : p = channel[x].from
        BY <2>1 DEF Answering
      <3>2. CASE x = 1
        BY <1>2, <1>4, <1>5, <1>6, <3>1, <3>2 DEF Explored
      <3>3. CASE x # 1
        <4>1. x - 1 \in DOMAIN channel' /\ channel[x] = channel'[x - 1]
          BY <1>1, <3>3, Received
        <4> QED
          BY <3>1, <4>1 DEF Answering
      <3> QED
        BY <3>2, <3>3
    <2>2. CASE p \notin Answering
      BY <1>2, <1>3, <1>6, <2>2 DEF Frontier, Explored
    <2> QED
      BY <2>1, <2>2
  <1> QED
    BY <1>2, <1>3, <1>6 DEF Frontier

LEMMA NextFrontier ==
  SmallNetwork /\ Value # Empty /\ SInv /\ [Next]_vars /\ Tables' /\ Roomy' => Frontier'
  <1> SUFFICES ASSUME SmallNetwork, Value # Empty, SInv, [Next]_vars, Tables', Roomy'
               PROVE  Frontier'
    OBVIOUS
  <1> USE DEF SInv, NInv, TInv
  <1>1. channel \in Seq(G!Results)
    BY DEF G!IInv, G!TypeOK
  <1>2. ASSUME NEW S \in SUBSET Peers, GetNearest(S)
        PROVE  Frontier'
    <2>1. candidates' = known[Self]
      BY <1>2, NodesAssumption, YieldsAll DEF GetNearest, Get!NearestPeers
    <2>2. queried' = {} /\ start'.known = known
      BY <1>2 DEF GetNearest, Get!NearestPeers, G!IInv, G!Disjoint
    <2> QED
      BY <2>1, <2>2 DEF Frontier
  <1>3. CASE GetLocally
    BY <1>3 DEF GetLocally, Get!FindValueLocal, Frontier, Looking
  <1>4. CASE GetLoop
    <2>1. start' = start /\ failed' = failed
      BY <1>4 DEF GetLoop, history
    <2>2. ASSUME Get!CheckCandidates \/ Get!Await
          PROVE  Frontier'
      BY <2>1, <2>2 DEF Get!CheckCandidates, Get!Await, Get!client, Frontier, Looking, Explored, Answering
    <2>3. ASSUME NEW p \in Peers, Get!SpawnQuery(p)
          PROVE  Frontier'
      <3>1. queried' \cup candidates' = queried \cup candidates /\ channel' = channel
            /\ queried' = queried \cup {p} /\ tasks' = tasks \cup {p} /\ Looking
        BY <2>3 DEF Get!SpawnQuery, Get!NearestCandidate, Looking
      <3> QED
        BY <2>1, <3>1 DEF Frontier, Explored, Answering
    <2> QED
      BY <1>4, <2>1, <2>2, <2>3, ReceiveFrontier DEF GetLoop
  <1>5. ASSUME NEW p \in Peers, Task(p)
        PROVE  Frontier'
    <2>1. UNCHANGED <<pc, candidates, queried, start>> /\ failed \subseteq failed'
          /\ p \in tasks /\ tasks' = tasks \ {p}
      BY <1>5, TaskInforms DEF Task, AnswerValue, AnswerPeers, QueryFails, Get!AnswerValue,
         Get!AnswerPeers, Get!QueryFails, Get!Report
    <2>2. CASE Looking
      <3>1. PICK r : r.from = p /\ channel' = Append(channel, r)
        BY <1>5, <2>2, TaskInforms DEF Looking
      <3>2. Answering \cup {p} \subseteq Answering'
        BY <1>1, <3>1, Appended DEF Answering
      <3> QED
        BY <2>1, <2>2, <3>2 DEF Frontier, Explored
    <2> QED
      BY <2>1, <2>2 DEF Frontier, Looking
  <1>6. CASE ~GetStep /\ \A p \in Peers : ~Task(p)
    <2>1. channel' = channel /\ tasks' = tasks /\ failed \subseteq failed'
      BY <1>6 DEF Next, Contact, PutStep, PutNearest, PeerStores, PutRpc, PutReturn, Get!StoreAt,
         Get!client, Restart, vars, get, history
    <2>2. UNCHANGED <<pc, candidates, queried, start>>
      BY <1>6, OthersLeaveGet
    <2> QED
      BY <2>1, <2>2 DEF Frontier, Looking, Explored, Answering
  <1> QED
    BY <1>2, <1>3, <1>4, <1>5, <1>6 DEF GetStep

LEMMA SInvariance ==
  ASSUME SmallNetwork, Value # Empty
  PROVE  Spec => []SInv
  <1>1. SInv /\ NInv' /\ [Next]_vars => SInv'
    <2> SUFFICES ASSUME SInv, NInv', [Next]_vars PROVE SInv'
      OBVIOUS
    <2>1. Tables' /\ Roomy'
      BY NextRoomy DEF NInv, TInv
    <2> QED
      BY <2>1, NextTruthful, NextFrontier DEF SInv
  <1> QED
    BY <1>1, InitSInv, NInvariance, PTL DEF Spec
-----------------------------------------------------------------------------
\* The step in which the lookup ends with NOT_FOUND, and what accounts for it.
GivesUp == outcome' # outcome /\ outcome' = Get!NotFound

Explains(excused) ==
  \E R \in SUBSET Peers :
    /\ start.known[Self] \subseteq R
    /\ \A p \in R \ excused : start.known[p] \subseteq R /\ start.store[p] = None

LEMMA GivingUp ==
  ASSUME SInv, [Next]_vars, GivesUp
  PROVE  /\ pc = "loop" /\ Explains(failed \cup tasks \cup Answering)
         /\ start' = start /\ failed' = failed
  <1> USE DEF Get!NotFound, Get!Found, Get!Pending
  <1>1. GetStep
    BY OthersLeaveGet DEF GivesUp
  <1>2. GetLoop
    BY <1>1 DEF GetStep, GetLocally, GetNearest, Get!FindValueLocal, Get!NearestPeers, GivesUp
  <1>3. Get!CheckCandidates /\ UNCHANGED history
    BY <1>2 DEF GetLoop, Get!SpawnQuery, Get!Await, Get!client, Get!Receive, GivesUp
  <1>4. pc = "loop" /\ candidates = {}
    BY <1>3 DEF Get!CheckCandidates, Get!Exhausted, GivesUp
  <1>5. queried \in SUBSET Peers /\ start.known[Self] \subseteq queried
        /\ \A p \in queried \ (failed \cup tasks \cup Answering) :
              start.known[p] \subseteq queried /\ start.store[p] = None
    BY <1>4 DEF SInv, NInv, TInv, G!IInv, G!TypeOK, Frontier, Looking, Explored
  <1>6. Explains(failed \cup tasks \cup Answering)
    BY <1>5 DEF Explains
  <1> QED
    BY <1>3, <1>4, <1>6 DEF history

(***************************************************************************)
(* For every Alpha: when get() gives up, it has asked a set of nodes that  *)
(* contains all the reader knew, and all that those of them knew that did  *)
(* not fail and whose answers were not still under way; none of these held *)
(* the value.  So failures, and queries that the reader leaves behind when *)
(* its candidates run out, are the only reasons to miss a value.           *)
(***************************************************************************)
THEOREM GivesUpExplained ==
  ASSUME SmallNetwork, Value # Empty
  PROVE  Spec => [][GivesUp => Explains(failed \cup tasks \cup Answering)]_vars
  <1>1. SInv /\ [Next]_vars => [GivesUp => Explains(failed \cup tasks \cup Answering)]_vars
    BY GivingUp
  <1> QED
    BY <1>1, SInvariance, PTL DEF Spec

(***************************************************************************)
(* One query at a time: none is under way when the caller is at the head   *)
(* of its loop, hence none when it gives up.                               *)
(***************************************************************************)
LEMMA NoneUnderWay ==
  ASSUME Alpha = 1
  PROVE  Spec => [](pc = "loop" => tasks = {} /\ channel = <<>>)
  <1> DEFINE Idle == pc = "loop" => in_progress = 0
  <1>1. Init => Idle
    BY DEF Init, Get!Init
  <1>2. TInv /\ Idle /\ [Next]_vars => Idle'
    <2> SUFFICES ASSUME TInv, Idle, [Next]_vars PROVE Idle'
      OBVIOUS
    <2>1. ASSUME NEW S \in SUBSET Peers, GetNearest(S)
          PROVE  Idle'
      <3>1. tasks = {} /\ DOMAIN channel = {} /\ in_progress' = in_progress /\ pc # "done"
        BY <2>1 DEF GetNearest, Get!NearestPeers, TInv, G!IInv, G!Disjoint, G!Honest
      <3>2. channel \in Seq(G!Results)
        BY DEF TInv, G!IInv, G!TypeOK
      <3>3. Len(channel) = 0
        BY <3>1, <3>2, LenProperties
      <3>4. G!Cardinality(tasks) = 0
        BY <3>1 DEF G!Cardinality
      <3>5. in_progress = G!Cardinality(tasks) + Len(channel) + G!Cardinality(G!Lost)
        BY <3>1 DEF TInv, G!IInv, G!InProgressExact
      <3> QED
        BY <3>1, <3>3, <3>4, <3>5, NoneLost
    <2>2. CASE GetLoop
      <3>1. ASSUME Get!Receive PROVE in_progress' = 0
        BY <3>1, Alpha = 1 DEF Get!Receive, TInv, G!IInv, G!TypeOK, G!Progress, G!InProgressExact
      <3> QED
        BY <2>2, <3>1 DEF GetLoop, Get!CheckCandidates, Get!SpawnQuery, Get!Await
    <2>3. CASE GetLocally
      BY <2>3 DEF GetLocally, Get!FindValueLocal
    <2>4. CASE ~GetStep
      BY <2>4, OthersLeaveGet
    <2> QED
      BY <2>1, <2>2, <2>3, <2>4 DEF GetStep
  <1>3. TInv /\ Idle => (pc = "loop" => tasks = {} /\ channel = <<>>)
    <2> SUFFICES ASSUME TInv, pc = "loop", in_progress = 0 PROVE tasks = {} /\ channel = <<>>
      OBVIOUS
    <2>1. IsFiniteSet(tasks) /\ channel \in Seq(G!Results)
      BY NodesAssumption, FS_Subset DEF TInv, G!IInv, G!TypeOK
    <2>2. G!Cardinality(tasks) = Cardinality(tasks)
      BY DEF G!Cardinality, Cardinality
    <2>3. in_progress = G!Cardinality(tasks) + Len(channel) + G!Cardinality(G!Lost)
      BY DEF TInv, G!IInv, G!InProgressExact
    <2>4. Cardinality(tasks) + Len(channel) = 0
      BY <2>1, <2>2, <2>3, NoneLost, FS_CardinalityType
    <2>5. Cardinality(tasks) = 0 /\ Len(channel) = 0
      BY <2>1, <2>4, FS_CardinalityType
    <2> QED
      BY <2>1, <2>5, FS_EmptySet
  <1> QED
    BY <1>1, <1>2, <1>3, InitTInv, NextTInv, PTL DEF Spec

\* The other steps leave what explains the verdict as it is.
LEMMA VerdictStands ==
  ASSUME NInv, [Next]_vars, outcome = Get!NotFound
  PROVE  start' = start /\ failed \subseteq failed'
  <1>1. pc = "done"
    BY DEF NInv, Phases, Get!NotFound, Get!Pending
  <1>2. ~GetStep
    BY <1>1 DEF GetStep, GetLocally, GetNearest, GetLoop, Get!FindValueLocal, Get!NearestPeers,
       Get!CheckCandidates, Get!SpawnQuery, Get!Await, Get!Receive
  <1>3. failed \subseteq failed'
    BY <1>2 DEF Next, Contact, PutStep, PutNearest, PeerStores, PutRpc, PutReturn, Task, AnswerValue,
       AnswerPeers, QueryFails, Restart, vars, history
  <1> QED
    BY <1>2, <1>3, OthersLeaveGet

(***************************************************************************)
(* With one query at a time get() finds what can be found: a value is      *)
(* missed only if each chain of acquaintances that leads to it is broken   *)
(* by a node that failed.                                                  *)
(***************************************************************************)
THEOREM GetFindsHolds ==
  ASSUME SmallNetwork, Value # Empty, Alpha = 1
  PROVE  Spec => []GetFinds
  <1> DEFINE Idle == pc = "loop" => tasks = {} /\ channel = <<>>
  <1>1. Init => GetFinds
    BY DEF Init, Get!Init, GetFinds, Get!Pending, Get!NotFound
  <1>2. SInv /\ Idle /\ GetFinds /\ [Next]_vars => GetFinds'
    <2> SUFFICES ASSUME SInv, Idle, GetFinds, [Next]_vars, outcome' = Get!NotFound
                 PROVE  Explains(failed)'
      BY DEF GetFinds, Explains, Get!NotFound
    <2>1. CASE outcome' # outcome
      <3>1. pc = "loop" /\ Explains(failed \cup tasks \cup Answering)
            /\ start' = start /\ failed' = failed
        BY <2>1, GivingUp DEF GivesUp
      <3>2. failed \cup tasks \cup Answering = failed
        BY <3>1 DEF Answering
      <3> QED
        BY <3>1, <3>2 DEF Explains
    <2>2. CASE outcome' = outcome
      <3>1. Explains(failed)
        BY <2>2 DEF GetFinds, Explains
      <3>2. start' = start /\ failed \subseteq failed'
        BY <2>2, VerdictStands DEF SInv
      <3> QED
        BY <3>1, <3>2 DEF Explains
    <2> QED
      BY <2>1, <2>2
  <1> QED
    BY <1>1, <1>2, SInvariance, NoneUnderWay, PTL DEF Spec

\* The reader knew the writer when it read its own table, or is the writer.
KnowsWriter == Self = Writer \/ Writer \in start.known[Self]

(***************************************************************************)
(* What the testbed asserts: a value that was put is what get() returns.   *)
(* It holds, without failures and restarts, when the reader is the writer  *)
(* or knows it, if no bucket overflows and one query is made at a time.    *)
(* For some peer among those the writer knew has stored the value, and     *)
(* GetFinds leaves no way to miss it.                                      *)
(***************************************************************************)
THEOREM PutThenGetHolds ==
  ASSUME SmallNetwork, Value # Empty, Alpha = 1
  PROVE  Spec => [](KnowsWriter => PutThenGet)
  <1>1. SInv /\ GetFinds => (KnowsWriter => PutThenGet)
    <2> SUFFICES ASSUME SInv, GetFinds, KnowsWriter, pc = "done", failed = {}, restarts = 0
                 PROVE  outcome = Get!Found(Value)
      BY DEF PutThenGet
    <2> USE DEF SInv, NInv, TInv
    <2>1. outcome # Get!NotFound
      <3> SUFFICES ASSUME outcome = Get!NotFound PROVE FALSE
        OBVIOUS
      <3>1. PICK p \in start.known[Writer] : start.store[p] # None
        BY DEF Linked
      <3>2. PICK R \in SUBSET Peers :
              /\ start.known[Self] \subseteq R
              /\ \A q \in R \ failed : start.known[q] \subseteq R /\ start.store[q] = None
        BY DEF GetFinds
      <3>3. start.known[Writer] \subseteq R
        BY <3>2 DEF KnowsWriter
      <3> QED
        BY <3>1, <3>2, <3>3
    <2>2. outcome # Get!Pending
      BY DEF Phases
    <2>3. outcome \in {Get!NotFound, Get!Pending, Get!Found(Value)}
      BY DEF G!IInv, G!TypeOK, G!NotFound, Get!NotFound, G!Pending, Get!Pending, G!Found, Get!Found
    <2> QED
      BY <2>1, <2>2, <2>3
  <1> QED
    BY <1>1, SInvariance, GetFindsHolds, PTL
=============================================================================
