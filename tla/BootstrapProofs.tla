--------------------------- MODULE BootstrapProofs ---------------------------
(***************************************************************************)
(* Proofs about Bootstrap for any lists of bootstrap peers, any answers    *)
(* and any interleaving with incoming requests: the table holds only live  *)
(* peers and loses none, and the candidates are what the code says.        *)
(***************************************************************************)
EXTENDS Bootstrap, FiniteSetTheorems, TLAPS

(***************************************************************************)
(* The inductive invariant.  While requests are out, those answered in     *)
(* this round belong to peers that responded, and every peer that          *)
(* responded is answered in this round or alive from the round before      *)
(* (Rounds); afterwards it is alive, recorded or refused (Recording).      *)
(***************************************************************************)
Answered(i) == i \in DOMAIN results /\ results[i].status = "Ok"

Rounds ==
  /\ results = [i \in DOMAIN results |-> results[i]]
  /\ pc \in {"start", "wait"} =>
       responded = {} /\ alive_peers = {} /\ \A i \in DOMAIN results : ~Answered(i)
  /\ pc = "find_node" => alive_peers = {}
  /\ pc \in {"find_node", "ping"} =>
       /\ \A i \in DOMAIN results : Answered(i) => Asked[i] \in responded
       /\ \A p \in responded :
            p \in alive_peers \/ \E i \in DOMAIN results : Answered(i) /\ Asked[i] = p

Recording ==
  pc \in {"update", "done"} => responded \subseteq alive_peers \cup known \cup refused

IInv ==
  /\ pc \in {"start", "wait", "find_node", "ping", "update", "done", "panicked"}
  /\ Rounds
  /\ Recording
  /\ pc = "done" => alive_peers = {}
  /\ alive_peers \subseteq responded
  /\ OnlyLivePeers

USE DEF history

\* update() records the peer or refuses it, and forgets nobody.
LEMMA UpdateRecords ==
  ASSUME NEW p, Table!Update(p)
  PROVE  /\ known \subseteq known' /\ known' \subseteq known \cup {p}
         /\ refused \subseteq refused'
         /\ p \in known' \cup refused'
  <1>1. CASE Table!Touch(p)
    BY <1>1 DEF Table!Touch, Table!vars
  <1>2. CASE Table!Insert(p)
    BY <1>2 DEF Table!Insert
  <1>3. CASE Table!Unfold(p)
    BY <1>3 DEF Table!Unfold
  <1>4. CASE Table!Refuse(p)
    BY <1>4 DEF Table!Refuse
  <1> QED
    BY <1>1, <1>2, <1>3, <1>4 DEF Table!Update

LEMMA InitIInv == Init => IInv
  <1> SUFFICES ASSUME Init PROVE IInv
    OBVIOUS
  <1>1. results = [i \in DOMAIN results |-> results[i]] /\ DOMAIN results = {}
    BY DEF Init
  <1>2. Rounds /\ Recording /\ OnlyLivePeers
    BY <1>1 DEF Init, Rounds, Recording, OnlyLivePeers, Answered
  <1> QED
    BY <1>2 DEF Init, IInv

\* The server changes nothing but the table and its history.
LEMMA ServerIInv ==
  ASSUME IInv,
         \/ \E state \in {"listening", "failed"} : Listen(state)
         \/ \E p \in Peers : Contact(p)
  PROVE  IInv'
  <1>1. ASSUME NEW state \in {"listening", "failed"}, Listen(state)
        PROVE  IInv'
    BY <1>1 DEF IInv, Listen, table, Rounds, Recording, Answered, Asked, OnlyLivePeers
  <1>2. ASSUME NEW p \in Peers, Contact(p)
        PROVE  IInv'
    <2>1. /\ known \subseteq known' /\ known' \subseteq known \cup {p}
          /\ refused \subseteq refused' /\ contacted' = contacted \cup {p}
          /\ UNCHANGED <<bootstrap_peers, pc, results, candidate_peers, alive_peers,
                         responded>>
      BY <1>2, UpdateRecords DEF Contact
    <2>2. Rounds' /\ Recording' /\ OnlyLivePeers'
      BY <2>1 DEF IInv, Rounds, Recording, Answered, Asked, OnlyLivePeers
    <2> QED
      BY <2>1, <2>2 DEF IInv
  <1> QED
    BY <1>1, <1>2

LEMMA StartIInv == IInv /\ (Start \/ ConnectionFound) => IInv'
  <1> SUFFICES ASSUME IInv, Start \/ ConnectionFound PROVE IInv'
    OBVIOUS
  <1>1. CASE Start
    <2>1. /\ results' = [i \in DOMAIN bootstrap_peers |-> Waiting]
          /\ pc = "start" /\ pc' \in {"wait", "find_node", "panicked"}
          /\ UNCHANGED <<table, alive_peers, history>>
      BY <1>1 DEF Start, Requests
    <2>2. \A i \in DOMAIN results' : ~Answered(i)'
      BY <2>1 DEF Answered, Waiting
    <2>3. Rounds'
      BY <2>1, <2>2 DEF IInv, Rounds
    <2> QED
      BY <2>1, <2>3 DEF IInv, Rounds, Recording, OnlyLivePeers, table
  <1>2. CASE ConnectionFound
    BY <1>2 DEF ConnectionFound, IInv, Rounds, Recording, OnlyLivePeers, Answered, table
  <1> QED
    BY <1>1, <1>2

LEMMA RpcIInv ==
  ASSUME IInv, NEW i \in DOMAIN results, Rpc(i)
  PROVE  IInv'
  <1>1. /\ pc \in {"find_node", "ping"} /\ ~Answered(i)
        /\ UNCHANGED <<table, bootstrap_peers, pc, candidate_peers, alive_peers, contacted>>
        /\ Asked' = Asked
    BY DEF Rpc, PeerAnswers, PeerFails, Settle, Answered, Waiting, Asked
  <1>2. /\ DOMAIN results' = DOMAIN results
        /\ results' = [j \in DOMAIN results' |-> results'[j]]
        /\ \A j \in DOMAIN results \ {i} : Answered(j)' <=> Answered(j)
    BY DEF Rpc, PeerAnswers, PeerFails, Settle, IInv, Rounds, Answered
  <1>3. \/ Answered(i)' /\ responded' = responded \cup {Asked[i]}
        \/ ~Answered(i)' /\ responded' = responded
    BY DEF Rpc, PeerAnswers, PeerFails, Settle, IInv, Rounds, Answered, Reply, Failed
  <1>4. Rounds'
    BY <1>1, <1>2, <1>3 DEF IInv, Rounds
  <1>5. Recording' /\ OnlyLivePeers' /\ (alive_peers \subseteq responded)'
    BY <1>1, <1>3 DEF IInv, Recording, OnlyLivePeers, table
  <1> QED
    BY <1>1, <1>4, <1>5 DEF IInv

LEMMA JoinIInv == IInv /\ (JoinFindNode \/ JoinPing) => IInv'
  <1> SUFFICES ASSUME IInv, JoinFindNode \/ JoinPing PROVE IInv'
    OBVIOUS
  <1>1. Answering = {Asked[i] : i \in {j \in DOMAIN results : Answered(j)}}
    BY DEF Answering, Answered
  <1>2. CASE JoinFindNode
    <2>1. /\ pc = "find_node" /\ pc' \in {"ping", "panicked"} /\ alive_peers' = Answering
          /\ results' = [i \in DOMAIN candidate_peers' |-> Waiting]
          /\ UNCHANGED <<table, history>>
      BY <1>2 DEF JoinFindNode, Requests
    <2>2. \A i \in DOMAIN results' : ~Answered(i)'
      BY <2>1 DEF Answered, Waiting
    <2>3. alive_peers' = responded
      BY <1>1, <2>1 DEF IInv, Rounds
    <2>4. Rounds'
      BY <2>1, <2>2, <2>3 DEF Rounds
    <2> QED
      BY <2>1, <2>3, <2>4 DEF IInv, Recording, OnlyLivePeers, table
  <1>3. CASE JoinPing
    <2>1. /\ pc = "ping" /\ pc' = "update" /\ alive_peers' = alive_peers \cup Answering
          /\ UNCHANGED <<table, results, history>>
      BY <1>3 DEF JoinPing, AliveAfterPings
    <2>2. alive_peers' = responded
      BY <1>1, <2>1 DEF IInv, Rounds
    <2>3. Rounds' /\ Recording'
      BY <2>1, <2>2 DEF IInv, Rounds, Recording
    <2> QED
      BY <2>1, <2>2, <2>3 DEF IInv, OnlyLivePeers, table
  <1> QED
    BY <1>2, <1>3

LEMMA RecordIInv ==
  ASSUME IInv, (\E p \in Peers : UpdateTable(p)) \/ Return
  PROVE  IInv'
  <1>1. ASSUME NEW p \in Peers, UpdateTable(p)
        PROVE  IInv'
    <2>1. /\ pc = "update" /\ p \in alive_peers /\ alive_peers' = alive_peers \ {p}
          /\ known \subseteq known' /\ known' \subseteq known \cup {p}
          /\ refused \subseteq refused' /\ p \in known' \cup refused'
          /\ UNCHANGED <<pc, results, contacted, responded>>
      BY <1>1, UpdateRecords DEF UpdateTable
    <2>2. Rounds' /\ Recording' /\ OnlyLivePeers'
      BY <2>1 DEF IInv, Rounds, Recording, OnlyLivePeers
    <2> QED
      BY <2>1, <2>2 DEF IInv
  <1>2. CASE Return
    BY <1>2 DEF Return, IInv, Rounds, Recording, OnlyLivePeers, table
  <1> QED
    BY <1>1, <1>2

LEMMA NextIInv == IInv /\ [Next]_vars => IInv'
  <1> SUFFICES ASSUME IInv, [Next]_vars PROVE IInv'
    OBVIOUS
  <1>1. CASE UNCHANGED vars
    BY <1>1 DEF vars, table, IInv, Rounds, Recording, Answered, Asked, OnlyLivePeers
  <1>2. CASE Next
    BY <1>2, ServerIInv, StartIInv, RpcIInv, JoinIInv, RecordIInv DEF Next, Step
  <1> QED
    BY <1>1, <1>2

LEMMA Invariance == Spec => []IInv
  BY InitIInv, NextIInv, PTL DEF Spec
-----------------------------------------------------------------------------
(***************************************************************************)
(* bootstrap() records only peers that answered, the server only peers     *)
(* that sent a request.                                                    *)
(***************************************************************************)
THEOREM OnlyLivePeersHolds == Spec => []OnlyLivePeers
  <1>1. IInv => OnlyLivePeers
    BY DEF IInv
  <1> QED
    BY <1>1, Invariance, PTL

(***************************************************************************)
(* When init() returns, each peer that answered is in the table or was     *)
(* refused by a full bucket; the table is empty only if nobody answered    *)
(* and nobody made contact.                                                *)
(***************************************************************************)
THEOREM NoLivePeerLostHolds == Spec => []NoLivePeerLost
  <1>1. IInv => NoLivePeerLost
    BY DEF IInv, Recording, NoLivePeerLost
  <1> QED
    BY <1>1, Invariance, PTL
-----------------------------------------------------------------------------
(***************************************************************************)
(* The table that bootstrap() and the server fill is one that KBuckets     *)
(* describes.                                                              *)
(***************************************************************************)
THEOREM TableImplemented == Spec => Table!Spec
  <1>1. Init => Table!Init
    BY DEF Init, Table!Init
  <1>2. [Next]_vars => [Table!Next]_(Table!vars)
    <2> SUFFICES ASSUME [Next]_vars PROVE [Table!Next]_(Table!vars)
      OBVIOUS
    <2>1. ASSUME NEW p \in Peers, UpdateTable(p) \/ Contact(p)
          PROVE  Table!Next
      BY <2>1 DEF UpdateTable, Contact, Table!Next
    <2>2. CASE \/ Start \/ ConnectionFound \/ JoinFindNode \/ JoinPing \/ Return
               \/ \E state \in {"listening", "failed"} : Listen(state)
               \/ \E i \in DOMAIN results : Rpc(i)
      BY <2>2 DEF Start, ConnectionFound, JoinFindNode, JoinPing, Return, Listen, Rpc,
                  PeerAnswers, PeerFails, Settle, table, Table!vars
    <2>3. CASE UNCHANGED vars
      BY <2>3 DEF vars, table, Table!vars
    <2> QED
      BY <2>1, <2>2, <2>3 DEF Next, Step
  <1> QED
    BY <1>1, <1>2, PTL DEF Spec, Table!Spec

KB == INSTANCE KBucketsProofs

\* The two instances describe one table.
LEMMA SameSpec == Table!Spec => KB!Spec
  <1>1. Table!Init => KB!Init
    BY DEF Table!Init, KB!Init
  <1>2. [Table!Next]_(Table!vars) => [KB!Next]_(KB!vars)
    BY DEF Table!Next, Table!Update, Table!Touch, Table!Insert, Table!Unfold, Table!Refuse,
           Table!vars, Table!Full, Table!Unfolded, Table!From, Table!Bucket, Table!Slot,
           Table!Cpl, Table!common_prefix_length, Table!LeadingZeros, Table!Distance,
           Table!Cardinality,
           KB!Next, KB!Update, KB!Touch, KB!Insert, KB!Unfold, KB!Refuse,
           KB!vars, KB!Full, KB!Unfolded, KB!From, KB!Bucket, KB!Slot,
           KB!Cpl, KB!common_prefix_length, KB!LeadingZeros, KB!Distance, KB!Cardinality
  <1> QED
    BY <1>1, <1>2, PTL DEF Table!Spec, KB!Spec

(***************************************************************************)
(* wait_for_connection() sees a peer as soon as the table knows one,       *)
(* wherever the unfolding has put it: the safety part of InitEnds.         *)
(***************************************************************************)
THEOREM ConnectionSeen == Spec => [](known # {} => Connection)
  <1>1. KB!Spec => []KB!ConnectionDetected
    BY WAssumption, TableAssumption, KB!ConnectionDetectedHolds DEF Id, KB!Id
  <1>2. KB!ConnectionDetected => (known # {} => Connection)
    BY DEF KB!ConnectionDetected, KB!Visible, KB!Bucket, KB!Slot, KB!Cpl,
           KB!common_prefix_length, KB!LeadingZeros, KB!Distance, KB!Cardinality,
           Connection, Table!Visible, Table!Bucket, Table!Slot, Table!Cpl,
           Table!common_prefix_length, Table!LeadingZeros, Table!Distance, Table!Cardinality
  <1> QED
    BY <1>1, <1>2, TableImplemented, SameSpec, PTL
-----------------------------------------------------------------------------
(***************************************************************************)
(* The candidates: what flattening, filtering, sorting and deduplicating   *)
(* the answers yields.  The sorting lemmas are those of RoutingTableProofs,*)
(* in an instance of which only the constants matter.                      *)
(***************************************************************************)
V == INSTANCE RoutingTableProofs WITH buckets <- <<>>, refused <- {}, contacts <- <<>>

\* The elements of ps along the enumeration o of n positions.
Along(ps, o, n) == [k \in 1..n |-> ps[o[k]]]

\* o enumerates S in the order R.
Enumerates(o, n, S, R) ==
  /\ o \in [1..n -> S]
  /\ \A x \in S : \E k \in 1..n : o[k] = x
  /\ \A j, k \in 1..n : j < k => <<o[j], o[k]>> \in R

LEMMA Least ==
  ASSUME NEW B \in SUBSET Nat, B # {}
  PROVE  \E m \in B : \A y \in B : m <= y
  BY WAssumption, TableAssumption, V!LeastOf DEF Id, V!Id

LEMMA SelectedInOrder ==
  ASSUME NEW X, NEW ps \in Seq(X), NEW S \in SUBSET (DOMAIN ps)
  PROVE  \E n, o : /\ n \in Nat /\ o \in [1..n -> S] /\ Selected(ps, S) = Along(ps, o, n)
                   /\ \A x \in S : \E k \in 1..n : o[k] = x
                   /\ \A j, k \in 1..n : j < k => o[j] < o[k]
  <1> DEFINE R == {e \in S \X S : e[1] < e[2]}
  <1>1. \E n, o : n \in Nat /\ V!Enumerates(o, n, S, R) /\ V!Selected(ps, S) = V!Along(ps, o, n)
    BY WAssumption, TableAssumption, V!SelectedInOrder DEF Id, V!Id
  <1>2. V!Selected(ps, S) = Selected(ps, S)
    BY DEF Selected, V!Selected
  <1>3. \A x, y : <<x, y>> \in R => x < y
    OBVIOUS
  <1> HIDE DEF R
  <1>4. PICK n, o : n \in Nat /\ V!Enumerates(o, n, S, R) /\ V!Selected(ps, S) = V!Along(ps, o, n)
    BY <1>1
  <1>5. /\ o \in [1..n -> S]
        /\ \A x \in S : \E k \in 1..n : o[k] = x
        /\ \A j, k \in 1..n : j < k => o[j] < o[k]
    BY <1>3, <1>4 DEF V!Enumerates
  <1>6. n \in Nat /\ Selected(ps, S) = Along(ps, o, n)
    BY <1>2, <1>4 DEF Along, V!Along
  <1> QED
    BY <1>5, <1>6

StrictOrder(S, R) ==
  /\ \A x \in S : <<x, x>> \notin R
  /\ \A x, y, z \in S : <<x, y>> \in R /\ <<y, z>> \in R => <<x, z>> \in R
  /\ \A x, y \in S : x = y \/ <<x, y>> \in R \/ <<y, x>> \in R

LEMMA ArrangedInOrder ==
  ASSUME NEW S, IsFiniteSet(S), NEW R, StrictOrder(S, R), NEW ps
  PROVE  \E n, o : n \in Nat /\ Enumerates(o, n, S, R) /\ Arranged(ps, S, R) = Along(ps, o, n)
  <1>1. IsFiniteSet(S) /\ Cardinality(S) \in Nat
    BY FS_CardinalityType
  <1>2. V!StrictOrder(S, R) /\ V!IsFiniteSet(S) /\ V!Cardinality(S) = Cardinality(S)
    BY <1>1 DEF StrictOrder, V!StrictOrder, V!IsFiniteSet, IsFiniteSet, V!Cardinality, Cardinality
  <1>3. PICK o : /\ V!Enumerates(o, V!Cardinality(S), S, R)
                 /\ V!Arranged(ps, S, R) = [k \in 1..V!Cardinality(S) |-> ps[o[k]]]
    BY <1>2, WAssumption, TableAssumption, V!ArrangedInOrder DEF Id, V!Id
  <1>4. V!Arranged(ps, S, R) = Arranged(ps, S, R)
    BY DEF V!Arranged, Arranged, V!Cardinality, Cardinality
  <1>5. Enumerates(o, Cardinality(S), S, R) /\ Arranged(ps, S, R) = Along(ps, o, Cardinality(S))
    BY <1>2, <1>3, <1>4 DEF Enumerates, V!Enumerates, Along
  <1> QED
    BY <1>1, <1>5

LEMMA AlongType ==
  ASSUME NEW X, NEW ps \in Seq(X), NEW S \in SUBSET (DOMAIN ps), NEW n \in Nat,
         NEW o \in [1..n -> S]
  PROVE  /\ Along(ps, o, n) \in Seq(X) /\ DOMAIN Along(ps, o, n) = 1..n
         /\ \A k \in 1..n : /\ o[k] \in S /\ o[k] \in DOMAIN ps
                            /\ Along(ps, o, n)[k] = ps[o[k]]
  <1>1. \A k \in 1..n : o[k] \in S /\ ps[o[k]] \in X
    OBVIOUS
  <1> QED
    BY <1>1 DEF Along

\* The vectors that flattening passes through.
IsFlattening(f, seqs, m) ==
  f = [i \in 1..m |-> IF i = 1 THEN seqs[i] ELSE f[i - 1] \o seqs[i]]

LEMMA FlatteningExists ==
  ASSUME NEW seqs
  PROVE  \A m \in Nat : \E f : IsFlattening(f, seqs, m)
  <1> DEFINE Bad == {m \in Nat : ~\E f : IsFlattening(f, seqs, m)}
  <1> SUFFICES ASSUME Bad # {} PROVE FALSE
    OBVIOUS
  <1>1. PICK m \in Bad : \A y \in Bad : m <= y
    <2>1. Bad \in SUBSET Nat
      OBVIOUS
    <2> HIDE DEF Bad
    <2> QED
      BY <2>1, Least
  <1>2. m \in Nat /\ ~\E f : IsFlattening(f, seqs, m)
    OBVIOUS
  <1> DEFINE Flat(f, i) == IF i = 1 THEN seqs[i] ELSE f[i - 1] \o seqs[i]
  <1>3. CASE m = 0
    <2> DEFINE f == [i \in 1..m |-> <<>>]
    <2>1. f = [i \in 1..m |-> Flat(f, i)]
      BY <1>3
    <2> QED
      BY <1>2, <2>1 DEF IsFlattening
  <1>4. CASE m # 0
    <2>1. m - 1 \in Nat /\ ~(m <= m - 1)
      BY <1>2, <1>4
    <2>2. m - 1 \notin Bad
      BY <1>1, <2>1
    <2>3. PICK g : IsFlattening(g, seqs, m - 1)
      BY <2>1, <2>2
    <2>4. \A i \in 1..(m - 1) : g[i] = Flat(g, i)
      BY <2>3 DEF IsFlattening
    <2> HIDE DEF Flat, Bad
    <2> DEFINE f == [i \in 1..m |-> IF i = m THEN Flat(g, m) ELSE g[i]]
    <2>5. \A i \in 1..m : f[i] = Flat(f, i)
      <3> SUFFICES ASSUME NEW i \in 1..m PROVE f[i] = Flat(f, i)
        OBVIOUS
      <3>1. i # 1 => i - 1 \in 1..m /\ i - 1 # m /\ f[i - 1] = g[i - 1]
        BY <1>2
      <3>2. Flat(f, i) = Flat(g, i)
        <4> HIDE DEF f
        <4> QED
          BY <3>1 DEF Flat
      <3>3. CASE i = m
        BY <3>2, <3>3
      <3>4. CASE i # m
        <4>1. i \in 1..(m - 1) /\ f[i] = g[i]
          BY <1>2, <3>4
        <4> QED
          BY <2>4, <3>2, <4>1
      <3> QED
        BY <3>3, <3>4
    <2>6. f = [i \in 1..m |-> f[i]]
      OBVIOUS
    <2> HIDE DEF f
    <2>7. f = [i \in 1..m |-> Flat(f, i)]
      BY <2>5, <2>6
    <2>8. IsFlattening(f, seqs, m)
      BY <2>7 DEF IsFlattening, Flat
    <2> QED
      BY <1>2, <2>8
  <1> QED
    BY <1>3, <1>4

LEMMA FlattenType ==
  ASSUME NEW X, NEW seqs \in Seq(Seq(X))
  PROVE  FlattenSeq(seqs) \in Seq(X)
  <1> DEFINE n == Len(seqs)
             f == CHOOSE g : IsFlattening(g, seqs, n)
             Bad == {i \in 1..n : f[i] \notin Seq(X)}
  <1>1. n \in Nat /\ \A i \in 1..n : seqs[i] \in Seq(X)
    OBVIOUS
  <1>2. FlattenSeq(seqs) = IF n = 0 THEN seqs ELSE f[n]
    BY DEF FlattenSeq, IsFlattening
  <1>3. IsFlattening(f, seqs, n)
    <2> HIDE DEF n
    <2> QED
      BY <1>1, FlatteningExists
  <1> HIDE DEF f
  <1>4. \A i \in 1..n : f[i] = IF i = 1 THEN seqs[i] ELSE f[i - 1] \o seqs[i]
    <2> HIDE DEF n
    <2> QED
      BY <1>3 DEF IsFlattening
  <1>5. n = 0 => seqs \in Seq(X)
    OBVIOUS
  <1> HIDE DEF n
  <1>6. Bad = {}
    <2> SUFFICES ASSUME Bad # {} PROVE FALSE
      OBVIOUS
    <2>1. PICK i \in Bad : \A y \in Bad : i <= y
      <3>1. Bad \in SUBSET Nat
        BY <1>1
      <3> HIDE DEF Bad
      <3> QED
        BY <3>1, Least
    <2>2. i \in 1..n /\ f[i] \notin Seq(X) /\ seqs[i] \in Seq(X)
      BY <1>1
    <2>3. i # 1 /\ f[i] = f[i - 1] \o seqs[i]
      BY <1>4, <2>2
    <2>4. i - 1 \in 1..n /\ ~(i <= i - 1)
      BY <1>1, <2>2, <2>3
    <2>5. f[i - 1] \in Seq(X)
      BY <2>1, <2>4
    <2> QED
      BY <2>2, <2>3, <2>5
  <1>7. ASSUME n # 0 PROVE f[n] \in Seq(X)
    <2>1. n \in 1..n
      BY <1>1, <1>7
    <2>2. n \notin Bad
      BY <1>6
    <2> HIDE DEF n
    <2> QED
      BY <2>1, <2>2
  <1> QED
    BY <1>2, <1>5, <1>7

LEMMA LessOrder ==
  /\ \A x \in Id : ~Less(x, x)
  /\ \A x, y, z \in Id : Less(x, y) /\ Less(y, z) => Less(x, z)
  /\ \A x, y \in Id : x = y \/ Less(x, y) \/ Less(y, x)
  <1>1. V!Id = Id /\ \A x, y : V!Less(x, y) <=> Less(x, y)
    BY DEF Id, V!Id, Less, V!Less
  <1>2. /\ \A x \in V!Id : ~V!Less(x, x)
        /\ \A x, y, z \in V!Id : V!Less(x, y) /\ V!Less(y, z) => V!Less(x, z)
        /\ \A x, y \in V!Id : x = y \/ V!Less(x, y) \/ V!Less(y, x)
    BY WAssumption, TableAssumption, V!LessOrder DEF Id, V!Id
  <1> QED
    BY <1>1, <1>2

\* sort_by_key() sees the positions of the peers in a strict order.
LEMMA IdOrder ==
  ASSUME NEW ps \in Seq(Peers), NEW S \in SUBSET (DOMAIN ps)
  PROVE  LET before(x, y) == Less(ps[x].id, ps[y].id) \/ (ps[x].id = ps[y].id /\ x < y)
         IN  StrictOrder(S, {e \in S \X S : before(e[1], e[2])})
  <1> DEFINE id(x) == ps[x].id
             R == {e \in S \X S : \/ Less(ps[e[1]].id, ps[e[2]].id)
                                  \/ ps[e[1]].id = ps[e[2]].id /\ e[1] < e[2]}
  <1>1. \A x \in S : id(x) \in Id /\ x \in Int
    BY TableAssumption
  <1>2. \A x, y \in S : <<x, y>> \in R <=> Less(id(x), id(y)) \/ (id(x) = id(y) /\ x < y)
    OBVIOUS
  <1> HIDE DEF R, id
  <1>3. \A x \in S : <<x, x>> \notin R
    BY <1>1, <1>2, LessOrder
  <1>4. ASSUME NEW x \in S, NEW y \in S, NEW z \in S, <<x, y>> \in R, <<y, z>> \in R
        PROVE  <<x, z>> \in R
    <2>1. /\ id(x) \in Id /\ id(y) \in Id /\ id(z) \in Id
          /\ x \in Int /\ y \in Int /\ z \in Int
      BY <1>1
    <2>2. /\ Less(id(x), id(y)) \/ (id(x) = id(y) /\ x < y)
          /\ Less(id(y), id(z)) \/ (id(y) = id(z) /\ y < z)
      BY <1>2, <1>4
    <2>3. Less(id(x), id(z)) \/ (id(x) = id(z) /\ x < z)
      BY <2>1, <2>2, LessOrder
    <2> QED
      BY <1>2, <2>3
  <1>5. ASSUME NEW x \in S, NEW y \in S PROVE x = y \/ <<x, y>> \in R \/ <<y, x>> \in R
    <2>1. id(x) \in Id /\ id(y) \in Id /\ x \in Int /\ y \in Int
      BY <1>1
    <2>2. id(x) = id(y) \/ Less(id(x), id(y)) \/ Less(id(y), id(x))
      BY <2>1, LessOrder
    <2>3. x = y \/ x < y \/ y < x
      BY <2>1
    <2> QED
      BY <1>2, <2>2, <2>3
  <1> QED
    BY <1>3, <1>4, <1>5 DEF StrictOrder, R

\* Sorted by identifier.
Ascending(s) == \A j, k \in DOMAIN s : j < k => Less(s[j].id, s[k].id) \/ s[j].id = s[k].id

LEMMA Sorted ==
  ASSUME NEW ps \in Seq(Peers), NEW S \in SUBSET (DOMAIN ps)
  PROVE  /\ SortById(ps, S) \in Seq(Peers)
         /\ \A k \in DOMAIN SortById(ps, S) : \E x \in S : SortById(ps, S)[k] = ps[x]
         /\ Ascending(SortById(ps, S))
  <1> DEFINE R == {e \in S \X S : \/ Less(ps[e[1]].id, ps[e[2]].id)
                                  \/ ps[e[1]].id = ps[e[2]].id /\ e[1] < e[2]}
             s == SortById(ps, S)
  <1>1. StrictOrder(S, R)
    BY IdOrder
  <1>2. s = Arranged(ps, S, R)
    BY DEF SortById
  <1>3. \A x, y \in S : <<x, y>> \in R => Less(ps[x].id, ps[y].id) \/ ps[x].id = ps[y].id
    OBVIOUS
  <1>4. IsFiniteSet(S)
    <2>1. IsFiniteSet(1..Len(ps)) /\ S \in SUBSET (1..Len(ps))
      BY FS_Interval, SMT
    <2> QED
      BY <2>1, FS_Subset
  <1> HIDE DEF R, s
  <1>5. PICK n, o : n \in Nat /\ Enumerates(o, n, S, R) /\ s = Along(ps, o, n)
    BY <1>1, <1>2, <1>4, ArrangedInOrder
  <1>6. o \in [1..n -> S] /\ \A j, k \in 1..n : j < k => <<o[j], o[k]>> \in R
    BY <1>5 DEF Enumerates
  <1>7. s \in Seq(Peers) /\ DOMAIN s = 1..n /\ \A k \in 1..n : o[k] \in S /\ s[k] = ps[o[k]]
    BY <1>5, <1>6, AlongType
  <1>8. ASSUME NEW j \in 1..n, NEW k \in 1..n, j < k
        PROVE  Less(s[j].id, s[k].id) \/ s[j].id = s[k].id
    <2>1. o[j] \in S /\ o[k] \in S /\ <<o[j], o[k]>> \in R /\ s[j] = ps[o[j]] /\ s[k] = ps[o[k]]
      BY <1>6, <1>7, <1>8
    <2> QED
      BY <1>3, <2>1
  <1>9. Ascending(s)
    BY <1>7, <1>8 DEF Ascending
  <1> QED
    BY <1>7, <1>9 DEF s

\* dedup() keeps the order and leaves no two equal neighbours.
LEMMA Deduplicated ==
  ASSUME NEW s \in Seq(Peers), Ascending(s)
  PROVE  /\ dedup(s) \in Seq(Peers)
         /\ \A k \in DOMAIN dedup(s) : \E x \in DOMAIN s : dedup(s)[k] = s[x]
         /\ Ascending(dedup(s))
         /\ \A k \in DOMAIN dedup(s) : k # 1 => dedup(s)[k - 1] # dedup(s)[k]
  <1> DEFINE First == {x \in DOMAIN s : x = 1 \/ s[x] # s[x - 1]}
             d == dedup(s)
  <1>1. Len(s) \in Nat /\ DOMAIN s = 1..Len(s) /\ First \in SUBSET (DOMAIN s)
    OBVIOUS
  <1>2. \A x \in DOMAIN s : x \in First <=> x = 1 \/ s[x] # s[x - 1]
    OBVIOUS
  <1>3. d = Selected(s, First)
    BY DEF dedup
  <1> HIDE DEF First, d
  <1>4. PICK n, o : /\ n \in Nat /\ o \in [1..n -> First] /\ d = Along(s, o, n)
                    /\ \A x \in First : \E k \in 1..n : o[k] = x
                    /\ \A j, k \in 1..n : j < k => o[j] < o[k]
    BY <1>1, <1>3, SelectedInOrder
  <1>5. /\ d \in Seq(Peers) /\ DOMAIN d = 1..n
        /\ \A k \in 1..n : o[k] \in First /\ o[k] \in DOMAIN s /\ d[k] = s[o[k]]
    <2>1. n \in Nat /\ o \in [1..n -> First] /\ First \in SUBSET (DOMAIN s) /\ d = Along(s, o, n)
      BY <1>1, <1>4
    <2>2. \A k \in 1..n : o[k] \in First /\ o[k] \in DOMAIN s /\ s[o[k]] \in Peers
      BY <2>1
    <2>3. d = [k \in 1..n |-> s[o[k]]]
      BY <2>1 DEF Along
    <2> QED
      BY <2>1, <2>2, <2>3
  <1>6. \A j, k \in 1..n : j < k => o[j] < o[k]
    BY <1>4
  <1>7. Ascending(d)
    BY <1>5, <1>6 DEF Ascending
  <1>8. ASSUME NEW k \in 1..n, k # 1 PROVE d[k - 1] # d[k]
    <2> DEFINE a == o[k - 1]
               b == o[k]
               Bad == {x \in a..(b - 1) : s[x] # s[a]}
    <2>1. k - 1 \in 1..n /\ k - 1 < k
      BY <1>4, <1>8
    <2>2. /\ a \in DOMAIN s /\ b \in DOMAIN s /\ a \in First /\ b \in First
          /\ d[k - 1] = s[a] /\ d[k] = s[b] /\ a < b
      BY <1>5, <1>6, <2>1
    <2>3. ASSUME NEW x \in First, a < x, x < b PROVE FALSE
      <3>1. PICK j \in 1..n : o[j] = x
        BY <1>4
      <3>2. j < k - 1 \/ j = k - 1 \/ j = k \/ k < j
        BY <1>4, <2>1
      <3>3. o[j] < a \/ o[j] = a \/ o[j] = b \/ b < o[j]
        BY <1>6, <2>1, <3>2
      <3>4. x \in Int /\ a \in Int /\ b \in Int
        BY <1>1, <2>2
      <3> QED
        BY <2>3, <3>1, <3>3, <3>4
    <2> HIDE DEF a, b
    <2>4. Bad = {}
      <3> SUFFICES ASSUME Bad # {} PROVE FALSE
        OBVIOUS
      <3>1. Bad \in SUBSET Nat
        BY <1>1, <2>2
      <3>2. PICK x \in Bad : \A y \in Bad : x <= y
        <4> HIDE DEF Bad
        <4> QED
          BY <3>1, Least
      <3>3. x \in a..(b - 1) /\ s[x] # s[a] /\ a \in Nat /\ b \in Nat /\ a # 0
        BY <1>1, <2>2
      <3>4. a < x /\ x < b /\ x - 1 \in a..(b - 1) /\ ~(x <= x - 1) /\ x # 1
        BY <3>3
      <3>5. s[x - 1] = s[a]
        BY <3>2, <3>4
      <3>6. x \in DOMAIN s
        BY <1>1, <2>2, <3>3
      <3>7. x \in First
        BY <1>2, <3>3, <3>5, <3>6
      <3> QED
        BY <2>3, <3>4, <3>7
    <2>5. b - 1 \in a..(b - 1) /\ b # 1
      BY <1>1, <2>2
    <2>6. s[b - 1] = s[a]
      BY <2>4, <2>5
    <2>7. s[b] # s[b - 1]
      BY <1>2, <2>2, <2>5
    <2> QED
      BY <2>2, <2>6, <2>7
  <1> QED
    BY <1>5, <1>7, <1>8 DEF d

\* What is pinged: see the theorems below.
Fresh(s) == \A k \in DOMAIN s : s[k] \notin ToSet(bootstrap_peers)

OtherAddressBetween(s) ==
  \A j, k \in DOMAIN s : j < k /\ s[j] = s[k] =>
    \E i \in DOMAIN s : j < i /\ i < k /\ s[i] # s[j] /\ s[i].id = s[j].id

LEMMA Neighbours ==
  ASSUME NEW s \in Seq(Peers), Ascending(s),
         \A k \in DOMAIN s : k # 1 => s[k - 1] # s[k]
  PROVE  OtherAddressBetween(s)
  <1> SUFFICES ASSUME NEW j \in DOMAIN s, NEW k \in DOMAIN s, j < k, s[j] = s[k]
               PROVE  \E i \in DOMAIN s : /\ j < i /\ i < k
                                          /\ s[i] # s[j] /\ s[i].id = s[j].id
    BY DEF OtherAddressBetween
  <1> DEFINE i == k - 1
  <1>1. i \in DOMAIN s /\ k # 1 /\ i < k /\ (j < i \/ j = i)
    OBVIOUS
  <1>2. s[i] # s[k]
    BY <1>1
  <1> HIDE DEF i
  <1>3. j < i /\ s[i] # s[j]
    BY <1>1, <1>2
  <1>4. /\ Less(s[j].id, s[i].id) \/ s[j].id = s[i].id
        /\ Less(s[i].id, s[j].id) \/ s[i].id = s[j].id
    BY <1>1, <1>3 DEF Ascending
  <1>5. s[i].id \in Id /\ s[j].id \in Id
    BY <1>1, TableAssumption
  <1>6. s[i].id = s[j].id
    BY <1>4, <1>5, LessOrder
  <1> QED
    BY <1>1, <1>3, <1>6

\* Results of requests, answered with peers that the table may hold.
Results == [status : {"waiting", "Err", "Ok"}, closerPeers : Seq(Peers)]

LEMMA CandidatesRight ==
  ASSUME results \in Seq(Results)
  PROVE  /\ Candidates \in Seq(Peers)
         /\ Fresh(Candidates)
         /\ OtherAddressBetween(Candidates)
  <1> DEFINE answers == [i \in DOMAIN results |-> results[i].closerPeers]
             named   == FlattenSeq(answers)
             new     == {x \in DOMAIN named : named[x] \notin ToSet(bootstrap_peers)}
             s       == SortById(named, new)
             c       == dedup(s)
  <1>1. answers \in Seq(Seq(Peers))
    <2>1. ASSUME NEW i \in DOMAIN results PROVE results[i].closerPeers \in Seq(Peers)
      <3>1. results[i] \in Results
        OBVIOUS
      <3> QED
        BY <3>1 DEF Results
    <2>2. Len(results) \in Nat /\ DOMAIN results = 1..Len(results)
      OBVIOUS
    <2> QED
      BY <2>1, <2>2
  <1>2. named \in Seq(Peers)
    <2> HIDE DEF answers
    <2> QED
      BY <1>1, FlattenType
  <1>3. c = Candidates
    BY DEF Candidates
  <1> HIDE DEF named
  <1>4. /\ new \in SUBSET (DOMAIN named)
        /\ \A x \in new : named[x] \notin ToSet(bootstrap_peers)
    OBVIOUS
  <1> HIDE DEF new
  <1>5. /\ s \in Seq(Peers) /\ Ascending(s)
        /\ \A k \in DOMAIN s : \E x \in new : s[k] = named[x]
    BY <1>2, <1>4, Sorted
  <1> HIDE DEF s
  <1>6. /\ c \in Seq(Peers) /\ Ascending(c)
        /\ \A k \in DOMAIN c : \E x \in DOMAIN s : c[k] = s[x]
        /\ \A k \in DOMAIN c : k # 1 => c[k - 1] # c[k]
    BY <1>5, Deduplicated
  <1> HIDE DEF c
  <1>7. Fresh(c)
    BY <1>4, <1>5, <1>6 DEF Fresh
  <1>8. OtherAddressBetween(c)
    BY <1>6, Neighbours
  <1> QED
    BY <1>3, <1>6, <1>7, <1>8
-----------------------------------------------------------------------------
(***************************************************************************)
(* Types.  Beside TypeOK without the table the invariant says that the     *)
(* results that find_node starts with are those of the bootstrap peers,    *)
(* and what the candidates are.                                            *)
(***************************************************************************)
TInv ==
  /\ bootstrap_peers \in Configs
  /\ pc \in {"start", "wait", "find_node", "ping", "update", "done", "panicked"}
  /\ server \in {"spawned", "listening", "failed"}
  /\ pc \in {"wait", "find_node"} => DOMAIN results = DOMAIN bootstrap_peers
  /\ pc = "ping" => DOMAIN results = DOMAIN candidate_peers
  /\ results \in Seq(Results)
  /\ candidate_peers \in Seq(Peers) /\ alive_peers \in SUBSET Peers
  /\ contacted \in SUBSET Peers /\ responded \in SUBSET Peers
  /\ Fresh(candidate_peers) /\ OtherAddressBetween(candidate_peers)

LEMMA RequestsType ==
  ASSUME NEW s \in Seq(Peers)
  PROVE  Requests(s) \in Seq(Results) /\ DOMAIN Requests(s) = DOMAIN s
  <1>1. Waiting \in Results
    BY DEF Waiting, Results
  <1> QED
    BY <1>1 DEF Requests

LEMMA InitTInv == Init => TInv
  BY ConfigsAssumption DEF Init, TInv, Fresh, OtherAddressBetween, ToSet

LEMMA AskedType ==
  ASSUME TInv, pc \in {"find_node", "ping"}
  PROVE  /\ Asked \in Seq(Peers) /\ DOMAIN results = DOMAIN Asked
         /\ Answering \in SUBSET Peers
  <1>1. Asked \in Seq(Peers) /\ DOMAIN results = DOMAIN Asked
    BY ConfigsAssumption DEF TInv, Asked
  <1>2. \A i \in DOMAIN results : Asked[i] \in Peers
    BY <1>1
  <1> QED
    BY <1>1, <1>2 DEF Answering

LEMMA RpcTInv ==
  ASSUME TInv, NEW i \in DOMAIN results, Rpc(i)
  PROVE  TInv'
  <1>1. /\ pc \in {"find_node", "ping"}
        /\ UNCHANGED <<server, bootstrap_peers, pc, candidate_peers, alive_peers, contacted>>
    BY DEF Rpc, PeerAnswers, PeerFails, Settle
  <1>2. ASSUME NEW s \in Answers PROVE s \in Seq(Peers)
    <2>1. CASE pc = "find_node"
      <3>1. s \in UNION {[1..m -> Peers] : m \in 0..K}
        BY <1>2, <2>1 DEF Answers, BoundedSeq, SeqOf
      <3>2. PICK m \in 0..K : s \in [1..m -> Peers]
        BY <3>1
      <3>3. m \in Nat
        BY TableAssumption
      <3> QED
        BY <3>2, <3>3
    <2>2. CASE pc # "find_node"
      BY <1>2, <2>2 DEF Answers
    <2> QED
      BY <2>1, <2>2
  <1>3. PICK r \in Results : results' = [results EXCEPT ![i] = r]
    <2>1. Failed \in Results /\ \A s \in Answers : Reply(s) \in Results
      BY <1>2 DEF Reply, Failed, Results
    <2> QED
      BY <2>1 DEF Rpc, PeerAnswers, PeerFails, Settle
  <1>4. results' \in Seq(Results) /\ DOMAIN results' = DOMAIN results
    BY <1>3 DEF TInv
  <1>5. responded' \in SUBSET Peers
    BY <1>1, AskedType DEF Rpc, PeerAnswers, PeerFails, TInv
  <1> QED
    BY <1>1, <1>4, <1>5 DEF TInv, Fresh, OtherAddressBetween

LEMMA NextTInv == TInv /\ [Next]_vars => TInv'
  <1> SUFFICES ASSUME TInv, [Next]_vars PROVE TInv'
    OBVIOUS
  <1> USE DEF table
  <1>1. CASE UNCHANGED vars
    BY <1>1 DEF vars, TInv, Fresh, OtherAddressBetween
  <1>2. ASSUME NEW state \in {"listening", "failed"}, Listen(state) PROVE TInv'
    BY <1>2 DEF Listen, TInv, Fresh, OtherAddressBetween
  <1>3. ASSUME NEW p \in Peers, Contact(p) PROVE TInv'
    BY <1>3 DEF Contact, TInv, Fresh, OtherAddressBetween
  <1>4. CASE Start
    <2>1. bootstrap_peers \in Seq(Peers)
      BY ConfigsAssumption DEF TInv
    <2>2. results' \in Seq(Results) /\ DOMAIN results' = DOMAIN bootstrap_peers
      BY <1>4, <2>1, RequestsType DEF Start
    <2> QED
      BY <1>4, <2>2 DEF Start, TInv, Fresh, OtherAddressBetween
  <1>5. CASE ConnectionFound
    BY <1>5 DEF ConnectionFound, TInv, Fresh, OtherAddressBetween
  <1>6. CASE JoinFindNode
    <2>1. /\ Candidates \in Seq(Peers) /\ Fresh(Candidates) /\ OtherAddressBetween(Candidates)
          /\ Answering \in SUBSET Peers
      BY <1>6, CandidatesRight, AskedType DEF TInv, JoinFindNode
    <2>2. candidate_peers' = Candidates /\ UNCHANGED bootstrap_peers
      BY <1>6 DEF JoinFindNode
    <2>3. /\ candidate_peers' \in Seq(Peers)
          /\ Fresh(candidate_peers)' /\ OtherAddressBetween(candidate_peers)'
      BY <2>1, <2>2 DEF Fresh, OtherAddressBetween
    <2>4. results' \in Seq(Results) /\ DOMAIN results' = DOMAIN candidate_peers'
      BY <1>6, <2>3, RequestsType DEF JoinFindNode
    <2> QED
      BY <1>6, <2>1, <2>3, <2>4 DEF JoinFindNode, TInv
  <1>7. CASE JoinPing
    <2>1. alive_peers' \in SUBSET Peers
      BY <1>7, AskedType DEF JoinPing, AliveAfterPings, TInv
    <2> QED
      BY <1>7, <2>1 DEF JoinPing, TInv, Fresh, OtherAddressBetween
  <1>8. ASSUME NEW p \in Peers, UpdateTable(p) PROVE TInv'
    BY <1>8 DEF UpdateTable, TInv, Fresh, OtherAddressBetween
  <1>9. CASE Return
    BY <1>9 DEF Return, TInv, Fresh, OtherAddressBetween
  <1> QED
    BY <1>1, <1>2, <1>3, <1>4, <1>5, <1>6, <1>7, <1>8, <1>9, RpcTInv DEF Next, Step

LEMMA TypeInvariance == Spec => []TInv
  BY InitTInv, NextTInv, PTL DEF Spec

(***************************************************************************)
(* The variables have their types: the flattened, sorted and deduplicated  *)
(* answers are a vector of peers as long as the results of the pings, so   *)
(* that results and peers can be matched by position.                      *)
(***************************************************************************)
THEOREM TypeCorrect == Spec => []TypeOK
  <1>1. KB!Spec => []KB!TypeOK
    BY WAssumption, TableAssumption, KB!TypeCorrect DEF Id, KB!Id
  <1>2. KB!TypeOK => Table!TypeOK
    BY DEF KB!TypeOK, Table!TypeOK, KB!IsFiniteSet, Table!IsFiniteSet
  <1>3. Table!TypeOK /\ TInv => TypeOK
    BY DEF TInv, TypeOK, Asked, Results
  <1> QED
    BY <1>1, <1>2, <1>3, TableImplemented, SameSpec, TypeInvariance, PTL

(***************************************************************************)
(* "ones we've already visited": no bootstrap peer is pinged, although the *)
(* answers may name them.                                                  *)
(***************************************************************************)
BootstrapPeersNotPinged == ToSet(candidate_peers) \cap ToSet(bootstrap_peers) = {}

THEOREM BootstrapPeersNotPingedHolds == Spec => []BootstrapPeersNotPinged
  <1>1. TInv => BootstrapPeersNotPinged
    BY DEF TInv, Fresh, BootstrapPeersNotPinged, ToSet
  <1> QED
    BY <1>1, TypeInvariance, PTL

(***************************************************************************)
(* "remove any duplicate candidates": if a peer is pinged twice, a peer    *)
(* with the same identifier and another address is pinged in between.      *)
(***************************************************************************)
RepeatsStraddleAlias == OtherAddressBetween(candidate_peers)

THEOREM RepeatsStraddleAliasHolds == Spec => []RepeatsStraddleAlias
  <1>1. TInv => RepeatsStraddleAlias
    BY DEF TInv, RepeatsStraddleAlias
  <1> QED
    BY <1>1, TypeInvariance, PTL

(***************************************************************************)
(* So sorting by identifier and dropping equal neighbours does remove the  *)
(* duplicates as long as each identifier is known under one address.       *)
(***************************************************************************)
THEOREM NoDuplicatesWithoutAliases ==
  ASSUME \A p, q \in Peers : p.id = q.id => p = q
  PROVE  Spec => []NoDuplicateCandidates
  <1>1. TInv => NoDuplicateCandidates
    <2> SUFFICES ASSUME TInv, NEW j \in DOMAIN candidate_peers,
                        NEW k \in DOMAIN candidate_peers, candidate_peers[j] = candidate_peers[k]
                 PROVE  j = k
      BY DEF NoDuplicateCandidates, IsInjective
    <2>1. candidate_peers \in Seq(Peers) /\ OtherAddressBetween(candidate_peers)
      BY DEF TInv
    <2>2. \A i, m \in DOMAIN candidate_peers :
            candidate_peers[i].id = candidate_peers[m].id => candidate_peers[i] = candidate_peers[m]
      BY <2>1
    <2>3. ~(j < k) /\ ~(k < j)
      BY <2>1, <2>2 DEF OtherAddressBetween
    <2>4. j \in Int /\ k \in Int
      BY <2>1
    <2> QED
      BY <2>3, <2>4
  <1> QED
    BY <1>1, TypeInvariance, PTL
-----------------------------------------------------------------------------
(***************************************************************************)
(* Progress.  bootstrap() goes through its phases once, and in each one    *)
(* there is less and less left: open requests, then peers to record.       *)
(***************************************************************************)
PhasesLeft ==
  CASE pc = "start"     -> 5
    [] pc = "wait"      -> 4
    [] pc = "find_node" -> 3
    [] pc = "ping"      -> 2
    [] pc = "update"    -> 1
    [] pc = "done"      -> 0
    [] pc = "panicked"  -> 0

Open == {i \in DOMAIN results : results[i] = Waiting}

LeftInPhase ==
  IF pc \in {"find_node", "ping"} THEN Cardinality(Open)
  ELSE IF pc = "update" THEN Cardinality(alive_peers)
  ELSE 0

\* A step of bootstrap() or of one of the requests it awaits.
OwnStep == Step \/ \E i \in DOMAIN results : Rpc(i)

Progress ==
  \/ PhasesLeft' < PhasesLeft
  \/ PhasesLeft' = PhasesLeft /\ LeftInPhase' < LeftInPhase

(***************************************************************************)
(* The peers to record come from the two lists, where Position looks for   *)
(* them, and are finitely many.                                            *)
(***************************************************************************)
Listed ==
  pc \in {"ping", "update"} =>
    \A p \in alive_peers :
      \/ \E i \in DOMAIN bootstrap_peers : bootstrap_peers[i] = p
      \/ \E i \in DOMAIN candidate_peers : candidate_peers[i] = p

PInv ==
  /\ TInv
  /\ IsFiniteSet(alive_peers)
  /\ Listed

LEMMA AnsweringListed ==
  ASSUME TInv, pc \in {"find_node", "ping"}
  PROVE  /\ IsFiniteSet(Answering) /\ IsFiniteSet(Open) /\ Cardinality(Open) \in Nat
         /\ \A p \in Answering : \E i \in DOMAIN Asked : Asked[i] = p
  <1>1. DOMAIN results = 1..Len(results) /\ Len(results) \in Nat
    BY DEF TInv
  <1>2. IsFiniteSet(DOMAIN results)
    BY <1>1, FS_Interval
  <1> DEFINE D == {i \in DOMAIN results : results[i].status = "Ok"}
  <1>3. IsFiniteSet(D) /\ IsFiniteSet(Open)
    BY <1>2, FS_Subset DEF Open
  <1>4. Answering = {Asked[i] : i \in D}
    BY DEF Answering
  <1>5. IsFiniteSet({Asked[i] : i \in D})
    <2> DEFINE f == [i \in D |-> Asked[i]]
    <2>1. {f[i] : i \in D} = {Asked[i] : i \in D}
      OBVIOUS
    <2>2. f \in Surjection(D, {f[i] : i \in D})
      BY DEF Surjection
    <2> QED
      BY <1>3, <2>1, <2>2, FS_Surjection
  <1>6. D \subseteq DOMAIN Asked
    BY AskedType
  <1> QED
    BY <1>3, <1>4, <1>5, <1>6, FS_CardinalityType

LEMMA NextPInv == PInv /\ [Next]_vars => PInv'
  <1> SUFFICES ASSUME PInv, [Next]_vars PROVE PInv'
    OBVIOUS
  <1>1. TInv'
    BY NextTInv DEF PInv
  <1>2. CASE UNCHANGED <<pc, alive_peers, bootstrap_peers, candidate_peers>>
    BY <1>1, <1>2 DEF PInv, Listed
  <1>3. CASE Start \/ ConnectionFound
    BY <1>1, <1>3 DEF PInv, Listed, Start, ConnectionFound
  <1>4. CASE JoinFindNode
    <2>1. /\ pc = "find_node" /\ alive_peers' = Answering /\ Asked = bootstrap_peers
          /\ bootstrap_peers' = bootstrap_peers
      BY <1>4 DEF JoinFindNode, Asked
    <2>2. IsFiniteSet(alive_peers') /\ Listed'
      BY <2>1, AnsweringListed DEF PInv, Listed
    <2> QED
      BY <1>1, <2>2 DEF PInv
  <1>5. CASE JoinPing
    <2>1. /\ pc = "ping" /\ alive_peers' = alive_peers \cup Answering
          /\ Asked = candidate_peers
          /\ UNCHANGED <<bootstrap_peers, candidate_peers>>
      BY <1>5 DEF JoinPing, AliveAfterPings, Asked
    <2>2. IsFiniteSet(alive_peers')
      BY <2>1, AnsweringListed, FS_Union DEF PInv
    <2>3. Listed'
      BY <2>1, AnsweringListed DEF PInv, Listed
    <2> QED
      BY <1>1, <2>2, <2>3 DEF PInv
  <1>6. ASSUME NEW p \in Peers, UpdateTable(p) PROVE PInv'
    <2>1. /\ pc = "update" /\ alive_peers' = alive_peers \ {p}
          /\ UNCHANGED <<pc, bootstrap_peers, candidate_peers>>
      BY <1>6 DEF UpdateTable
    <2>2. IsFiniteSet(alive_peers')
      BY <2>1, FS_Subset DEF PInv
    <2> QED
      BY <1>1, <2>1, <2>2 DEF PInv, Listed
  <1>7. CASE Return
    BY <1>1, <1>7 DEF PInv, Listed, Return
  <1> QED
    BY <1>2, <1>3, <1>4, <1>5, <1>6, <1>7
    DEF Next, Step, Listen, Rpc, PeerAnswers, PeerFails, Settle, Contact, vars

LEMMA ProgressInvariance == Spec => []PInv
  <1>1. Init => PInv
    BY InitTInv, FS_EmptySet DEF Init, PInv, Listed
  <1> QED
    BY <1>1, NextPInv, PTL DEF Spec

LEMMA LeftType == PInv => PhasesLeft \in 0..5 /\ LeftInPhase \in Nat
  <1> SUFFICES ASSUME PInv PROVE PhasesLeft \in 0..5 /\ LeftInPhase \in Nat
    OBVIOUS
  <1>1. Cardinality(alive_peers) \in Nat
    BY FS_CardinalityType DEF PInv
  <1> QED
    BY <1>1, AnsweringListed DEF PInv, TInv, PhasesLeft, LeftInPhase

LEMMA OwnSteps == PInv /\ PInv' /\ OwnStep => Progress
  <1> SUFFICES ASSUME PInv, PInv', OwnStep PROVE Progress
    OBVIOUS
  <1>1. CASE Start \/ ConnectionFound
    BY <1>1 DEF Start, ConnectionFound, Progress, PhasesLeft
  <1>2. CASE JoinFindNode \/ JoinPing
    BY <1>2 DEF JoinFindNode, JoinPing, Progress, PhasesLeft
  <1>3. CASE Return
    BY <1>3 DEF Return, Progress, PhasesLeft
  <1>4. ASSUME NEW p \in Peers, UpdateTable(p) PROVE Progress
    <2>1. pc = "update" /\ pc' = pc /\ p \in alive_peers /\ alive_peers' = alive_peers \ {p}
      BY <1>4 DEF UpdateTable
    <2>2. /\ Cardinality(alive_peers) \in Nat
          /\ Cardinality(alive_peers') = Cardinality(alive_peers) - 1
      BY <2>1, FS_RemoveElement, FS_CardinalityType DEF PInv
    <2> QED
      BY <2>1, <2>2 DEF Progress, PhasesLeft, LeftInPhase
  <1>5. ASSUME NEW i \in DOMAIN results, Rpc(i) PROVE Progress
    <2>1. /\ pc \in {"find_node", "ping"} /\ pc' = pc /\ results[i] = Waiting
          /\ \E r : r # Waiting /\ results' = [results EXCEPT ![i] = r]
      BY <1>5 DEF Rpc, PeerAnswers, PeerFails, Settle, Reply, Failed, Waiting
    <2>2. i \in Open /\ Open' = Open \ {i}
      BY <2>1 DEF Open
    <2>3. IsFiniteSet(Open) /\ Cardinality(Open) \in Nat
      BY <2>1, AnsweringListed DEF PInv
    <2>4. Cardinality(Open') = Cardinality(Open) - 1
      BY <2>2, <2>3, FS_RemoveElement
    <2> QED
      BY <2>1, <2>3, <2>4 DEF Progress, PhasesLeft, LeftInPhase
  <1> QED
    BY <1>1, <1>2, <1>3, <1>4, <1>5 DEF OwnStep, Step

\* The server's steps take nothing away and add nothing.
LEMMA ServerSteps ==
  [Next]_vars => OwnStep \/ (PhasesLeft' = PhasesLeft /\ LeftInPhase' = LeftInPhase)
  BY DEF Next, OwnStep, Listen, Contact, vars, PhasesLeft, LeftInPhase, Open

(***************************************************************************)
(* bootstrap() cannot go on for ever: each of its steps and each end of a  *)
(* request ends a phase, of which there are six, or leaves less to do in   *)
(* the phase, whatever and how much the peers answer; requests from other  *)
(* nodes meanwhile give it nothing to do.                                  *)
(***************************************************************************)
THEOREM BootstrapBounded ==
  Spec => /\ [](PhasesLeft \in 0..5 /\ LeftInPhase \in Nat)
          /\ [][OwnStep => Progress]_vars
          /\ [][~OwnStep => PhasesLeft' = PhasesLeft /\ LeftInPhase' = LeftInPhase]_vars
  <1>1. PInv /\ PInv' => [OwnStep => Progress]_vars
    BY OwnSteps
  <1>2. [Next]_vars => [~OwnStep => PhasesLeft' = PhasesLeft /\ LeftInPhase' = LeftInPhase]_vars
    BY ServerSteps
  <1>3. Spec => []PInv /\ [][Next]_vars
    BY ProgressInvariance DEF Spec
  <1> QED
    BY <1>1, <1>2, <1>3, LeftType, PTL
-----------------------------------------------------------------------------
(***************************************************************************)
(* While peers are left to record, one of them is next and update() has an *)
(* outcome for it: the table can be unfolded whenever it has to be.        *)
(***************************************************************************)
RecordingGoesOn ==
  pc = "update" /\ alive_peers # {} =>
    /\ \E p \in alive_peers : \A q \in alive_peers : Position(p) <= Position(q)
    /\ \E d \in (depth + 1)..(depth + W + 2) : Table!Unfolded(d)

\* Position is a number: the peer stands somewhere in the lists.
LEMMA PositionType ==
  ASSUME PInv, pc = "update", NEW p \in alive_peers
  PROVE  Position(p) \in Nat
  <1> DEFINE order == bootstrap_peers \o candidate_peers
             P == {i \in DOMAIN order : order[i] = p}
  <1>1. bootstrap_peers \in Seq(Peers) /\ candidate_peers \in Seq(Peers)
    BY ConfigsAssumption DEF PInv, TInv
  <1>2. P \in SUBSET Nat
    BY <1>1
  <1>3. P # {}
    <2>1. CASE \E i \in DOMAIN bootstrap_peers : bootstrap_peers[i] = p
      <3>1. PICK i \in DOMAIN bootstrap_peers : bootstrap_peers[i] = p
        BY <2>1
      <3>2. i \in DOMAIN order /\ order[i] = p
        BY <1>1, <3>1
      <3> QED
        BY <3>2
    <2>2. CASE \E i \in DOMAIN candidate_peers : candidate_peers[i] = p
      <3>1. PICK i \in DOMAIN candidate_peers : candidate_peers[i] = p
        BY <2>2
      <3>2. /\ i + Len(bootstrap_peers) \in DOMAIN order
            /\ order[i + Len(bootstrap_peers)] = p
        BY <1>1, <3>1
      <3> QED
        BY <3>2
    <2> QED
      BY <2>1, <2>2 DEF PInv, Listed
  <1>4. Position(p) = CHOOSE x \in P : \A y \in P : x =< y
    BY DEF Position, Min
  <1> HIDE DEF P
  <1>5. \E x \in P : \A y \in P : x =< y
    BY <1>2, <1>3, Least
  <1> QED
    BY <1>2, <1>4, <1>5

THEOREM RecordingGoesOnHolds == Spec => []RecordingGoesOn
  <1>1. KB!Spec => []KB!UnfoldingEnds
    BY WAssumption, TableAssumption, KB!UnfoldingEndsHolds DEF Id, KB!Id
  <1>2. PInv /\ KB!UnfoldingEnds => RecordingGoesOn
    <2> SUFFICES ASSUME PInv, KB!UnfoldingEnds, pc = "update", alive_peers # {}
                 PROVE  /\ \E p \in alive_peers : \A q \in alive_peers : Position(p) <= Position(q)
                        /\ \E d \in (depth + 1)..(depth + W + 2) : Table!Unfolded(d)
      BY DEF RecordingGoesOn
    <2> DEFINE B == {Position(q) : q \in alive_peers}
    <2>1. B \in SUBSET Nat /\ B # {}
      BY PositionType
    <2>2. \E m \in B : \A y \in B : m <= y
      <3> HIDE DEF B
      <3> QED
        BY <2>1, Least
    <2>3. \E d \in (depth + 1)..(depth + W + 2) : KB!Unfolded(d)
      BY DEF KB!UnfoldingEnds
    <2>4. \A d : Table!Unfolded(d) <=> KB!Unfolded(d)
      BY DEF Table!Unfolded, Table!From, Table!Cpl, Table!common_prefix_length,
             Table!LeadingZeros, Table!Distance, Table!Cardinality,
             KB!Unfolded, KB!From, KB!Cpl, KB!common_prefix_length, KB!LeadingZeros,
             KB!Distance, KB!Cardinality
    <2> QED
      BY <2>2, <2>3, <2>4
  <1> QED
    BY <1>1, <1>2, TableImplemented, SameSpec, ProgressInvariance, PTL
=============================================================================
