----------------------------- MODULE StoreProofs -----------------------------
(***************************************************************************)
(* Proofs about Store for any number of peers, any K and any loss or delay *)
(* of requests and replies.                                                *)
(***************************************************************************)
EXTENDS Store, FiniteSetTheorems, WellFoundedInduction, TLAPS

(***************************************************************************)
(* The inductive invariant.  A result OK comes from a peer that stored the *)
(* value (Confirmed).  Once the call has returned no result is pending, so *)
(* what arrives later cannot contradict the verdict (Returned).            *)
(***************************************************************************)
Confirmed ==
  \A i \in DOMAIN peers : /\ result[i] = "OK" => request[i] = "OK"
                          /\ request[i] = "OK" => peers[i] \in stored

Returned ==
  /\ pc \in {"nearest_peers", "panicked"} => peers = <<>>
  /\ pc # "done" => outcome = Pending
  /\ pc = "done" => Ready

IInv == TypeOK /\ Confirmed /\ Returned /\ ConfirmedMeansOk

USE DEF Pending, Ok, Err, Waiting, ErrorCode

\* A nonempty set of positions has a last one.
LEMMA MaxExists ==
  ASSUME NEW n \in Nat, NEW T, T \subseteq 1..n, T # {}
  PROVE  Max(T) \in T
  <1> DEFINE D == {n - i : i \in T}
  <1>1. D \subseteq Nat /\ D # {}
    <2>1. PICK i \in T : TRUE
      OBVIOUS
    <2>2. n - i \in D
      OBVIOUS
    <2>3. ASSUME NEW j \in T PROVE n - j \in Nat
      OBVIOUS
    <2> QED
      BY <2>2, <2>3
  <1>2. PICK d \in D : \A y \in D : ~(<<y, d>> \in OpToRel(<, Nat))
    <2> HIDE DEF D
    <2> QED
      BY <1>1, NatLessThanWellFounded, WFMin
  <1>3. PICK m \in T : d = n - m
    OBVIOUS
  <1>4. ASSUME NEW i \in T PROVE m >= i
    <2>1. n - i \in D
      OBVIOUS
    <2> HIDE DEF D
    <2>2. ~(<<n - i, d>> \in OpToRel(<, Nat))
      BY <1>2, <2>1
    <2>3. n - i \in Nat /\ n - m \in Nat
      BY <1>1, <1>3, <2>1
    <2>4. ~(n - i < n - m)
      BY <1>3, <2>2, <2>3 DEF OpToRel
    <2>5. i \in 1..n /\ m \in 1..n
      OBVIOUS
    <2> QED
      BY <2>4, <2>5
  <1> QED
    BY <1>4 DEF Max

\* What TypeOK says of the sequence of peers.
LEMMA PeersType ==
  ASSUME NEW s \in Answers
  PROVE  /\ Len(s) \in Nat /\ DOMAIN s = 1..Len(s)
         /\ \A i \in DOMAIN s : s[i] \in Peers
         /\ ToSet(s) = {s[i] : i \in DOMAIN s}
  BY KAssumption DEF Answers, BoundedSeq, SeqOf, ToSet

\* AllFailed counts: it holds exactly when no result is OK.
LEMMA AllFailedMeans ==
  ASSUME TypeOK
  PROVE  AllFailed <=> \A i \in DOMAIN result : result[i] # "OK"
  <1>1. /\ DOMAIN result = 1..Len(peers) /\ Len(peers) \in Nat
        /\ Failures \subseteq 1..Len(peers)
    BY PeersType DEF TypeOK, Failures
  <1>2. IsFiniteSet(1..Len(peers)) /\ Cardinality(1..Len(peers)) = Len(peers)
    <2> DEFINE n == Len(peers)
    <2>1. n \in Nat
      BY <1>1
    <2> HIDE DEF n
    <2>2. IsFiniteSet(1..n) /\ Cardinality(1..n) = n
      BY <2>1, FS_Interval
    <2> QED
      BY <2>2 DEF n
  <1>3. Cardinality(Failures) = Cardinality(1..Len(peers)) <=> Failures = 1..Len(peers)
    BY <1>1, <1>2, FS_Subset
  <1> QED
    BY <1>1, <1>2, <1>3 DEF AllFailed, Failures

LEMMA LastErrorType ==
  ASSUME TypeOK, Ready
  PROVE  last_error \in ErrorCode
  <1>1. DOMAIN result = 1..Len(peers) /\ Len(peers) \in Nat
    BY PeersType DEF TypeOK
  <1>2. CASE Failures = {}
    BY <1>2 DEF last_error
  <1>3. CASE Failures # {}
    <2>1. Max(Failures) \in Failures
      BY <1>1, <1>3, MaxExists DEF Failures
    <2> QED
      BY <1>3, <2>1 DEF last_error, Failures, TypeOK, Ready
  <1> QED
    BY <1>2, <1>3

LEMMA InitIInv == Init => IInv
  <1> SUFFICES ASSUME Init PROVE IInv
    OBVIOUS
  <1>1. <<>> \in Answers
    BY KAssumption DEF Answers, BoundedSeq, SeqOf, IsInjective
  <1>2. TypeOK
    BY <1>1 DEF Init, TypeOK
  <1>3. Confirmed /\ Returned /\ ConfirmedMeansOk
    BY DEF Init, Confirmed, Returned, ConfirmedMeansOk
  <1> QED
    BY <1>2, <1>3 DEF IInv

LEMMA NearestPeersIInv ==
  ASSUME IInv, NEW s \in Answers, NearestPeers(s)
  PROVE  IInv'
  <1> USE DEF NearestPeers, IInv
  <1>1. stored = {}
    BY DEF TypeOK, Returned, ToSet
  <1>2. TypeOK'
    BY <1>1 DEF TypeOK
  <1>3. Confirmed' /\ Returned' /\ ConfirmedMeansOk'
    BY <1>1 DEF Confirmed, Returned, ConfirmedMeansOk, TypeOK
  <1> QED
    BY <1>2, <1>3

\* A peer acts: nothing that the caller sees changes.
LEMMA PeerIInv ==
  ASSUME IInv, NEW i \in DOMAIN peers,
         PeerStores(i) \/ \E code \in {"INTERNAL_ERROR", "BAD_REQUEST"} : PeerRefuses(i, code)
  PROVE  IInv'
  <1>1. /\ UNCHANGED <<pc, peers, result, outcome>>
        /\ request[i] = "sent"
        /\ \/ /\ request' = [request EXCEPT ![i] = "OK"]
              /\ stored' = stored \cup {peers[i]}
           \/ \E code \in {"INTERNAL_ERROR", "BAD_REQUEST"} :
                request' = [request EXCEPT ![i] = code] /\ stored' = stored
    BY DEF PeerStores, PeerRefuses
  <1>2. peers[i] \in ToSet(peers)
    BY PeersType DEF IInv, TypeOK
  <1>3. TypeOK'
    BY <1>1, <1>2 DEF IInv, TypeOK
  <1>4. Confirmed'
    BY <1>1 DEF IInv, TypeOK, Confirmed
  <1>5. Returned' /\ ConfirmedMeansOk'
    BY <1>1 DEF IInv, Returned, ConfirmedMeansOk, Ready
  <1> QED
    BY <1>3, <1>4, <1>5 DEF IInv

\* A future becomes ready: the call cannot have returned yet.
LEMMA RpcIInv ==
  ASSUME IInv, NEW i \in DOMAIN peers, Rpc(i)
  PROVE  IInv'
  <1>1. /\ result[i] = Waiting /\ UNCHANGED <<pc, peers, stored, outcome>>
        /\ \/ /\ request[i] \in ErrorCode /\ request' = request
              /\ result' = [result EXCEPT ![i] = request[i]]
           \/ /\ request' = request \/ request' = [request EXCEPT ![i] = "lost"]
              /\ result' = [result EXCEPT ![i] = "INTERNAL_ERROR"]
    BY DEF Rpc, ReplyArrives, ConnectFails, RpcFails
  <1>2. \A j \in DOMAIN peers \ {i} : request'[j] = request[j] /\ result'[j] = result[j]
    BY <1>1 DEF IInv, TypeOK
  <1>3. request'[i] = "OK" => request[i] = "OK"
    BY <1>1 DEF IInv, TypeOK
  <1>4. result'[i] = "OK" => request'[i] = "OK"
    BY <1>1 DEF IInv, TypeOK
  <1>5. TypeOK'
    BY <1>1 DEF IInv, TypeOK
  <1>6. Confirmed'
    BY <1>1, <1>2, <1>3, <1>4 DEF IInv, Confirmed
  <1>7. pc # "done"
    BY <1>1 DEF IInv, TypeOK, Returned, Ready
  <1>8. Returned' /\ ConfirmedMeansOk'
    BY <1>1, <1>7 DEF IInv, Returned, ConfirmedMeansOk
  <1> QED
    BY <1>5, <1>6, <1>8 DEF IInv

LEMMA ReturnIInv == IInv /\ Return => IInv'
  <1> SUFFICES ASSUME IInv, Return PROVE IInv'
    OBVIOUS
  <1> USE DEF Return
  <1>1. TypeOK'
    BY LastErrorType DEF IInv, TypeOK
  <1>2. Confirmed' /\ Returned'
    BY DEF IInv, Confirmed, Returned, Ready
  <1>3. ConfirmedMeansOk'
    BY AllFailedMeans DEF IInv, ConfirmedMeansOk
  <1> QED
    BY <1>1, <1>2, <1>3 DEF IInv

LEMMA NextIInv == IInv /\ [Next]_vars => IInv'
  <1> SUFFICES ASSUME IInv, [Next]_vars PROVE IInv'
    OBVIOUS
  <1>1. CASE UNCHANGED vars
    BY <1>1 DEF vars, IInv, TypeOK, Confirmed, Returned, ConfirmedMeansOk, Ready
  <1>2. CASE Next
    BY <1>2, NearestPeersIInv, PeerIInv, RpcIInv, ReturnIInv DEF Next
  <1> QED
    BY <1>1, <1>2

LEMMA Invariance == Spec => []IInv
  BY InitIInv, NextIInv, PTL DEF Spec
-----------------------------------------------------------------------------
(***************************************************************************)
(* Type correctness; in particular the error of a failed put carries one   *)
(* of the protocol's codes, never that of a request still under way.       *)
(***************************************************************************)
THEOREM TypeCorrect == Spec => []TypeOK
  <1>1. IInv => TypeOK
    BY DEF IInv
  <1> QED
    BY <1>1, Invariance, PTL

\* A put that reports success was stored by at least one peer.
THEOREM OkMeansStoredHolds == Spec => []OkMeansStored
  <1>1. IInv => OkMeansStored
    <2> SUFFICES ASSUME IInv, outcome = Ok PROVE stored # {}
      BY DEF OkMeansStored
    <2>1. pc = "done"
      BY DEF IInv, Returned
    <2>2. PICK i \in DOMAIN result : result[i] = "OK"
      BY <2>1 DEF IInv, ConfirmedMeansOk
    <2> QED
      BY <2>2 DEF IInv, TypeOK, Confirmed
  <1> QED
    BY <1>1, Invariance, PTL

\* A put fails exactly when no store was confirmed to it.
THEOREM ConfirmedMeansOkHolds == Spec => []ConfirmedMeansOk
  <1>1. IInv => ConfirmedMeansOk
    BY DEF IInv
  <1> QED
    BY <1>1, Invariance, PTL
-----------------------------------------------------------------------------
(***************************************************************************)
(* How long a put can take: each request is acted upon or lost once, each  *)
(* future becomes ready once, and the call returns once.                   *)
(***************************************************************************)
Unanswered == {i \in DOMAIN request : request[i] = "sent"}
Unready    == {i \in DOMAIN result  : result[i] = Waiting}

StepsLeft ==
  CASE pc = "nearest_peers" -> 2 * K + 2
    [] pc = "join_all"      -> Cardinality(Unanswered) + Cardinality(Unready) + 1
    [] pc = "done"          -> Cardinality(Unanswered) + Cardinality(Unready)
    [] pc = "panicked"      -> 0

\* A subset of the positions of the peers is finite and has at most K elements.
LEMMA Positions ==
  ASSUME NEW s \in Answers, NEW T, T \subseteq DOMAIN s
  PROVE  IsFiniteSet(T) /\ Cardinality(T) \in Nat /\ Cardinality(T) <= K
  <1> DEFINE n == Len(s)
  <1>1. n \in Nat /\ n <= K /\ DOMAIN s = 1..n
    BY KAssumption, PeersType DEF Answers, BoundedSeq, SeqOf
  <1> HIDE DEF n
  <1>2. IsFiniteSet(1..n) /\ Cardinality(1..n) = n
    BY <1>1, FS_Interval
  <1>3. IsFiniteSet(T) /\ Cardinality(T) <= Cardinality(1..n)
    BY <1>1, <1>2, FS_Subset
  <1>4. Cardinality(T) \in Nat
    BY <1>3, FS_CardinalityType
  <1> QED
    BY <1>1, <1>2, <1>3, <1>4, KAssumption

LEMMA StepsType ==
  ASSUME TypeOK
  PROVE  /\ IsFiniteSet(Unanswered) /\ Cardinality(Unanswered) \in 0..K
         /\ IsFiniteSet(Unready) /\ Cardinality(Unready) \in 0..K
         /\ StepsLeft \in 0..(2 * K + 2)
  <1>1. Unanswered \subseteq DOMAIN peers /\ Unready \subseteq DOMAIN peers
    BY DEF TypeOK, Unanswered, Unready
  <1>2. /\ IsFiniteSet(Unanswered) /\ Cardinality(Unanswered) \in 0..K
        /\ IsFiniteSet(Unready) /\ Cardinality(Unready) \in 0..K
    BY <1>1, Positions, KAssumption DEF TypeOK
  <1> QED
    BY <1>2, KAssumption DEF TypeOK, StepsLeft

\* A request that is acted upon or lost is one request fewer.
LEMMA AnsweredSteps ==
  ASSUME TypeOK, NEW i \in DOMAIN peers, request[i] = "sent",
         NEW what, what # "sent", request' = [request EXCEPT ![i] = what]
  PROVE  Cardinality(Unanswered') = Cardinality(Unanswered) - 1
  <1>1. Unanswered' = Unanswered \ {i} /\ i \in Unanswered
    BY DEF TypeOK, Unanswered
  <1> QED
    BY <1>1, StepsType, FS_RemoveElement

\* A result that arrives is one future fewer to wait for.
LEMMA ReadySteps ==
  ASSUME TypeOK, NEW i \in DOMAIN peers, result[i] = Waiting,
         NEW verdict, verdict # Waiting, result' = [result EXCEPT ![i] = verdict]
  PROVE  Cardinality(Unready') = Cardinality(Unready) - 1
  <1>1. Unready' = Unready \ {i} /\ i \in Unready
    BY DEF TypeOK, Unready
  <1> QED
    BY <1>1, StepsType, FS_RemoveElement

LEMMA NearestPeersSteps ==
  ASSUME TypeOK, NEW s \in Answers, NearestPeers(s)
  PROVE  StepsLeft' < StepsLeft
  <1>1. StepsLeft = 2 * K + 2
    BY DEF NearestPeers, StepsLeft
  <1>2. CASE pc' = "panicked"
    <2>1. StepsLeft' = 0
      BY <1>2 DEF StepsLeft
    <2> QED
      BY <1>1, <2>1, KAssumption
  <1>3. CASE pc' # "panicked"
    <2>1. /\ pc' = "join_all"
          /\ Unanswered' \subseteq DOMAIN s /\ Unready' \subseteq DOMAIN s
      BY <1>3 DEF NearestPeers, Unanswered, Unready
    <2>2. /\ Cardinality(Unanswered') \in Nat /\ Cardinality(Unanswered') <= K
          /\ Cardinality(Unready') \in Nat /\ Cardinality(Unready') <= K
      BY <2>1, Positions
    <2>3. StepsLeft' = Cardinality(Unanswered') + Cardinality(Unready') + 1
      BY <2>1 DEF StepsLeft
    <2> QED
      BY <1>1, <2>2, <2>3, KAssumption
  <1> QED
    BY <1>2, <1>3

LEMMA PeerSteps ==
  ASSUME IInv, NEW i \in DOMAIN peers,
         PeerStores(i) \/ \E code \in {"INTERNAL_ERROR", "BAD_REQUEST"} : PeerRefuses(i, code)
  PROVE  StepsLeft' < StepsLeft
  <1>1. PICK code \in {"OK", "INTERNAL_ERROR", "BAD_REQUEST"} :
          /\ request[i] = "sent" /\ request' = [request EXCEPT ![i] = code]
          /\ UNCHANGED <<pc, result>>
    BY DEF PeerStores, PeerRefuses
  <1>2. Cardinality(Unanswered') = Cardinality(Unanswered) - 1
    BY <1>1, AnsweredSteps DEF IInv
  <1>3. Cardinality(Unready') = Cardinality(Unready)
    BY <1>1 DEF Unready
  <1>4. pc \in {"join_all", "done"}
    BY DEF IInv, TypeOK, Returned
  <1>5. Cardinality(Unanswered) \in Nat /\ Cardinality(Unready) \in Nat
    BY StepsType DEF IInv
  <1> QED
    BY <1>1, <1>2, <1>3, <1>4, <1>5 DEF StepsLeft

LEMMA RpcSteps ==
  ASSUME IInv, NEW i \in DOMAIN peers, Rpc(i)
  PROVE  StepsLeft' < StepsLeft
  <1>1. PICK verdict \in ErrorCode :
          result[i] = Waiting /\ result' = [result EXCEPT ![i] = verdict]
    BY DEF Rpc, ReplyArrives, ConnectFails, RpcFails
  <1>2. Cardinality(Unready') = Cardinality(Unready) - 1
    BY <1>1, ReadySteps DEF IInv
  <1>3. Cardinality(Unanswered') \in Int
        /\ Cardinality(Unanswered') <= Cardinality(Unanswered)
    <2>0. Cardinality(Unanswered) \in Nat
      BY StepsType DEF IInv
    <2>1. CASE request' = request
      <3>1. Cardinality(Unanswered') = Cardinality(Unanswered)
        BY <2>1 DEF Unanswered
      <3> QED
        BY <2>0, <3>1
    <2>2. CASE request[i] = "sent" /\ request' = [request EXCEPT ![i] = "lost"]
      <3>1. Cardinality(Unanswered') = Cardinality(Unanswered) - 1
        BY <2>2, AnsweredSteps DEF IInv
      <3> QED
        BY <2>0, <3>1
    <2> QED
      BY <2>1, <2>2 DEF Rpc, ReplyArrives, ConnectFails, RpcFails
  <1>4. pc \in {"join_all", "done"} /\ pc' = pc
    BY DEF IInv, TypeOK, Returned, Rpc, ReplyArrives, ConnectFails, RpcFails
  <1>5. Cardinality(Unanswered) \in Nat /\ Cardinality(Unready) \in Nat
    BY StepsType DEF IInv
  <1> QED
    BY <1>2, <1>3, <1>4, <1>5 DEF StepsLeft

LEMMA ReturnSteps == IInv /\ Return => StepsLeft' < StepsLeft
  <1> SUFFICES ASSUME IInv, Return PROVE StepsLeft' < StepsLeft
    OBVIOUS
  <1>1. /\ Cardinality(Unanswered') = Cardinality(Unanswered)
        /\ Cardinality(Unready') = Cardinality(Unready)
    BY DEF Return, Unanswered, Unready
  <1>2. Cardinality(Unanswered) \in Nat /\ Cardinality(Unready) \in Nat
    BY StepsType DEF IInv
  <1> QED
    BY <1>1, <1>2 DEF Return, StepsLeft

(***************************************************************************)
(* A put is bounded: the call and all that its requests do, before or      *)
(* after it has returned, take at most 2 * K + 2 steps, because every step *)
(* uses one up.  No reply, loss or late store can start anything anew.     *)
(***************************************************************************)
THEOREM PutBounded ==
  Spec => /\ [](StepsLeft \in 0..(2 * K + 2))
          /\ [][StepsLeft' < StepsLeft]_vars
  <1>1. IInv => StepsLeft \in 0..(2 * K + 2)
    BY StepsType DEF IInv
  <1>2. IInv /\ [Next]_vars => [StepsLeft' < StepsLeft]_vars
    <2> SUFFICES ASSUME IInv, Next PROVE StepsLeft' < StepsLeft
      OBVIOUS
    <2>1. ASSUME NEW s \in Answers, NearestPeers(s) PROVE StepsLeft' < StepsLeft
      BY <2>1, NearestPeersSteps DEF IInv
    <2> QED
      BY <2>1, PeerSteps, RpcSteps, ReturnSteps DEF Next
  <1>3. Spec => []IInv /\ [][Next]_vars
    BY Invariance DEF Spec
  <1> QED
    BY <1>1, <1>2, <1>3, PTL
=============================================================================
