-------------------------- MODULE FindValueProofs --------------------------
(***************************************************************************)
(* Proofs about FindValue for every number of peers, every Alpha >= 1 and  *)
(* every answer a peer may give.                                           *)
(***************************************************************************)
EXTENDS FindValue, FiniteSetTheorems, TLAPS

(***************************************************************************)
(* The inductive invariant.  The count of queries is exact because every   *)
(* spawned task stands in tasks, has its result in the channel or is lost, *)
(* and a spawn always adds a task: a candidate was never queried before    *)
(* (Disjoint).  The caller reaches rx.next() with a query in progress      *)
(* because it entered the spawn loop with a candidate and Alpha > 0.       *)
(***************************************************************************)
Disjoint ==
  /\ \A p \in queried : p \notin candidates
  /\ tasks \subseteq queried
  /\ pc \in {"find_value_local", "nearest_peers"} => queried = {}

Progress ==
  /\ pc = "spawn" => candidates # {} \/ in_progress > 0
  /\ pc = "recv"  => in_progress > 0

Honest ==
  /\ \A p \in Peers : store[p] # None => <<p, store[p]>> \in held
  /\ \A x \in DOMAIN channel :
       /\ channel[x].from \in queried
       /\ channel[x].ok /\ channel[x].value # Empty
            => <<channel[x].from, channel[x].value>> \in held

\* Who was named is queried, or waits to be.
Remembered == named \subseteq candidates \cup queried

IInv ==
  /\ TypeOK
  /\ IsFiniteSet(tasks) /\ IsFiniteSet(Lost)
  /\ InProgressExact
  /\ Disjoint
  /\ Remembered
  /\ Progress
  /\ Honest
  /\ FoundWasHeld

USE DEF Pending, NotFound, Found, client, nodes, seen, HeldLocally, Exhausted, HasValue, Sent

LEMMA InitIInv == Init => IInv
  <1> SUFFICES ASSUME Init PROVE IInv
    OBVIOUS
  <1>1. TypeOK
    BY PeersAssumption, NoneAssumption DEF Init, TypeOK, Results, Answers
  <1>2. /\ IsFiniteSet(tasks) /\ Cardinality(tasks) = 0
        /\ IsFiniteSet(Lost) /\ Cardinality(Lost) = 0
    BY FS_EmptySet DEF Init, Lost
  <1>3. InProgressExact
    BY <1>2, AlphaAssumption DEF Init, InProgressExact
  <1>4. Disjoint /\ Remembered /\ Progress /\ Honest /\ FoundWasHeld
    BY DEF Init, Disjoint, Remembered, Progress, Honest, FoundWasHeld
  <1> QED
    BY <1>1, <1>2, <1>3, <1>4 DEF IInv

LEMMA FindValueLocalIInv == IInv /\ FindValueLocal => IInv'
  <1> SUFFICES ASSUME IInv, FindValueLocal PROVE IInv'
    OBVIOUS
  <1> USE DEF IInv, FindValueLocal
  <1>1. TypeOK'
    BY PeersAssumption, NoneAssumption DEF TypeOK
  <1>2. (IsFiniteSet(tasks) /\ IsFiniteSet(Lost) /\ InProgressExact)'
    BY DEF InProgressExact, Lost
  <1>3. (Disjoint /\ Remembered /\ Progress /\ Honest)'
    BY DEF Disjoint, Remembered, Progress, Honest
  <1>4. FoundWasHeld'
    <2>1. CASE store[Self] # None
      <3>1. outcome'.status = "OK" /\ outcome'.value = store[Self]
        BY <2>1
      <3>2. <<Self, store[Self]>> \in held'
        BY <2>1, PeersAssumption DEF Honest
      <3> QED
        BY <3>1, <3>2 DEF FoundWasHeld
    <2>2. CASE store[Self] = None
      BY <2>2 DEF FoundWasHeld
    <2> QED
      BY <2>1, <2>2
  <1> QED
    BY <1>1, <1>2, <1>3, <1>4

LEMMA NearestPeersIInv ==
  ASSUME IInv, NEW S \in Answers, NearestPeers(S)
  PROVE  IInv'
  <1> USE DEF IInv, NearestPeers
  <1>1. TypeOK'
    BY DEF TypeOK, Answers
  <1>2. Disjoint' /\ Remembered' /\ Progress'
    BY DEF Disjoint, Remembered, Progress
  <1>3. (IsFiniteSet(tasks) /\ IsFiniteSet(Lost) /\ InProgressExact /\ Honest /\ FoundWasHeld)'
    BY DEF InProgressExact, Lost, Honest, FoundWasHeld
  <1> QED
    BY <1>1, <1>2, <1>3

LEMMA CheckCandidatesIInv == IInv /\ CheckCandidates => IInv'
  <1> SUFFICES ASSUME IInv, CheckCandidates PROVE IInv'
    OBVIOUS
  <1> USE DEF IInv, CheckCandidates
  <1>1. TypeOK'
    BY DEF TypeOK
  <1>2. (IsFiniteSet(tasks) /\ IsFiniteSet(Lost) /\ InProgressExact)'
        /\ (Disjoint /\ Remembered /\ Progress /\ Honest)'
    BY DEF InProgressExact, Lost, Disjoint, Remembered, Progress, Honest
  <1>3. FoundWasHeld'
    BY DEF FoundWasHeld
  <1> QED
    BY <1>1, <1>2, <1>3

LEMMA SpawnQueryIInv ==
  ASSUME IInv, NEW p \in Peers, SpawnQuery(p)
  PROVE  IInv'
  <1> USE DEF IInv, SpawnQuery, CanSpawn, NearestCandidate
  <1>1. p \notin tasks
    BY DEF Disjoint
  <1>2. /\ IsFiniteSet(tasks') /\ Cardinality(tasks') = Cardinality(tasks) + 1
        /\ Lost' = Lost
    BY <1>1, FS_AddElement DEF Lost, Disjoint
  <1>3. TypeOK'
    BY DEF TypeOK
  <1>4. InProgressExact'
    BY <1>2, FS_CardinalityType, AlphaAssumption DEF InProgressExact, TypeOK
  <1>5. Disjoint' /\ Remembered'
    BY DEF Disjoint, Remembered
  <1>6. Progress'
    BY DEF Progress, TypeOK
  <1>7. Honest' /\ FoundWasHeld'
    BY DEF Honest, FoundWasHeld
  <1> QED
    BY <1>2, <1>3, <1>4, <1>5, <1>6, <1>7

LEMMA AwaitIInv == IInv /\ Await => IInv'
  <1> SUFFICES ASSUME IInv, Await PROVE IInv'
    OBVIOUS
  <1> USE DEF IInv, Await, CanSpawn
  <1>1. TypeOK'
    BY DEF TypeOK
  <1>2. Progress'
    BY AlphaAssumption DEF Progress, TypeOK
  <1> QED
    BY <1>1, <1>2 DEF InProgressExact, Lost, Disjoint, Remembered, Honest, FoundWasHeld

LEMMA ReceiveIInv == IInv /\ Receive => IInv'
  <1> SUFFICES ASSUME IInv, Receive PROVE IInv'
    OBVIOUS
  <1> DEFINE r == Head(channel)
  <1> USE DEF IInv
  <1>1. /\ r \in Results /\ r = channel[1] /\ 1 \in DOMAIN channel
        /\ Tail(channel) \in Seq(Results) /\ Len(Tail(channel)) = Len(channel) - 1
        /\ \A x \in DOMAIN Tail(channel) :
             x + 1 \in DOMAIN channel /\ Tail(channel)[x] = channel[x + 1]
    BY DEF Receive, TypeOK
  <1>2. /\ pc = "recv" /\ in_progress' = in_progress - 1
        /\ channel' = Tail(channel)
        /\ UNCHANGED <<queried, tasks, store, held>>
    BY DEF Receive
  <1>3. \/ /\ pc' = "loop" /\ outcome' = outcome
           /\ \/ candidates' = candidates /\ named' = named
              \/ candidates' = candidates \cup NewCandidates(r) /\ named' = named \cup r.closerPeers
           /\ ignored' = ignored \/ ignored' = ignored \cup {r.from}
        \/ /\ pc' = "done" /\ outcome' = Found(r.value) /\ r.ok /\ r.value # Empty
           /\ UNCHANGED <<candidates, named, ignored>>
    BY DEF Receive
  <1>4. /\ in_progress = Cardinality(tasks) + Len(channel) + Cardinality(Lost)
        /\ in_progress <= Alpha /\ Lost' = Lost
        /\ Cardinality(tasks) \in Nat /\ Cardinality(Lost) \in Nat /\ Len(channel) \in Nat \ {0}
    BY <1>1, <1>2, FS_CardinalityType DEF InProgressExact, Lost, TypeOK
  <1>5. r.from \in Peers /\ r.value \in Values \cup {Empty} /\ r.closerPeers \subseteq Peers
    BY <1>1 DEF Results, Answers
  <1>6. TypeOK'
    BY <1>1, <1>2, <1>3, <1>4, <1>5 DEF TypeOK, NewCandidates
  <1>7. InProgressExact'
    BY <1>1, <1>2, <1>4, AlphaAssumption DEF InProgressExact
  <1>8. Disjoint' /\ Remembered' /\ Progress' /\ IsFiniteSet(tasks') /\ IsFiniteSet(Lost')
    BY <1>2, <1>3, <1>4 DEF Disjoint, Remembered, Progress, NewCandidates
  <1>9. Honest'
    BY <1>1, <1>2 DEF Honest
  <1>10. FoundWasHeld'
    <2>1. CASE outcome' = outcome
      BY <1>2, <2>1 DEF FoundWasHeld
    <2>2. CASE outcome' = Found(r.value) /\ r.ok /\ r.value # Empty
      <3>1. r.from \in queried' /\ <<r.from, r.value>> \in held'
        BY <1>1, <1>2, <2>2 DEF Honest
      <3>2. outcome'.value = r.value
        BY <2>2
      <3> QED
        BY <3>1, <3>2 DEF FoundWasHeld
    <2> QED
      BY <1>3, <2>1, <2>2
  <1> QED
    BY <1>6, <1>7, <1>8, <1>9, <1>10

\* A task that ends leaves its result behind, or nobody waits for it any more.
LEMMA ReportIInv ==
  ASSUME IInv, NEW p \in Peers, NEW result \in Results, Report(p, result),
         result.from = p,
         result.ok /\ result.value # Empty => <<p, result.value>> \in held
  PROVE  IInv'
  <1> USE DEF IInv, Report
  <1>1. IsFiniteSet(tasks') /\ Cardinality(tasks') = Cardinality(tasks) - 1
    BY FS_RemoveElement
  <1>2. /\ Cardinality(tasks) \in Nat /\ Cardinality(tasks') \in Nat
        /\ Lost' = Lost /\ Cardinality(Lost) \in Nat
    BY <1>1, FS_CardinalityType DEF Lost
  <1>3. /\ Append(channel, result) \in Seq(Results)
        /\ Len(Append(channel, result)) = Len(channel) + 1
        /\ Len(channel) \in Nat
        /\ \A x \in DOMAIN Append(channel, result) :
             \/ x \in DOMAIN channel /\ Append(channel, result)[x] = channel[x]
             \/ Append(channel, result)[x] = result
    BY DEF TypeOK
  <1>4. TypeOK'
    BY <1>3 DEF TypeOK
  <1>5. InProgressExact'
    BY <1>1, <1>2, <1>3 DEF InProgressExact
  <1>6. Disjoint' /\ Remembered' /\ Progress'
    BY DEF Disjoint, Remembered, Progress
  <1>7. Honest'
    BY <1>3 DEF Honest, Disjoint
  <1>8. FoundWasHeld'
    BY DEF FoundWasHeld
  <1> QED
    BY <1>1, <1>2, <1>4, <1>5, <1>6, <1>7, <1>8

\* A task that panics becomes a lost query: the count stays as it is.
LEMMA QueryPanicsIInv ==
  ASSUME IInv, NEW p \in Peers, QueryPanics(p)
  PROVE  IInv'
  <1> USE DEF IInv, QueryPanics
  <1>1. IsFiniteSet(tasks') /\ Cardinality(tasks') = Cardinality(tasks) - 1
    BY FS_RemoveElement
  <1>2. Lost' = Lost \cup {p} /\ p \notin Lost
    BY DEF Lost, Disjoint
  <1>3. IsFiniteSet(Lost') /\ Cardinality(Lost') = Cardinality(Lost) + 1
    BY <1>2, FS_AddElement
  <1>4. Cardinality(tasks) \in Nat /\ Cardinality(Lost) \in Nat
    BY FS_CardinalityType
  <1>5. TypeOK'
    BY DEF TypeOK
  <1>6. InProgressExact'
    BY <1>1, <1>3, <1>4 DEF InProgressExact, TypeOK
  <1>7. Disjoint' /\ Remembered' /\ Progress' /\ Honest' /\ FoundWasHeld'
    BY DEF Disjoint, Remembered, Progress, Honest, FoundWasHeld
  <1> QED
    BY <1>1, <1>3, <1>5, <1>6, <1>7

LEMMA TaskIInv ==
  ASSUME IInv, NEW p \in Peers, Task(p)
  PROVE  IInv'
  <1>1. CASE AnswerValue(p)
    <2> DEFINE result == [from |-> p, ok |-> TRUE, value |-> store[p], had |-> TRUE,
                          closerPeers |-> {}]
    <2>1. store[p] \in Values /\ <<p, store[p]>> \in held
      BY <1>1 DEF AnswerValue, IInv, TypeOK, Honest
    <2>2. result \in Results
      BY <2>1 DEF Results, Answers
    <2> QED
      BY <1>1, <2>1, <2>2, ReportIInv DEF AnswerValue
  <1>2. ASSUME NEW S \in Answers, AnswerPeers(p, S)
        PROVE  IInv'
    <2> DEFINE result == [from |-> p, ok |-> TRUE, value |-> Empty, had |-> FALSE,
                          closerPeers |-> S]
    <2>1. result \in Results
      BY DEF Results
    <2> QED
      BY <1>2, <2>1, ReportIInv DEF AnswerPeers
  <1>3. CASE QueryFails(p)
    <2> DEFINE result == [from |-> p, ok |-> FALSE, value |-> Empty, had |-> FALSE,
                          closerPeers |-> {}]
    <2>1. result \in Results
      BY DEF Results, Answers
    <2> QED
      BY <1>3, <2>1, ReportIInv DEF QueryFails
  <1> QED
    BY <1>1, <1>2, <1>3, QueryPanicsIInv DEF Task

LEMMA StoreAtIInv ==
  ASSUME IInv, NEW p \in Peers, NEW v \in Values, StoreAt(p, v)
  PROVE  IInv'
  <1> USE DEF IInv, StoreAt
  <1>1. TypeOK'
    BY DEF TypeOK
  <1>2. (IsFiniteSet(tasks) /\ IsFiniteSet(Lost) /\ InProgressExact)'
        /\ (Disjoint /\ Remembered /\ Progress)'
    BY DEF InProgressExact, Lost, Disjoint, Remembered, Progress
  <1>3. Honest'
    BY DEF Honest, TypeOK
  <1>4. FoundWasHeld'
    BY DEF FoundWasHeld
  <1> QED
    BY <1>1, <1>2, <1>3, <1>4

LEMMA NextIInv == IInv /\ [Next]_vars => IInv'
  <1> SUFFICES ASSUME IInv, [Next]_vars PROVE IInv'
    OBVIOUS
  <1>1. CASE Client
    BY <1>1, FindValueLocalIInv, NearestPeersIInv, CheckCandidatesIInv,
       SpawnQueryIInv, AwaitIInv, ReceiveIInv DEF Client
  <1>2. CASE \E p \in Peers : Task(p)
    BY <1>2, TaskIInv
  <1>3. CASE \E p \in Peers, v \in Values : StoreAt(p, v)
    BY <1>3, StoreAtIInv
  <1>4. CASE UNCHANGED vars
    BY <1>4 DEF vars, IInv, TypeOK, InProgressExact, Lost, Disjoint, Remembered, Progress,
       Honest, FoundWasHeld
  <1> QED
    BY <1>1, <1>2, <1>3, <1>4 DEF Next

LEMMA Invariance == Spec => []IInv
  BY InitIInv, NextIInv, PTL DEF Spec
-----------------------------------------------------------------------------
(***************************************************************************)
(* Type correctness; in particular the u16 counter of queries never drops  *)
(* below zero.                                                             *)
(***************************************************************************)
THEOREM TypeCorrect == Spec => []TypeOK
  <1>1. IInv => TypeOK
    BY DEF IInv
  <1> QED
    BY <1>1, Invariance, PTL

\* The counter is exact while the loop of find_value() runs.
THEOREM InProgressExactHolds == Spec => []InProgressExact
  <1>1. IInv => InProgressExact
    BY DEF IInv
  <1> QED
    BY <1>1, Invariance, PTL

\* The caller awaits a result that no task is going to send only after a panic.
THEOREM NoIdleWaitHolds == Spec => []NoIdleWait
  <1>1. IInv => NoIdleWait
    <2> SUFFICES ASSUME IInv, Hung, Lost = {} PROVE FALSE
      BY DEF NoIdleWait
    <2>1. Cardinality(tasks) = 0 /\ Cardinality(Lost) = 0 /\ Len(channel) = 0
      BY FS_EmptySet DEF Hung
    <2> QED
      BY <2>1 DEF Hung, IInv, InProgressExact, Progress, TypeOK
  <1> QED
    BY <1>1, Invariance, PTL

\* A value find_value() returns was held by a node it asked, or by itself.
THEOREM FoundWasHeldHolds == Spec => []FoundWasHeld
  <1>1. IInv => FoundWasHeld
    BY DEF IInv
  <1> QED
    BY <1>1, Invariance, PTL

\* No peer is queried twice in one lookup.
THEOREM AskedOnceHolds == Spec => AskedOnce
  <1>1. IInv /\ [Next]_vars => [\A p \in tasks' \ tasks : p \notin queried]_vars
    <2> SUFFICES ASSUME IInv, Next PROVE \A p \in tasks' \ tasks : p \notin queried
      OBVIOUS
    <2>1. ASSUME NEW q \in Peers, SpawnQuery(q)
          PROVE  \A p \in tasks' \ tasks : p \notin queried
      BY <2>1 DEF SpawnQuery, NearestCandidate, IInv, Disjoint
    <2>2. CASE FindValueLocal \/ CheckCandidates \/ Await \/ Receive
               \/ \E S \in Answers : NearestPeers(S)
      BY <2>2 DEF FindValueLocal, CheckCandidates, Await, Receive, NearestPeers
    <2>3. CASE \E p \in Peers : Task(p)
      BY <2>3 DEF Task, AnswerValue, AnswerPeers, QueryFails, QueryPanics, Report
    <2>4. CASE \E p \in Peers, v \in Values : StoreAt(p, v)
      BY <2>4 DEF StoreAt
    <2> QED
      BY <2>1, <2>2, <2>3, <2>4 DEF Next, Client
  <1> QED
    BY <1>1, Invariance, PTL DEF Spec, AskedOnce

(***************************************************************************)
(* A lookup gives up only when every peer it has learned of was queried.   *)
(* The invariant keeps who was named among candidates and queried peers;   *)
(* the verdict is given when the candidates are used up, and nothing that  *)
(* happens afterwards names a peer.                                        *)
(***************************************************************************)
THEOREM GivesUpExhaustedHolds == Spec => []GivesUpExhausted
  <1> DEFINE Ended == outcome = NotFound => pc = "done" /\ named \subseteq queried
  <1>1. Init => Ended
    BY DEF Init
  <1>2. IInv /\ Ended /\ [Next]_vars => Ended'
    <2> SUFFICES ASSUME IInv, Ended, [Next]_vars PROVE Ended'
      OBVIOUS
    <2>1. CASE CheckCandidates
      BY <2>1 DEF CheckCandidates, IInv, Remembered
    <2>2. CASE Receive \/ FindValueLocal
      BY <2>2 DEF Receive, FindValueLocal
    <2>3. CASE Await \/ \E p \in Peers : SpawnQuery(p)
      BY <2>3 DEF Await, SpawnQuery
    <2>4. CASE \E S \in Answers : NearestPeers(S)
      BY <2>4 DEF NearestPeers
    <2>5. CASE \E p \in Peers : Task(p)
      BY <2>5 DEF Task, AnswerValue, AnswerPeers, QueryFails, QueryPanics, Report
    <2>6. CASE (\E p \in Peers, v \in Values : StoreAt(p, v)) \/ UNCHANGED vars
      BY <2>6 DEF StoreAt, vars
    <2> QED
      BY <2>1, <2>2, <2>3, <2>4, <2>5, <2>6 DEF Next, Client
  <1>3. Ended => GivesUpExhausted
    BY DEF GivesUpExhausted
  <1> QED
    BY <1>1, <1>2, <1>3, Invariance, PTL DEF Spec

(***************************************************************************)
(* The detailed lookup implements the abstract one: every step is a step   *)
(* of module Lookup or leaves its variables alone.  Only the step that     *)
(* returns a value needs the invariant, for the value was held (Honest).   *)
(***************************************************************************)
LEMMA StepSimulation ==
  IInv /\ [Next]_vars => [Promise!Next]_(Promise!vars)
  <1> SUFFICES ASSUME IInv, [Next]_vars PROVE [Promise!Next]_(Promise!vars)
    OBVIOUS
  <1> USE DEF stage, Promise!vars, Promise!Found, Promise!NotFound, Promise!Return
  <1>1. CASE FindValueLocal
    <2>1. Promise!LookLocally
      BY <1>1 DEF FindValueLocal, Promise!LookLocally
    <2> QED
      BY <2>1 DEF Promise!Next, Promise!Lookup
  <1>2. CASE CheckCandidates
    <2>1. Promise!GiveUp \/ UNCHANGED Promise!vars
      BY <1>2 DEF CheckCandidates, Promise!GiveUp
    <2> QED
      BY <2>1 DEF Promise!Next, Promise!Lookup
  <1>3. CASE Receive
    <2> DEFINE r == Head(channel)
    <2>1. r \in Results /\ r = channel[1] /\ 1 \in DOMAIN channel /\ pc = "recv"
      BY <1>3 DEF Receive, IInv, TypeOK
    <2>2. CASE HasValue(r)
      <3>1. <<r.from, r.value>> \in held /\ r.from \in Peers /\ r.value \in Values
        BY <2>1, <2>2 DEF IInv, Honest, TypeOK, Results
      <3>2. outcome' = Found(r.value) /\ pc' = "done" /\ UNCHANGED <<store, held>>
        BY <1>3, <2>2 DEF Receive
      <3>3. Promise!ReturnValue(r.value)
        BY <2>1, <3>1, <3>2 DEF Promise!ReturnValue
      <3> QED
        BY <3>1, <3>3 DEF Promise!Next, Promise!Lookup
    <2>3. CASE ~HasValue(r)
      BY <1>3, <2>1, <2>3 DEF Receive
    <2> QED
      BY <2>2, <2>3
  <1>4. CASE \/ (\E S \in Answers : NearestPeers(S)) \/ Await
             \/ \E p \in Peers : SpawnQuery(p)
    BY <1>4 DEF NearestPeers, Await, SpawnQuery
  <1>5. CASE \E p \in Peers : Task(p)
    BY <1>5 DEF Task, AnswerValue, AnswerPeers, QueryFails, QueryPanics, Report
  <1>6. ASSUME NEW p \in Peers, NEW v \in Values, StoreAt(p, v)
        PROVE  [Promise!Next]_(Promise!vars)
    <2>1. Promise!Put(p, v)
      BY <1>6 DEF StoreAt, Promise!Put
    <2> QED
      BY <2>1 DEF Promise!Next
  <1>7. CASE UNCHANGED vars
    BY <1>7 DEF vars
  <1> QED
    BY <1>1, <1>2, <1>3, <1>4, <1>5, <1>6, <1>7 DEF Next, Client

(***************************************************************************)
(* find_value() as a whole: own store first, then a value that was held or *)
(* NOT_FOUND, once.  That it also returns is checked by TLC only.          *)
(***************************************************************************)
THEOREM LookupImplemented == Spec => Promise!Spec
  <1>1. Init => Promise!Init
    BY DEF Init, Promise!Init, Promise!Pending, stage
  <1> QED
    BY <1>1, StepSimulation, Invariance, PTL DEF Spec, Promise!Spec
-----------------------------------------------------------------------------
(***************************************************************************)
(* How long a lookup can take.  A peer that was not queried yet is worth   *)
(* the five steps its query will cost: the caller spawns it, the task ends *)
(* and the caller receives the result, goes back to the head of the loop   *)
(* and on to its next rx.next().                                           *)
(***************************************************************************)
StepsOfCaller ==
  CASE pc = "find_value_local" -> 5
    [] pc = "nearest_peers"    -> 4
    [] pc = "loop"             -> 3
    [] pc = "spawn"            -> 2
    [] pc = "recv"             -> 1
    [] pc = "done"             -> 0

Unqueried == Peers \ queried

StepsLeft ==
  5 * Cardinality(Unqueried) + 4 * Cardinality(tasks) + 3 * Len(channel) + StepsOfCaller

\* What the caller and its tasks do; the rest are other clients' stores.
LookupStep == Client \/ \E p \in Peers : Task(p)

LEMMA StepsType ==
  ASSUME IInv, IsFiniteSet(Peers)
  PROVE  /\ IsFiniteSet(Unqueried)
         /\ Cardinality(Unqueried) \in Nat /\ Cardinality(tasks) \in Nat
         /\ Len(channel) \in Nat /\ StepsOfCaller \in 0..5 /\ StepsLeft \in Nat
  <1>1. IsFiniteSet(Unqueried)
    BY FS_Difference DEF Unqueried
  <1>2. Cardinality(Unqueried) \in Nat /\ Cardinality(tasks) \in Nat
    BY <1>1, FS_CardinalityType DEF IInv
  <1>3. Len(channel) \in Nat /\ StepsOfCaller \in 0..5
    BY DEF IInv, TypeOK, StepsOfCaller
  <1> QED
    BY <1>1, <1>2, <1>3 DEF StepsLeft

\* Moves of the caller that neither spawn nor receive.
LEMMA CallerSteps ==
  ASSUME IInv, IsFiniteSet(Peers),
         FindValueLocal \/ CheckCandidates \/ Await \/ \E S \in Answers : NearestPeers(S)
  PROVE  StepsLeft' < StepsLeft
  <1> USE DEF FindValueLocal, CheckCandidates, Await, NearestPeers
  <1>1. UNCHANGED <<Unqueried, tasks, channel>>
    BY DEF Unqueried
  <1>2. StepsOfCaller' \in Int /\ StepsOfCaller' < StepsOfCaller
    BY DEF StepsOfCaller
  <1> QED
    BY <1>1, <1>2, StepsType DEF StepsLeft

\* A spawned peer was not queried before: this is where Disjoint is needed.
LEMMA SpawnSteps ==
  ASSUME IInv, IsFiniteSet(Peers), NEW p \in Peers, SpawnQuery(p)
  PROVE  StepsLeft' < StepsLeft
  <1>1. p \in Unqueried /\ p \notin tasks
    BY DEF SpawnQuery, NearestCandidate, IInv, Disjoint, Unqueried
  <1>2. Cardinality(tasks') = Cardinality(tasks) + 1
    BY <1>1, FS_AddElement DEF SpawnQuery, IInv
  <1>3. Unqueried' = Unqueried \ {p}
    BY DEF SpawnQuery, Unqueried
  <1>4. Cardinality(Unqueried') = Cardinality(Unqueried) - 1
    BY <1>1, <1>3, StepsType, FS_RemoveElement
  <1>5. Len(channel') = Len(channel) /\ StepsOfCaller' = StepsOfCaller
    BY DEF SpawnQuery, StepsOfCaller
  <1>6. /\ Cardinality(Unqueried) \in Nat /\ Cardinality(tasks) \in Nat
        /\ Len(channel) \in Nat /\ StepsOfCaller \in Nat
    BY StepsType
  <1> QED
    BY <1>2, <1>4, <1>5, <1>6 DEF StepsLeft

LEMMA ReceiveSteps ==
  ASSUME IInv, IsFiniteSet(Peers), Receive
  PROVE  StepsLeft' < StepsLeft
  <1>1. Len(channel') = Len(channel) - 1
    BY DEF Receive, IInv, TypeOK
  <1>2. UNCHANGED <<Unqueried, tasks>>
    BY DEF Receive, Unqueried
  <1>3. StepsOfCaller = 1 /\ StepsOfCaller' \in {0, 3}
    BY DEF Receive, StepsOfCaller
  <1> QED
    BY <1>1, <1>2, <1>3, StepsType DEF StepsLeft

LEMMA ReportSteps ==
  ASSUME IInv, IsFiniteSet(Peers), NEW p \in Peers, NEW result, Report(p, result)
  PROVE  StepsLeft' < StepsLeft
  <1>1. Cardinality(tasks') = Cardinality(tasks) - 1
    BY FS_RemoveElement DEF Report, IInv
  <1>2. Len(channel') = Len(channel) \/ Len(channel') = Len(channel) + 1
    BY DEF Report, IInv, TypeOK
  <1>3. UNCHANGED <<Unqueried, StepsOfCaller>>
    BY DEF Report, Unqueried, StepsOfCaller
  <1>4. /\ Cardinality(Unqueried) \in Nat /\ Cardinality(tasks) \in Nat
        /\ Len(channel) \in Nat /\ StepsOfCaller \in Nat
    BY StepsType
  <1> QED
    BY <1>1, <1>2, <1>3, <1>4 DEF StepsLeft

LEMMA PanicSteps ==
  ASSUME IInv, IsFiniteSet(Peers), NEW p \in Peers, QueryPanics(p)
  PROVE  StepsLeft' < StepsLeft
  <1>1. Cardinality(tasks') = Cardinality(tasks) - 1
    BY FS_RemoveElement DEF QueryPanics, IInv
  <1>2. UNCHANGED <<Unqueried, StepsOfCaller, channel>>
    BY DEF QueryPanics, Unqueried, StepsOfCaller
  <1>3. /\ Cardinality(Unqueried) \in Nat /\ Cardinality(tasks) \in Nat
        /\ Len(channel) \in Nat /\ StepsOfCaller \in Nat
    BY StepsType
  <1> QED
    BY <1>1, <1>2, <1>3 DEF StepsLeft

LEMMA LookupSteps ==
  ASSUME IInv, IsFiniteSet(Peers), LookupStep
  PROVE  StepsLeft' < StepsLeft
  BY CallerSteps, SpawnSteps, ReceiveSteps, ReportSteps, PanicSteps
     DEF LookupStep, Client, Task, AnswerValue, AnswerPeers, QueryFails

LEMMA OtherSteps ==
  ASSUME [Next]_vars
  PROVE  LookupStep \/ StepsLeft' = StepsLeft
  BY DEF Next, LookupStep, StoreAt, vars, StepsLeft, StepsOfCaller, Unqueried

(***************************************************************************)
(* In a network of finitely many nodes a lookup is bounded: every step of  *)
(* the caller or of one of its tasks uses up one of at most 5 * N + 5      *)
(* steps, whatever the answers name, fail, panic or repeat and whatever    *)
(* other clients store in the meantime.  A caller that is not done cannot go     *)
(* round its loop for ever; that it is also polled is left to fairness.    *)
(***************************************************************************)
THEOREM LookupBounded ==
  ASSUME IsFiniteSet(Peers)
  PROVE  Spec => /\ [](StepsLeft \in 0..(5 * Cardinality(Peers) + 5))
                 /\ [][LookupStep => StepsLeft' < StepsLeft]_vars
  <1> DEFINE Bound   == 5 * Cardinality(Peers) + 5
             Counted == StepsLeft \in Nat
             Bounded == StepsLeft \in 0..Bound
  <1>1. Bound \in Nat
    BY FS_CardinalityType
  <1>2. Init => Bounded
    <2> SUFFICES ASSUME Init PROVE Bounded
      OBVIOUS
    <2>1. Unqueried = Peers /\ Cardinality(tasks) = 0 /\ Len(channel) = 0
      BY FS_EmptySet DEF Init, Unqueried
    <2>2. StepsOfCaller = 5
      BY DEF Init, StepsOfCaller
    <2> QED
      BY <1>1, <2>1, <2>2, InitIInv, StepsType DEF StepsLeft
  <1>3. IInv => Counted
    BY StepsType
  <1>4. IInv /\ Counted /\ Counted' /\ [Next]_vars /\ Bounded => Bounded'
    <2> HIDE DEF Bound
    <2> QED
      BY <1>1, LookupSteps, OtherSteps
  <1>5. IInv => [LookupStep => StepsLeft' < StepsLeft]_vars
    BY LookupSteps
  <1>6. Spec => []Bounded
    <2> HIDE DEF Counted, Bounded
    <2> QED
      BY <1>2, <1>3, <1>4, Invariance, PTL DEF Spec
  <1>7. Spec => [][LookupStep => StepsLeft' < StepsLeft]_vars
    BY <1>5, Invariance, PTL
  <1> QED
    BY <1>6, <1>7
=============================================================================
