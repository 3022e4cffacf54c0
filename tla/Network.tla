------------------------------ MODULE Network ------------------------------
(***************************************************************************)
(* A DHT at work, as src/testbed/src/main.rs drives it: one node puts a    *)
(* value (DHTService::put), then a node, the same or another, gets it      *)
(* (DHTService::get).  Composed of a routing table for each node           *)
(* (KBuckets), one put (Store) and one lookup (FindValue): the answers     *)
(* that FindValue leaves open come from the tables here, every request     *)
(* introduces its sender to the peer that handles it, and nodes contact    *)
(* one another all the while.  Requests and replies get lost, and nodes    *)
(* restart with nothing, because nothing is persisted.                     *)
(*                                                                         *)
(* The key is fixed: keys do not interfere (Messages), nor do the handlers *)
(* of one node (DHTServer).                                                *)
(***************************************************************************)
EXTENDS KeyUtil, Sequences, SequencesExt

CONSTANTS
  K, Alpha, Peers, Self, None, Empty,  \* as in FindValue; Self gets
  Writer,                              \* the node that puts
  Key, Value,                          \* what it puts: the hash of the key, the value
  MaxRestarts,                         \* bound on the restarts of nodes
  Meetings                             \* bound on contacts: pairs of nodes

ASSUME BoundsAssumption == K \in Nat \ {0} /\ Alpha \in Nat \ {0} /\ MaxRestarts \in Nat
ASSUME NodesAssumption  == IsFiniteSet(Peers) /\ Self \in Peers /\ Writer \in Peers
ASSUME IdAssumption     == Key \in Id /\ \A p \in Peers : p.id \in Id
ASSUME ValueAssumption  == None # Value /\ None # Empty
ASSUME MeetingsAssumption == Meetings \subseteq Peers \X Peers

VARIABLES
  known, depth, refused,                       \* the routing table of each node
  put_pc, peers, request, result, stored, put_outcome,                  \* the put
  pc, candidates, queried, in_progress, tasks, channel, outcome, named, ignored,  \* the get
  store, held,   \* what each node holds under the key
  restarts,      \* how many nodes have restarted
  start,         \* history: tables and stores when the get read its own table
  failed         \* history: nodes that failed a query or restarted since then

tables  == <<known, depth, refused>>
put     == <<put_pc, peers, request, result, stored, put_outcome>>
get     == <<pc, candidates, queried, in_progress, tasks, channel, outcome, named, ignored>>
nodes   == <<store, held>>
history == <<restarts, start, failed>>
vars    == <<tables, put, get, nodes, history>>

\* The distance to the key, as far as the order of the peers goes.
Rank == [p \in Peers |-> Cardinality({q \in Peers : Nearer(Key, q.id, p.id)})]

Table(n) ==
  INSTANCE KBuckets WITH Local <- n, known <- known[n], depth <- depth[n], refused <- refused[n]

\* The addresses of nodes are written by SocketAddr::to_string() and parse.
Put == INSTANCE Store WITH pc <- put_pc, outcome <- put_outcome, Unparseable <- {}

Get == INSTANCE FindValue WITH Values <- {Value}, Dist <- Rank, Unparseable <- {}

Init ==
  /\ known = [n \in Peers |-> {}] /\ depth = [n \in Peers |-> 1]
  /\ refused = [n \in Peers |-> {}]
  /\ Put!Init
  /\ Get!Init /\ store = [n \in Peers |-> None]
  /\ restarts = 0 /\ start = [known |-> known, store |-> store] /\ failed = {}
-----------------------------------------------------------------------------
\* Node n updates its table with p: update_routing_table().
Record(n, p) ==
  \E k \in {known[n], known[n] \cup {p}}, d \in depth[n]..(W + 2),
     r \in {refused[n], refused[n] \cup {p}} :
       /\ known'   = [known EXCEPT ![n] = k]
       /\ depth'   = [depth EXCEPT ![n] = d]
       /\ refused' = [refused EXCEPT ![n] = r]
       /\ Table(n)!Update(p)

\* Mutant: asks the table for a single peer.
YieldsOne(n, S) == Table(n)!Nearest(Key, 1, S)

\* S is what k_nearest_peers(key) yields at node n.
Yields(n, S) == Table(n)!Nearest(Key, K, S)

\* A request of p reaches n, or the bootstrap of n finds p alive, which can be n
\* itself; a peer that n knows already changes nothing here.
Contact(n, p) ==
  /\ p \notin known[n] \cup refused[n]
  /\ Record(n, p)
  /\ UNCHANGED <<put, get, nodes, history>>

PutNearest(S) ==
  /\ Put!NearestPeers(SetToSeq(S)) /\ Yields(Writer, S)
  /\ UNCHANGED <<tables, get, nodes, history>>

\* store_async at the peer: the writer is introduced, the value stored.
PeerStores(i, p) ==
  /\ p = peers[i] /\ Put!PeerStores(i)
  /\ Get!StoreAt(p, Value) /\ Record(p, Writer)
  /\ UNCHANGED history

PutRpc(i) == Put!Rpc(i) /\ UNCHANGED <<tables, get, nodes, history>>

PutReturn == Put!Return /\ UNCHANGED <<tables, get, nodes, history>>

\* put().await.unwrap(), then get()
GetLocally ==
  /\ put_pc = "done" /\ put_outcome = Put!Ok
  /\ Get!FindValueLocal
  /\ UNCHANGED <<tables, put, history>>

GetNearest(S) ==
  /\ Get!NearestPeers(S) /\ Yields(Self, S)
  /\ start' = [known |-> known, store |-> store] /\ failed' = {}
  /\ UNCHANGED <<tables, put, restarts>>

GetLoop ==
  /\ Get!CheckCandidates \/ (\E p \in Peers : Get!SpawnQuery(p)) \/ Get!Await \/ Get!Receive
  /\ UNCHANGED <<tables, put, history>>

AnswerValue(p) ==
  /\ Get!AnswerValue(p) /\ Record(p, Self)
  /\ UNCHANGED <<put, history>>

\* The peer answers from its table, in which the reader is recorded already.
AnswerPeers(p, S) ==
  /\ Get!AnswerPeers(p, S)
  /\ Record(p, Self) /\ Yields(p, S)'
  /\ UNCHANGED <<put, history>>

\* The request is lost, or the reply.
QueryFails(p) ==
  /\ Get!QueryFails(p)
  /\ UNCHANGED tables \/ Record(p, Self)
  /\ failed' = failed \cup {p}
  /\ UNCHANGED <<put, restarts, start>>

\* A node crashes and DHTService::new() starts it again.
Restart(n) ==
  /\ restarts < MaxRestarts /\ n \notin {Writer, Self}
  /\ known' = [known EXCEPT ![n] = {}] /\ depth' = [depth EXCEPT ![n] = 1]
  /\ refused' = [refused EXCEPT ![n] = {}]
  /\ store' = [store EXCEPT ![n] = None]
  /\ restarts' = restarts + 1 /\ failed' = failed \cup {n}
  /\ UNCHANGED <<put, get, held, start>>
-----------------------------------------------------------------------------
PutStep ==
  \/ (\E S \in SUBSET Peers : PutNearest(S))
  \/ (\E i \in DOMAIN peers : PutRpc(i))
  \/ PutReturn

GetStep == GetLocally \/ (\E S \in SUBSET Peers : GetNearest(S)) \/ GetLoop

Task(p) == QueryFails(p) \/ AnswerValue(p) \/ (\E S \in SUBSET Peers : AnswerPeers(p, S))

Next ==
  \/ \E meeting \in Meetings : Contact(meeting[1], meeting[2])
  \/ PutStep
  \/ \E i \in DOMAIN peers, p \in Peers : PeerStores(i, p)
  \/ GetStep
  \/ \E p \in Peers : Task(p) \/ Restart(p)

Spec == Init /\ [][Next]_vars

(***************************************************************************)
(* As in Store and FindValue: the runtime polls both calls, and each RPC   *)
(* and each query ends, at the latest with its deadline.  Peers need not   *)
(* act, and no node need contact another.                                  *)
(***************************************************************************)
FairSpec ==
  /\ Spec
  /\ WF_vars(PutStep) /\ WF_vars(GetStep) /\ \A p \in Peers : WF_vars(Task(p))
-----------------------------------------------------------------------------
\* Type invariant.
TypeOK ==
  /\ \A n \in Peers : Table(n)!TypeOK
  /\ Put!TypeOK /\ Get!TypeOK
  /\ restarts \in 0..MaxRestarts /\ failed \in SUBSET Peers
  /\ start \in [known : [Peers -> SUBSET Peers], store : [Peers -> {Value, None}]]

(***************************************************************************)
(* get() finds what can be found: when it ends with NOT_FOUND, some set of *)
(* nodes contains all that the reader knew and all that those of them knew *)
(* that did not fail, and none of these that did not fail held the value.  *)
(* So a value is missed only if each chain of acquaintances that leads to  *)
(* it is broken by a failure.  The lookup learns of nodes one answer at a  *)
(* time, while the tables go on changing.                                  *)
(***************************************************************************)
GetFinds ==
  outcome = Get!NotFound =>
    \E R \in SUBSET Peers :
      /\ start.known[Self] \subseteq R
      /\ \A p \in R \ failed : start.known[p] \subseteq R /\ start.store[p] = None

(***************************************************************************)
(* The assertion of the testbed: the value that was put is what get()      *)
(* returns, if no query failed and no node restarted.  It needs buckets    *)
(* that never overflow, as in NetworkProofs: otherwise a node that is      *)
(* nearer to the key may join after the put and hide the ones that hold    *)
(* the value, for nothing is republished.                                  *)
(***************************************************************************)
PutThenGet == pc = "done" /\ failed = {} /\ restarts = 0 => outcome = Get!Found(Value)

(***************************************************************************)
(* A put always returns, and so does the get after a successful one, even  *)
(* when the reader is sent to itself, nodes restart or requests get lost.  *)
(***************************************************************************)
Returns == <>(put_pc = "done") /\ (put_outcome = Put!Ok ~> pc = "done")
=============================================================================
