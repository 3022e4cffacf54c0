----------------------------- MODULE DHTServer -----------------------------
(***************************************************************************)
(* The RPC server of a node (src/src/rpc/mod.rs).  tarpc runs the handler  *)
(* of every request as a task of its own; the handlers share the routing   *)
(* table and the key-value store, each behind a futures::lock::Mutex that  *)
(* a handler takes and leaves once or twice.  A step is one lock           *)
(* acquisition or one critical section: none of these contains an await,   *)
(* and between them other handlers run.                                    *)
(*                                                                         *)
(* The routing table is the abstract one of KBuckets, which RoutingTable   *)
(* implements.  What clients send is fixed in msg; a request that is       *)
(* delivered twice is a second request with the same message.              *)
(***************************************************************************)
EXTENDS Integers, FiniteSets

CONSTANTS
  W, K, Local, Peers,   \* as in KBuckets
  Requests,             \* names of the requests
  Messages,             \* records [kind, valid, from, key, value]
  Values,               \* the values stored
  None                  \* no value, no lock holder

ASSUME TableAssumption ==
  W \in Nat /\ K \in Nat \ {0} /\ \A p \in Peers \cup {Local} : p.id \in [1..W -> BOOLEAN]
ASSUME NoneAssumption == None \notin Values \cup Requests

VARIABLES
  known, depth, refused,  \* the routing table
  kvstore,                \* MemoryStore: a value or None for each key
  table_lock, kv_lock,    \* the request that holds the mutex, or None
  msg,                    \* the message of each request
  handler,                \* the handler that runs for it
  pc,                     \* where that handler is
  reply,                  \* its answer
  acked,                  \* history: keys for which a store was answered OK
  expected                \* history: acked when the request arrived

table   == <<known, depth, refused>>
locks   == <<table_lock, kv_lock>>
history == <<acked, expected>>
vars    == <<table, kvstore, locks, msg, handler, pc, reply, history>>

Table == INSTANCE KBuckets

Id == [1..W -> BOOLEAN]

Kinds == {"store", "find_node", "find_value", "ping"}

ASSUME MessagesAssumption ==
  Messages \subseteq [kind : Kinds, valid : BOOLEAN, from : Peers, key : Id, value : Values]

\* MemoryStore
get(k) == kvstore[k]

\* Mutant: keeps the last entry only.
putLast(k, v) == [x \in Id |-> IF x = k THEN v ELSE None]

put(k, v) == [kvstore EXCEPT ![k] = v]

NoReply == [code |-> "none", value |-> None, closerPeers |-> {}]
Reply(code, value, peers) == [code |-> code, value |-> value, closerPeers |-> peers]

Init ==
  /\ known = {} /\ depth = 1 /\ refused = {}
  /\ kvstore = [k \in Id |-> None]
  /\ table_lock = None /\ kv_lock = None
  /\ msg \in [Requests -> Messages]
  /\ handler = [r \in Requests |-> msg[r].kind]
  /\ pc = [r \in Requests |-> "sent"]
  /\ reply = [r \in Requests |-> NoReply]
  /\ acked = {}
  /\ expected = [r \in Requests |-> {}]
-----------------------------------------------------------------------------
Goto(r, from, to) == pc[r] = from /\ pc' = [pc EXCEPT ![r] = to]

\* The guards that a handler still holds when it ends are dropped with it.
DropGuards(r) ==
  /\ table_lock' = IF table_lock = r THEN None ELSE table_lock
  /\ kv_lock'    = IF kv_lock = r THEN None ELSE kv_lock

\* Mutant: the handler ends without an answer.
FinishSilently(r, from, answer) == Goto(r, from, "done") /\ reply' = reply /\ DropGuards(r)

Finish(r, from, answer) ==
  /\ Goto(r, from, "done")
  /\ reply' = [reply EXCEPT ![r] = answer]
  /\ DropGuards(r)

\* validate_request(): a request that names no usable peer ends here.
Arrive(r) ==
  /\ expected' = [expected EXCEPT ![r] = acked]
  /\ \/ /\ ~msg[r].valid
        /\ Finish(r, "sent", Reply("BAD_REQUEST", None, {}))
     \/ /\ msg[r].valid
        /\ Goto(r, "sent", "lock_table")
        /\ UNCHANGED <<reply, locks>>
  /\ UNCHANGED <<table, kvstore, msg, handler, acked>>

\* self.routing_table.lock().await
LockTable(r) ==
  /\ Goto(r, "lock_table", "update")
  /\ table_lock = None
  /\ table_lock' = r
  /\ UNCHANGED <<table, kvstore, kv_lock, msg, handler, reply, history>>

\* Mutant: find_node_async lets go of the table before its answer.
KeepsGuardNever(r) == FALSE

\* Mutant: find_value_async binds the guard too, and still has it in its hand
\* when it calls find_node_async.
KeepsGuardBound(r) == handler[r] \in {"find_node", "find_value"}

\* Only find_node_async keeps the guard of the table, for its answer.
KeepsGuard(r) == handler[r] = "find_node"

\* Mutant: find_node_async does not record the peer that asks.
RecordPeerOtherwise(r) ==
  IF handler[r] = "find_node" THEN UNCHANGED table ELSE Table!Update(msg[r].from)

\* update_routing_table(): a NoCapacityError is only logged.
RecordPeer(r) == Table!Update(msg[r].from)

\* A ping is done with that.
UpdateTable(r) ==
  /\ pc[r] = "update" /\ RecordPeer(r)
  /\ \/ handler[r] = "ping" /\ Finish(r, "update", Reply("OK", None, {}))
     \/ /\ handler[r] # "ping"
        /\ table_lock' = IF KeepsGuard(r) THEN r ELSE None
        /\ Goto(r, "update", IF handler[r] = "find_node" THEN "nearest" ELSE "lock_kv")
        /\ UNCHANGED <<kv_lock, reply>>
  /\ UNCHANGED <<kvstore, msg, handler, history>>

\* k_nearest_peers() under the guard that the update used.
AnswerPeers(r, S) ==
  /\ Finish(r, "nearest", Reply("OK", None, S))
  /\ Table!Nearest(msg[r].key, K, S)
  /\ UNCHANGED <<table, kvstore, msg, handler, history>>

\* self.kvstore.lock().await
LockStore(r) ==
  /\ Goto(r, "lock_kv", handler[r])
  /\ kv_lock = None
  /\ kv_lock' = r
  /\ UNCHANGED <<table, kvstore, table_lock, msg, handler, reply, history>>

\* MemoryStore::put cannot fail: the answer is always OK.
Put(r) ==
  /\ Finish(r, "store", Reply("OK", None, {}))
  /\ kvstore' = put(msg[r].key, msg[r].value)
  /\ acked' = acked \cup {msg[r].key}
  /\ UNCHANGED <<table, msg, handler, expected>>

Hit(r) == get(msg[r].key) # None

\* Without a value, find_value_async hands the message to find_node_async; the
\* guard of the store, a temporary of the match, is gone by then.
Get(r) ==
  /\ \/ /\ Hit(r) /\ UNCHANGED handler
        /\ Finish(r, "find_value", Reply("OK", get(msg[r].key), {}))
     \/ /\ ~Hit(r) /\ kv_lock' = None
        /\ Goto(r, "find_value", "lock_table")
        /\ handler' = [handler EXCEPT ![r] = "find_node"]
        /\ UNCHANGED <<table_lock, reply>>
  /\ UNCHANGED <<table, kvstore, msg, history>>
-----------------------------------------------------------------------------
Handle(r) ==
  \/ LockTable(r)
  \/ UpdateTable(r)
  \/ \E S \in SUBSET Peers : AnswerPeers(r, S)
  \/ LockStore(r)
  \/ Put(r)
  \/ Get(r)

Next == \E r \in Requests : Arrive(r) \/ Handle(r)

Spec == Init /\ [][Next]_vars

(***************************************************************************)
(* The runtime polls every handler that can go on.  The requests are       *)
(* finitely many, so a handler that waits for a lock is not overtaken for  *)
(* ever.  A request need not arrive.                                       *)
(***************************************************************************)
FairSpec == Spec /\ \A r \in Requests : WF_vars(Handle(r))
-----------------------------------------------------------------------------
HandlersTypeOK ==
  /\ kvstore \in [Id -> Values \cup {None}]
  /\ table_lock \in Requests \cup {None} /\ kv_lock \in Requests \cup {None}
  /\ msg \in [Requests -> Messages]
  /\ handler \in [Requests -> Kinds]
  /\ pc \in [Requests -> {"sent", "lock_table", "update", "nearest", "lock_kv",
                          "store", "find_value", "done"}]
  /\ reply \in [Requests -> [code : {"none", "OK", "BAD_REQUEST"},
                             value : Values \cup {None}, closerPeers : SUBSET Peers]]
  /\ acked \in SUBSET Id /\ expected \in [Requests -> SUBSET Id]

\* A handler is done when, and only when, its request has an answer.
Replied == \A r \in Requests : pc[r] = "done" <=> reply[r].code # "none"

\* Type invariant.
TypeOK == Table!TypeOK /\ HandlersTypeOK /\ Replied

InTable(r) == pc[r] \in {"update", "nearest"}
InStore(r) == pc[r] \in {"store", "find_value"}

(***************************************************************************)
(* Two handlers never work on the routing table, or on the key-value       *)
(* store, at the same time; find_node_async in particular computes its     *)
(* answer before another request changes the table.                        *)
(***************************************************************************)
MutualExclusion ==
  \A r, s \in Requests : r # s => /\ ~(InTable(r) /\ InTable(s))
                                  /\ ~(InStore(r) /\ InStore(s))

(***************************************************************************)
(* Read your writes: once the node has answered OK to a store, every       *)
(* find_value for that key that arrives later is answered with a value,    *)
(* never with closer peers, whatever other handlers do in between.         *)
(***************************************************************************)
AckedVisible ==
  \A r \in Requests :
    pc[r] = "done" /\ msg[r].kind = "find_value" /\ msg[r].valid
      /\ msg[r].key \in expected[r] => reply[r].value # None

(***************************************************************************)
(* A peer that asks for the nodes nearest to its own identifier, as        *)
(* bootstrap() does, finds itself among them unless its bucket refused it: *)
(* it is recorded before the answer is computed and no nearer peer can     *)
(* crowd it out.                                                           *)
(***************************************************************************)
RequesterIntroduced ==
  \A r \in Requests :
    pc[r] = "done" /\ msg[r].valid /\ handler[r] = "find_node"
      /\ msg[r].key = msg[r].from.id =>
         msg[r].from \in reply[r].closerPeers \cup refused

(***************************************************************************)
(* Every request that arrives is answered: the handlers never block one    *)
(* another, or themselves, for good, because none waits for a mutex while  *)
(* it holds one.                                                           *)
(***************************************************************************)
Answered == \A r \in Requests : pc[r] = "lock_table" ~> pc[r] = "done"
=============================================================================
