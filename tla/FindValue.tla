----------------------------- MODULE FindValue -----------------------------
(***************************************************************************)
(* One call of DHTClient::find_value (src/src/client.rs), the iterative    *)
(* lookup behind DHTService::get.  The caller's loop, the tasks it spawns, *)
(* one per queried peer, and the peers themselves run concurrently; tasks  *)
(* report through an unbounded channel.  The key is fixed, so a node's     *)
(* key-value store is the value it holds for that key, if any.             *)
(*                                                                         *)
(* Candidates and queried peers are sets: the code sorts the candidates by *)
(* their distance before each use, and neither vector holds a peer twice,  *)
(* because the answers come from routing tables (Placement in module       *)
(* RoutingTable) and are filtered against both vectors.                    *)
(***************************************************************************)
EXTENDS Integers, Sequences, FiniteSets

CONSTANTS
  Alpha,      \* how many queries may be in progress
  K,          \* how many peers a routing table answers with at most
  Peers,      \* all nodes, also those that only exist as an entry of a table
  Unparseable,  \* those whose address is not one that parses
  Self,       \* the node that looks up
  Dist,       \* the XOR distance of each peer's identifier to the key
  Values,     \* the values that are put under the key
  Empty,      \* the empty byte vector, perhaps one of the Values
  None        \* no value under the key

ASSUME AlphaAssumption == Alpha \in Nat \ {0}
ASSUME KAssumption     == K \in Nat
ASSUME PeersAssumption ==
  Self \in Peers /\ Dist \in [Peers -> Nat] /\ Unparseable \subseteq Peers
ASSUME NoneAssumption  == None \notin Values \cup {Empty}

VARIABLES
  pc,           \* where the caller is
  candidates,   \* peers to query
  queried,      \* peers a query was spawned for
  in_progress,  \* the caller's count of unanswered queries
  tasks,        \* peers whose spawned task has not finished
  channel,      \* results sent and not yet received, oldest first
  outcome,      \* what find_value returned: a value, or NotFound; else Pending
  store,        \* for each node the value it holds under the key, or None
  held,         \* history: every <<node, value>> since the call began
  named,        \* history: peers the caller learned of
  ignored       \* history: nodes that held a value and whose answer the
                \* caller received without returning it

vars == <<pc, candidates, queried, in_progress, tasks, channel, outcome,
          store, held, named, ignored>>

client == <<candidates, queried, in_progress, tasks, channel, outcome>>
nodes  == <<store, held>>
seen   == <<named, ignored>>

Pending  == [status |-> "pending",  value |-> None]
NotFound == [status |-> "NOT_FOUND", value |-> None]
Found(v) == [status |-> "OK",       value |-> v]

Answers == SUBSET Peers

\* io::Result<Message> as the caller sees it, with the peer for the history.
Results == [from : Peers, ok : BOOLEAN, value : Values \cup {Empty}, had : BOOLEAN,
            closerPeers : Answers]

Init ==
  /\ pc = "find_value_local"
  /\ candidates = {} /\ queried = {} /\ tasks = {}
  /\ in_progress = 0
  /\ channel = <<>>
  /\ outcome = Pending
  /\ store \in [Peers -> Values \cup {None}]
  /\ held = {<<p, store[p]>> : p \in {q \in Peers : store[q] # None}}
  /\ named = {} /\ ignored = {}
-----------------------------------------------------------------------------
\* Mutant: does not look into the node's own store.
HeldLocallyNever == FALSE

\* Mutant: takes the absence of a local value for one.
HeldLocallyAlways == TRUE

\* Any value of the local store is returned, also an empty one.
HeldLocally == store[Self] # None

FindValueLocal ==
  /\ pc = "find_value_local"
  /\ IF HeldLocally
     THEN outcome' = Found(store[Self]) /\ pc' = "done"
     ELSE outcome' = outcome /\ pc' = "nearest_peers"
  /\ UNCHANGED <<candidates, queried, in_progress, tasks, channel, nodes, seen>>

\* The first candidates come from the node's own routing table.
NearestPeers(S) ==
  /\ pc = "nearest_peers"
  /\ Cardinality(S) <= K
  /\ candidates' = S /\ named' = S
  /\ pc' = "loop"
  /\ UNCHANGED <<queried, in_progress, tasks, channel, outcome, nodes, ignored>>

\* Mutant: goes on without candidates.
NeverExhausted == FALSE

Exhausted == candidates = {}

\* The head of the loop: no candidates left ends the lookup.
CheckCandidates ==
  /\ pc = "loop"
  /\ IF Exhausted
     THEN outcome' = NotFound /\ pc' = "done"
     ELSE outcome' = outcome /\ pc' = "spawn"
  /\ UNCHANGED <<candidates, queried, in_progress, tasks, channel, nodes, seen>>

\* Mutant: one query too many.
CanSpawnOneMore == in_progress <= Alpha /\ candidates # {}

CanSpawn == in_progress < Alpha /\ candidates # {}

\* p ends up last in the reverse order: it is popped first.
NearestCandidate(p) == p \in candidates /\ \A c \in candidates : Dist[p] <= Dist[c]

\* Pop the nearest candidate and spawn its query.
SpawnQuery(p) ==
  /\ pc = "spawn" /\ CanSpawn /\ NearestCandidate(p)
  /\ candidates'  = candidates \ {p}
  /\ tasks'       = tasks \cup {p}
  /\ in_progress' = in_progress + 1
  /\ queried'     = queried \cup {p}
  /\ UNCHANGED <<pc, channel, outcome, nodes, seen>>

\* The spawn loop ends and the caller waits for a result.
Await ==
  /\ pc = "spawn" /\ ~CanSpawn
  /\ pc' = "recv"
  /\ UNCHANGED <<client, nodes, seen>>

\* Mutant: does not leave out the peers already queried.
NewCandidatesUnfiltered(r) == {p \in r.closerPeers : p \notin candidates}

\* Mutant: takes only peers that are nearer than the one that names them.
NewCandidatesNearer(r) ==
  {p \in r.closerPeers : p \notin queried /\ p \notin candidates /\ Dist[p] < Dist[r.from]}

\* The peers of an answer that are neither queried nor waiting already.
NewCandidates(r) == {p \in r.closerPeers : p \notin queried /\ p \notin candidates}

\* Mutant: takes every answer for a value.
HasValueUnchecked(r) == r.ok

HasValue(r) == r.ok /\ r.value # Empty

(***************************************************************************)
(* rx.next() yields a result.  An error or an error code only loses the    *)
(* query; a non-empty value ends the lookup.  The code's branch for None   *)
(* cannot be taken: the caller still owns a sender of the channel.         *)
(***************************************************************************)
Receive ==
  /\ pc = "recv" /\ channel # <<>>
  /\ in_progress' = in_progress - 1
  /\ channel' = Tail(channel)
  /\ LET r == Head(channel)
     IN  \/ /\ ~r.ok
            /\ pc' = "loop"
            /\ UNCHANGED <<candidates, outcome, seen>>
         \/ /\ HasValue(r)
            /\ outcome' = Found(r.value)
            /\ pc' = "done"
            /\ UNCHANGED <<candidates, seen>>
         \/ /\ r.ok /\ ~HasValue(r)
            /\ candidates' = candidates \cup NewCandidates(r)
            /\ named' = named \cup r.closerPeers
            /\ ignored' = IF r.had THEN ignored \cup {r.from} ELSE ignored
            /\ pc' = "loop"
            /\ UNCHANGED outcome
  /\ UNCHANGED <<queried, tasks, nodes>>
-----------------------------------------------------------------------------
(***************************************************************************)
(* peer.address.parse().unwrap() comes before anything else in the task:   *)
(* with an address that does not parse the task panics.  tokio drops it    *)
(* and its sender, no result is sent, and nobody else is told.             *)
(***************************************************************************)
QueryPanics(p) ==
  /\ p \in tasks \cap Unparseable
  /\ tasks' = tasks \ {p}
  /\ UNCHANGED <<pc, candidates, queried, in_progress, channel, outcome, nodes, seen>>

\* Mutant: a task that fails ends without a result.
SentIfOk(result) ==
  IF pc = "done" \/ ~result.ok THEN channel ELSE Append(channel, result)

\* unbounded_send() fails once the caller has returned, and is ignored.
Sent(result) == IF pc = "done" THEN channel ELSE Append(channel, result)

Report(p, result) ==
  /\ p \in tasks \ Unparseable
  /\ tasks' = tasks \ {p}
  /\ channel' = Sent(result)
  /\ UNCHANGED <<pc, candidates, queried, in_progress, outcome, nodes, seen>>

\* The peer holds a value: find_value_async answers with it alone.
AnswerValue(p) ==
  /\ store[p] # None
  /\ Report(p, [from |-> p, ok |-> TRUE, value |-> store[p], had |-> TRUE,
                closerPeers |-> {}])

\* The peer holds none: it answers with the nearest peers it knows.
AnswerPeers(p, S) ==
  /\ store[p] = None
  /\ Cardinality(S) <= K
  /\ Report(p, [from |-> p, ok |-> TRUE, value |-> Empty, had |-> FALSE,
                closerPeers |-> S])

\* The peer cannot be reached, or the deadline of the RPC passes.
QueryFails(p) ==
  Report(p, [from |-> p, ok |-> FALSE, value |-> Empty, had |-> FALSE,
             closerPeers |-> {}])

\* Another client's store RPC reaches a node.
StoreAt(p, v) ==
  /\ store' = [store EXCEPT ![p] = v]
  /\ held' = held \cup {<<p, v>>}
  /\ UNCHANGED <<pc, client, seen>>
-----------------------------------------------------------------------------
Client ==
  \/ FindValueLocal
  \/ \E S \in Answers : NearestPeers(S)
  \/ CheckCandidates
  \/ \E p \in Peers : SpawnQuery(p)
  \/ Await
  \/ Receive

Task(p) ==
  \/ AnswerValue(p) \/ (\E S \in Answers : AnswerPeers(p, S)) \/ QueryFails(p)
  \/ QueryPanics(p)

Next ==
  \/ Client
  \/ \E p \in Peers : Task(p)
  \/ \E p \in Peers, v \in Values : StoreAt(p, v)

(***************************************************************************)
(* The runtime polls the caller whenever it is ready, and every spawned    *)
(* task ends: it panics, connect() returns an error sooner or later, or    *)
(* the tarpc request ends with its deadline.  Stores by others need not    *)
(* happen.                                                                 *)
(***************************************************************************)
Fairness == WF_vars(Client) /\ \A p \in Peers : WF_vars(Task(p))

Spec == Init /\ [][Next]_vars
FairSpec == Spec /\ Fairness
-----------------------------------------------------------------------------
\* Type invariant.
TypeOK ==
  /\ pc \in {"find_value_local", "nearest_peers", "loop", "spawn", "recv", "done"}
  /\ candidates \in SUBSET Peers /\ queried \in SUBSET Peers /\ tasks \in SUBSET Peers
  /\ in_progress \in Nat
  /\ channel \in Seq(Results)
  /\ outcome \in {NotFound, Pending} \cup {Found(v) : v \in Values}
  /\ store \in [Peers -> Values \cup {None}]
  /\ held \in SUBSET (Peers \X Values)
  /\ named \in SUBSET Peers /\ ignored \in SUBSET Peers

\* The queries whose task has panicked: no result of theirs will ever come.
Lost == (queried \cap Unparseable) \ tasks

(***************************************************************************)
(* The counter in_progress is exact while the loop runs: it counts the     *)
(* running tasks, the results not yet received and, for good, the queries  *)
(* lost to a panic.  It never exceeds Alpha, and never underflows its u16  *)
(* when a result arrives.                                                  *)
(***************************************************************************)
InProgressExact ==
  pc # "done" => /\ in_progress = Cardinality(tasks) + Len(channel) + Cardinality(Lost)
                 /\ in_progress <= Alpha

\* The caller waits for a result, and nobody is left to send one.
Hung == pc = "recv" /\ tasks = {} /\ channel = <<>>

(***************************************************************************)
(* The caller waits on nothing only after a panic: when it awaits          *)
(* rx.next() a task is running, a result is there or a query was lost.     *)
(* The sender that the caller keeps makes it wait for ever otherwise.      *)
(***************************************************************************)
NoIdleWait == Hung => Lost # {}

(***************************************************************************)
(* No peer is queried twice in a lookup, however often other peers name    *)
(* it, the node itself included.                                           *)
(***************************************************************************)
AskedOnce == [][\A p \in tasks' \ tasks : p \notin queried]_vars

(***************************************************************************)
(* A lookup gives up only when it has queried every peer that its own      *)
(* table or an answer it received has named: none is forgotten between     *)
(* the answers, the sorting and the popping, however the answers overlap.  *)
(***************************************************************************)
GivesUpExhausted == outcome = NotFound => named \subseteq queried

(***************************************************************************)
(* A value that find_value returns was held, after the call began, by this *)
(* node or by a peer it queried; answers that arrive late or out of order  *)
(* cannot make one up.                                                     *)
(***************************************************************************)
FoundWasHeld ==
  outcome.status = "OK" =>
    \E p \in queried \cup {Self} : <<p, outcome.value>> \in held

(***************************************************************************)
(* The lookup with its candidates, tasks and channel implements the one of *)
(* module Lookup: it reads the own store first, returns a value that was   *)
(* held or gives up, and does so exactly once.  It does so eventually, as  *)
(* module Lookup has it, if no query is lost to a panic.                   *)
(***************************************************************************)
stage == CASE pc = "find_value_local" -> "called"
           [] pc = "done"             -> "returned"
           [] OTHER                   -> "looked"

Promise == INSTANCE Lookup

ImplementsLookup == Promise!Spec /\ ([](Lost = {}) => Promise!Returning)

(***************************************************************************)
(* Every lookup returns, whatever the peers answer and whoever fails,      *)
(* unless it hangs with a query lost to a panic; that is the only way.     *)
(***************************************************************************)
EndsOrHangs == <>(pc = "done" \/ (Hung /\ Lost # {}))

(***************************************************************************)
(* "Iteratively queries 'alpha' nodes concurrently until value is found or *)
(* we run out of candidates": the lookup ends, one way or the other.  With *)
(* an address that does not parse it need not: see the README.             *)
(***************************************************************************)
Terminates == <>(pc = "done")

(***************************************************************************)
(* "get the value corresponding to the given key from the DHT": when a     *)
(* lookup gives up with NOT_FOUND, no value is on its way to it, neither   *)
(* in the channel nor at a peer whose query is running.  The code returns  *)
(* without waiting for the queries in progress: see the README.            *)
(***************************************************************************)
NotFoundIsDefinitive ==
  [][outcome' # outcome /\ outcome' = NotFound =>
       /\ \A p \in tasks : store[p] = None
       /\ \A x \in DOMAIN channel : ~channel[x].had]_vars

(***************************************************************************)
(* The same promise for a value that has arrived: a lookup never reports   *)
(* NOT_FOUND after it received the answer of a peer that holds a value.    *)
(* The code takes a stored empty value for none: see the README.           *)
(***************************************************************************)
HeldValueReturned == outcome = NotFound => ignored = {}
=============================================================================
