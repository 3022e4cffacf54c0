----------------------------- MODULE Bootstrap -----------------------------
(***************************************************************************)
(* DHTService::init and bootstrap (src/src/lib.rs): how a node fills its   *)
(* routing table when it starts.  It asks the configured peers for nodes   *)
(* near its own identifier, pings the ones it did not know, and records    *)
(* all that answered.  Without configured peers it first waits until       *)
(* somebody contacts it.  Meanwhile its own server, a task that init() has *)
(* spawned, starts to listen and records incoming requests, or fails to.   *)
(***************************************************************************)
EXTENDS KeyUtil, Vectors

CONSTANTS
  K, Local, Peers,   \* as in KBuckets
  Unparseable,       \* the peers whose address is not one that parses
  Configs            \* the lists of bootstrap peers that may be configured

ASSUME TableAssumption   == K \in Nat \ {0} /\ \A p \in Peers \cup {Local} : p.id \in Id
ASSUME ConfigsAssumption == Configs \subseteq Seq(Peers)

VARIABLES
  known, depth, refused,  \* the routing table
  server,                 \* the spawned task: "spawned", "listening" or "failed"
  bootstrap_peers,        \* conf.bootstrap_peers
  pc,                     \* where bootstrap() is
  results,                \* the results of the requests it joins
  candidate_peers,        \* the peers to ping
  alive_peers,            \* the peers that answered and are not yet recorded
  contacted,              \* history: peers whose requests reached the server
  responded               \* history: peers that answered a request

table   == <<known, depth, refused>>
history == <<contacted, responded>>
vars    == <<table, server, bootstrap_peers, pc, results, candidate_peers, alive_peers,
             history>>

Table == INSTANCE KBuckets

\* A request that is not yet answered, that failed, or that was answered.
Waiting  == [status |-> "waiting", closerPeers |-> <<>>]
Failed   == [status |-> "Err", closerPeers |-> <<>>]
Reply(s) == [status |-> "Ok", closerPeers |-> s]

\* Mutant: joins the requests of the first round again.
RequestsAgain(peers) == [i \in DOMAIN bootstrap_peers |-> Waiting]

Requests(peers) == [i \in DOMAIN peers |-> Waiting]

Ready == \A i \in DOMAIN results : results[i] # Waiting

\* The peers that the requests in results were sent to.
Asked == IF pc = "find_node" THEN bootstrap_peers ELSE candidate_peers

\* Mutant: pairs the answers with the first peers of the list.
AnsweringShifted ==
  {Asked[i] : i \in 1..Cardinality({j \in DOMAIN results : results[j].status = "Ok"})}

\* Result i belongs to peer i of the list.
Answering == {Asked[i] : i \in {j \in DOMAIN results : results[j].status = "Ok"}}

\* sort_by_key(|p| p.id), which is stable, of the peers at the positions S.
SortById(ps, S) ==
  LET before(x, y) == Less(ps[x].id, ps[y].id) \/ (ps[x].id = ps[y].id /\ x < y)
  IN  Arranged(ps, S, {e \in S \X S : before(e[1], e[2])})

\* The peers that the answers name, without the bootstrap peers.
Candidates ==
  LET named == FlattenSeq([i \in DOMAIN results |-> results[i].closerPeers])
      new   == {x \in DOMAIN named : named[x] \notin ToSet(bootstrap_peers)}
  IN  dedup(SortById(named, new))

Init ==
  /\ known = {} /\ depth = 1 /\ refused = {}
  /\ server = "spawned"
  /\ bootstrap_peers \in Configs
  /\ pc = "start"
  /\ results = <<>> /\ candidate_peers = <<>> /\ alive_peers = {}
  /\ contacted = {} /\ responded = {}
-----------------------------------------------------------------------------
\* listen() binds the address, or its unwrap() ends the spawned task alone.
Listen(state) ==
  /\ server = "spawned" /\ server' = state
  /\ UNCHANGED <<table, bootstrap_peers, pc, results, candidate_peers, alive_peers, history>>

\* The server handles a request of p: it takes the mutex of the table, which
\* bootstrap() holds while it records the peers.
Contact(p) ==
  /\ server = "listening" /\ pc # "update"
  /\ Table!Update(p)
  /\ contacted' = contacted \cup {p}
  /\ UNCHANGED <<server, bootstrap_peers, pc, results, candidate_peers, alive_peers, responded>>

\* parse().unwrap() panics on one of the addresses, before the first of the
\* requests is sent: their futures do nothing until join_all() polls them.
Panics(peers) == \E i \in DOMAIN peers : peers[i] \in Unparseable

Start ==
  /\ pc = "start"
  /\ pc' = CASE bootstrap_peers = <<>>     -> "wait"
             [] Panics(bootstrap_peers)   -> "panicked"
             [] OTHER                     -> "find_node"
  /\ results' = Requests(bootstrap_peers)
  /\ UNCHANGED <<table, server, bootstrap_peers, candidate_peers, alive_peers, history>>

\* Mutant: polls for a peer in the node's own bucket only.
ConnectionInOwnBucket == Table!Bucket(depth - 1, depth) # {}

\* The check that wait_for_connection() makes once a second.
Connection == Table!Visible(Local.id, 2) # {}

ConnectionFound ==
  /\ pc = "wait" /\ Connection
  /\ pc' = "find_node"
  /\ UNCHANGED <<table, server, bootstrap_peers, results, candidate_peers, alive_peers, history>>

Settle(i, result) ==
  /\ pc \in {"find_node", "ping"} /\ results[i] = Waiting
  /\ results' = [results EXCEPT ![i] = result]
  /\ UNCHANGED <<table, server, bootstrap_peers, pc, candidate_peers, alive_peers, contacted>>

\* The peer of request i answers, a find_node with the nearest peers it knows.
PeerAnswers(i, s) == Settle(i, Reply(s)) /\ responded' = responded \cup {Asked[i]}

\* The peer cannot be reached or the deadline passes.
PeerFails(i) == Settle(i, Failed) /\ UNCHANGED responded

\* The first join_all() is ready: collect the candidates and ping them.  Peers
\* name any address; one that does not parse ends init(), which records nobody.
JoinFindNode ==
  /\ pc = "find_node" /\ Ready
  /\ alive_peers' = Answering
  /\ candidate_peers' = Candidates
  /\ results' = Requests(candidate_peers')
  /\ pc' = IF Panics(candidate_peers') THEN "panicked" ELSE "ping"
  /\ UNCHANGED <<table, server, bootstrap_peers, history>>

\* Mutant: the peers that answered pings replace the bootstrap peers.
AliveAfterPingsOnly == Answering

AliveAfterPings == alive_peers \cup Answering

\* The second one is ready: take the mutex of the table.
JoinPing ==
  /\ pc = "ping" /\ Ready
  /\ alive_peers' = AliveAfterPings
  /\ pc' = "update"
  /\ UNCHANGED <<table, server, bootstrap_peers, results, candidate_peers, history>>

\* Where a peer stands in alive_peers: bootstrap peers come first.
Position(p) ==
  LET order == bootstrap_peers \o candidate_peers
  IN  Min({i \in DOMAIN order : order[i] = p})

\* Record the next peer; a NoCapacityError is only logged.
UpdateTable(p) ==
  /\ pc = "update"
  /\ p \in alive_peers /\ \A q \in alive_peers : Position(p) <= Position(q)
  /\ Table!Update(p)
  /\ alive_peers' = alive_peers \ {p}
  /\ UNCHANGED <<server, bootstrap_peers, pc, results, candidate_peers, history>>

\* init() returns Ok, however few peers answered.
Return ==
  /\ pc = "update" /\ alive_peers = {}
  /\ pc' = "done"
  /\ UNCHANGED <<table, server, bootstrap_peers, results, candidate_peers, alive_peers, history>>
-----------------------------------------------------------------------------
\* What k_nearest_peers() of another node can yield; a ping names no peers.
Answers ==
  IF pc = "find_node" THEN {s \in BoundedSeq(Peers, K) : IsInjective(s)} ELSE {<<>>}

Rpc(i) == (\E s \in Answers : PeerAnswers(i, s)) \/ PeerFails(i)

Step ==
  \/ Start \/ ConnectionFound \/ JoinFindNode \/ JoinPing
  \/ (\E p \in Peers : UpdateTable(p))
  \/ Return

Next ==
  \/ Step
  \/ \E state \in {"listening", "failed"} : Listen(state)
  \/ \E i \in DOMAIN results : Rpc(i)
  \/ \E p \in Peers : Contact(p)

Spec == Init /\ [][Next]_vars

(***************************************************************************)
(* The runtime polls init() whenever it is ready, its interval timer       *)
(* included, and every RPC ends, at the latest with its deadline.  Nobody  *)
(* need contact the node.                                                  *)
(***************************************************************************)
FairSpec == Spec /\ WF_vars(Step) /\ WF_vars(\E i \in DOMAIN results : Rpc(i))
-----------------------------------------------------------------------------
\* Type invariant.
TypeOK ==
  /\ Table!TypeOK
  /\ bootstrap_peers \in Configs
  /\ pc \in {"start", "wait", "find_node", "ping", "update", "done", "panicked"}
  /\ server \in {"spawned", "listening", "failed"}
  /\ pc \in {"find_node", "ping"} => DOMAIN results = DOMAIN Asked
  /\ results \in Seq([status : {"waiting", "Err", "Ok"}, closerPeers : Seq(Peers)])
  /\ candidate_peers \in Seq(Peers) /\ alive_peers \in SUBSET Peers
  /\ contacted \in SUBSET Peers /\ responded \in SUBSET Peers

(***************************************************************************)
(* Only live peers enter the table: each one it knows has sent this node a *)
(* request or answered one.  bootstrap() matches results with peers by     *)
(* their position, after it has filtered, sorted and deduplicated them.    *)
(***************************************************************************)
OnlyLivePeers == known \subseteq contacted \cup responded

(***************************************************************************)
(* No live peer is forgotten: when init() returns, each peer that answered *)
(* is in the table or was refused by a full bucket.                        *)
(***************************************************************************)
NoLivePeerLost == pc = "done" => responded \subseteq known \cup refused

(***************************************************************************)
(* init() ends if bootstrap peers are configured, reachable or not, and    *)
(* otherwise once anybody has contacted the node: the poll in              *)
(* wait_for_connection() sees a peer wherever it is in the table.  It      *)
(* returns Ok, or panics on an address that does not parse.                *)
(***************************************************************************)
InitEnds == (bootstrap_peers # <<>> \/ known # {}) ~> (pc \in {"done", "panicked"})

(***************************************************************************)
(* "remove any duplicate candidates and ones we've already visited": no    *)
(* peer is pinged twice.  The code sorts by identifier alone, which leaves *)
(* duplicates apart: see the README.                                       *)
(***************************************************************************)
NoDuplicateCandidates == IsInjective(candidate_peers)
=============================================================================
