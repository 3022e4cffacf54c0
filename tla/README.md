# A TLA+ model of dht_kad_rs

dht_kad_rs is a library for a Kademlia distributed hash table in asynchronous Rust.  This directory
holds a TLA+ model of it, the TLC configurations that check the model on small instances, and
proofs, checked by TLAPS, that hold for every instance.  `PROJECT.json` maps every definition to
the source lines it models and lists runs, hazards, findings and theorems.

## The system

| Component | State | Operations | Interacts with |
|---|---|---|---|
| `src/src/keyutil.rs` | none | identifiers, `common_prefix_length`, key hashing, bytes | everybody |
| `src/src/routing_table.rs` | a vector of k-buckets, each a vector of peers | `update`, `nearest_peers`, `k_nearest_peers` | shared by server, client and bootstrap behind one mutex |
| `src/src/kvstore.rs` | a hash map in memory | `put`, `get`, (`delete`, unused) | shared by server and client behind a second mutex |
| `src/src/rpc/mod.rs` | the two shared structures | handlers for store, find_node, find_value, ping | called by other nodes; every handler is a task |
| `src/src/client.rs` | per call: candidates, queried peers, a channel, a count of queries | `store`, `find_value`, `find_node`, `ping` | sends requests to other nodes, reads both shared structures |
| `src/src/lib.rs` | configuration and the above | `init`, `bootstrap`, `wait_for_connection`, `get`, `put` | starts the server, uses the client |
| `src/src/messages/` | none | requests, responses, validation, peers to bytes | client and server |
| `src/testbed/src/main.rs` | none | starts services, puts, gets, compares | `DHTService` of every node |

What makes it correct, per component:

* keyutil: the prefix length and the XOR order that everybody relies on fit together, so that
  buckets are distance classes.
* routing table: at most K peers in a bucket, no peer lost, doubled or misplaced by an unfolding,
  unfolding ends, the answers are the nearest of the peers examined.
* lookup: exact count of the concurrent queries, no wait on nothing, no peer asked twice and none
  forgotten, only values that somebody held, termination, and no NOT_FOUND for a value that is on
  its way.
* store: Ok only if a peer stored the value, an error only if no store was confirmed.
* server: critical sections exclude one another, all requests are answered, acknowledged stores
  are visible.
* bootstrap: exactly the live peers are recorded and `init` ends.
* messages: what this code sends is served, and keys, peers and values survive their bytes, whatever
  other programs send.
* all together: a get finds what a put stored unless failures hide it, and both return.

What is hard here: handlers, lookups and bootstrap run concurrently and share two structures;
requests and replies are lost or late; queries answer in any order; the table is unfolded lazily at
capacity; several counts and indices have edge cases at zero; an address that does not parse panics
whoever uses it; a node that restarts is empty while others still name it.  The list with source
lines is under `hazards` in `PROJECT.json`.

## Modules

| Module | Models | Kind |
|---|---|---|
| `KeyUtil` | identifiers as bit vectors of width W, XOR, order, prefix length | operators |
| `KBuckets` | what the routing table promises: known peers, number of buckets, refusals | abstract specification |
| `Vectors` | the sorts, `retain` and `dedup` of vectors that the code calls | operators |
| `RoutingTable` | the vectors of buckets and peers of the code | implements `KBuckets` (proved) |
| `Lookup` | what `get` promises: one verdict, a value only if somebody held it | abstract specification |
| `FindValue` | one lookup, its tasks, its channel, the other nodes | implements `Lookup` |
| `Store` | one put, its requests, the other nodes | component |
| `DHTServer` | the concurrent handlers with both mutexes | composes `KBuckets` and the key-value store |
| `Messages` | requests, responses, their checks and conversions, what panics | component |
| `Bootstrap` | `init`, `bootstrap` and the spawned server | composes `KBuckets` and the client's requests |
| `Network` | nodes that contact one another, one put and one get, restarts | composes `KBuckets`, `Store`, `FindValue` |
| `KBucketsProofs`, `RoutingTableProofs`, `FindValueProofs`, `StoreProofs`, `DHTServerProofs`, `MessagesProofs`, `BootstrapProofs`, `NetworkProofs` | | proofs |
| `MC*` | | instances for TLC |

An operator whose comment begins with "Mutant" is a plausible slip in the definition that follows
it.  No specification uses it: put in the place of that definition it must violate the
property that `PROJECT.json` pairs it with, which shows that the property can fail.

### How the state corresponds to the code

* `RoutingTable`: `buckets[i + 1]` is `self.buckets[i]`, a record with `index` and `peers`.
  `update`, `split`, `unfold_buckets` and `nearest_peers` are functions of the same names. `refused`
  and `contacts` are history.  Callers hold the mutex for the whole call, so `update` is one step.
  No code reads the order inside a bucket that `LeastRecentFirst` is about, for nothing is evicted
  yet.  The recursion of `unfold_buckets` is a recursive function, and `retain` and `sort_by`
  arrange positions by rank or in order (`Vectors`), because proofs can handle these;
  `MCRoutingTable` compares both with the community modules' `SelectSeq` and `SetToSortSeq`, and
  `MCBootstrap` does the same for the sort and the `dedup` of `Bootstrap`.
* `KBuckets` forgets the order inside buckets: a peer's bucket follows from its prefix length and
  the number of buckets.  `RoutingTable` implements it with `known` the union of the buckets and
  `depth` their number (`ImplementsKBuckets`); `AnswersRefine` links the answers.
* `FindValue`: `pc` marks the awaits and loops of `find_value`; `tasks` are the spawned futures
  that have not reported, `channel` is the unbounded channel.  Sets replace the vectors
  `candidates` and `queried`, which never hold a peer twice.  What a peer answers is any set of
  at most K peers, so any state of the other routing tables is covered; a query may always fail.
  A response with an error code carries neither value nor peers and is the answer with no peers.
  Responses come from nodes that run this code, so their identifiers have the right length; the
  addresses in them are whatever a request once named.  A task that meets one of the peers in
  `Unparseable` panics in `parse().unwrap()` and sends no result (`QueryPanics`); the caller is not
  told and still counts it (`Lost`).  `named`, `held` and `ignored` are history.
* `Lookup` sees of this only the stores, whether the caller has looked into its own one (`pc` past
  the first step), and the verdict (`ImplementsLookup`).
* `Store`: the futures in `join_all` are the positions of `peers`; `request` is what happens at
  the peer and `result` what the caller sees, so effect and confirmation can differ.  The error
  codes a peer may answer with are the ones the handler can send, the branch for a failing
  key-value store included (which `MemoryStore` never takes).  `put` parses all addresses before
  the first request leaves; one that does not parse panics the caller (`pc = "panicked"`).
* `DHTServer`: one `pc` per request; each lock acquisition and each critical section is a step.
  The code holds no mutex across an await (the guards are temporaries of a statement, or live to
  the end of `find_node_async`), and the model keeps them exactly that long.  No guard outlives its
  handler (`DropGuards`).
* `Messages`: `message` is what is on the wire, `stage` who has it.  A byte is eight booleans, an
  identifier of W bits is W / 8 bytes (the code has W = 128), an address is opaque.  A handler that
  panics ends its task, and its caller sees the deadline pass.  `Others`, the messages of other
  programs, may be any messages: those `validate_request` lets pass are served, and a peer in one is
  recorded under the first W bits of its identifier and whatever address it names.  `puts` is
  history: what was stored under each identifier, to compare with what is stored under its bytes.
* `Bootstrap`: `server` is the task that `init` spawns; `results` are the futures of the current
  `join_all`; the mutex of the table is held while `pc = "update"`.  `init` panics on a configured
  address that does not parse, and on one that a peer has named (`Panics`).
* `Network`: one table and one stored value for each node.  `Put` and `Get` are instances of `Store`
  and `FindValue`; a step of theirs at a peer is joined with what the handler of that peer does to
  its table.  `Record` is `update_routing_table`.  `Contact` stands for all other traffic
  (bootstrap, pings, other lookups): it may bring a node to the knowledge of another, and to its
  own, since `bootstrap()` does not leave itself out of the peers it pings (`src/src/lib.rs:159`).
  The constant `Meetings` says who may meet whom.  Once a peer is known or refused, further contacts
  change nothing that `KBuckets` keeps.  The nodes' addresses are written by
  `SocketAddr::to_string()` and parse (`Unparseable <- {}`).  `start` and `failed` are history.

## Runs

| Run | Instance | Shows |
|---|---|---|
| `kbuckets` | W = 3, K = 2, ten peers | invariants of the abstract table; bit vectors agree with the integers of the code (assumptions of `MCKeyUtil`) |
| `routing_table` | W = 3, K = 2, six peers | order, placement and answers of the real table; refinement |
| `find_value` | 4 nodes, one with an address that does not parse, Alpha = 2, K = 2, one value | safety of a lookup; it implements `Lookup`; it ends, or hangs after a panic and only then |
| `store` | 4 peers, one with an address that does not parse, K = 3 | verdict of a put; it returns or panics |
| `server` | 3 requests, W = 2, K = 1 | mutual exclusion, visibility, no deadlock |
| `messages` | W = 16 (two bytes), two nodes, five messages of other programs | what this code sends is served; keys, peers and values arrive |
| `bootstrap` | 5 peers, one with an address that does not parse, K = 1, configurations of none, one, three peers, and of two with that one | only and all live peers; `init` returns or panics |
| `network` | 3 nodes, W = 2, K = 3, Alpha = 1, one restart | a get misses a value only behind failures; put and get return |

Bounds.  Three-bit identifiers give four prefix lengths, and two addresses for the local identifier
fill the deepest bucket, so tables unfold to the maximal depth, several levels at once, and buckets
refuse peers.  Four nodes with Alpha = 2 let queries wait, answer out of order, name each other and
the requester, and tie in distance.  Three requests are enough for one to run between two steps of
another while a third holds a lock.  In the bootstrap three peers compete for one bucket, so that
the table can end in an empty bucket.  Two bytes tell apart byte order, width and the loss of
leading zeros; the messages of other programs lack the peer, part of its identifier, or the key, or
are complete requests of a stranger whose identifier and key are a byte too long and begin with
those of a node.  Three nodes let the reader reach the value through a second node, be named to
itself, and find the node between restarted; the key is the identifier of the writer, so that the
value may be on the last node asked.  Two constants bound `network`: `MaxRestarts` the restarts,
`Meetings` the contacts.  The writer meets itself but not the reader, of whom it learns by a
request; every other pair of nodes may meet.  No counter needs a bound.

`network` keeps Alpha = 1 and K no smaller than the number of nodes.  Both are preconditions of
what it shows, not conveniences: with two queries at a time the lookup may give up early
(`find_value_race`).  With full buckets the peers `nearest_peers` yields may all be ones that joined
after the put: they are nearer to the key than the nodes that store the value, hide these, and do
not have it, because nothing is republished (`republish` is empty, `src/src/lib.rs:113`).  That is
no slip of the lookup and has no run.  Under the two preconditions
the assertion of the testbed follows from `GetFinds` and `OkMeansStored`: a node that put a value
knows the nodes that stored it, so its own get misses the value only if they all failed.  Both
facts are proved for every network that meets the preconditions (`NetworkProofs`).

Fairness.  The caller of a lookup, put or bootstrap is polled by the runtime whenever it can go on
(weak fairness of its steps).  Every task and request future ends: it panics on an address that
does not parse, connecting fails sooner or later, or the tarpc request, which carries a deadline,
is answered or not (weak fairness per task).  It need not end well.  Handlers
that can go on do; requests of a run are finitely many, so waiting for a mutex is not starved by
newcomers.  Nothing is assumed about other clients, about contacts between nodes or about
restarts, nor that a request that was sent has an effect.  Where deadlock checking is off, the
system really may stop: a call has returned or panicked, or no request is left.

### Where code and documentation disagree

Four runs expect a violation.

* `find_value_race`: two peers are queried, one query fails, no candidate is left, and
  `find_value` returns NOT_FOUND while the other peer answers with the value.
* `find_value_empty`: an empty value that was stored is "not found" for all nodes but its holder.
* `find_value_panic`: the lookup asks a peer whose address does not parse.  The task panics in
  `parse().unwrap()` (`src/src/client.rs:191`) and sends no result.  The caller still counts the
  query and itself holds a sender of the channel, so `rx.next()` never yields and `find_value`
  neither ends with a value nor runs "out of candidates".  Any request or answer may name such an
  address, since `validate_request` does not check that it parses.
* `bootstrap_dedup`: the list (2,a), (2,b), (2,a) survives `sort_by_key` and `dedup`.  `BootstrapProofs`
  says exactly when: a candidate occurs twice only if one with its identifier and another address
  stands between (`RepeatsStraddleAlias`), so never while each identifier has one address.

More, seen while modelling, have no run of their own.  A put without any suitable peer returns an error
whose code is OK (`src/src/client.rs:68`).  `init` spawns the server and unwraps the error of
`listen` in that task, so it bootstraps and returns Ok although no server runs
(`src/src/lib.rs:88`).  A handler panics on an identifier or key of fewer than 16 bytes, which
`validate_request` lets pass (`src/src/messages/util.rs`, modelled in `Messages`), and cuts longer
ones to 16 bytes, so that two of them may be taken for one.  An address that does not parse panics
the caller of `put` (`src/src/client.rs:57`) and of `init` (`src/src/lib.rs:133` and `170`), as
`Store` and `Bootstrap` have it.

## Proofs

All for arbitrary constants: any width W, any K >= 1, any set of peers, any Alpha >= 1, any set of
requests, finite or not.

* `KBucketsProofs`: `Capacity`, `DepthBound`, `ConnectionDetected`, `RefusedForGood`,
  `OwnBucketNearest`, `UnfoldingEnds` and type correctness.  The inductive invariant adds two facts:
  `Edge`, one of the last two buckets is not empty (an unfolding stops one level after a bucket of K
  peers, and nothing is evicted), which gives the depth bound and the detection of the first
  contact; and `Shut`, a refused peer belongs to a full bucket before the last, which is never split
  again. `DepthBound` uses that no prefix is longer than W bits.  `OwnBucketNearest` rests on the
  lemmas about identifiers: those that share a longer prefix with the local one than a target does,
  or a shorter one, are farther from that target than those that share the same prefix length.
  `UnfoldingEnds`: from every reachable table `unfold_buckets` stops, at exactly one number of
  buckets, because the last bucket is empty at the latest past level W; and a nearest peer always
  exists, since XOR distances are well ordered (`NearestExists`).
* `RoutingTableProofs`: the vectors implement `KBuckets` (`KBucketsImplemented`, initial states and
  steps), so all the above holds of the code's table; `Placement`, `LeastRecentFirst`,
  `ExactWhenBucketSuffices`, `AnswersRefine` and type correctness.
  - The inductive invariant is placement, and that each bucket has its peers in the order they have
    in `contacts` (`Ordered`).  `Placement` says enough of a table (`Table`): a bucket before the
    last holds exactly one prefix length, the last one the rest.
  - `split` deals out the last bucket and touches nothing else (`UnfoldOnceKeeps`); as many splits
    as the recursion makes do the same (`UnfoldingKeeps`).  Splitting ends because bucket W + 1
    stays empty (`LastBucket`), and the recursive function of `unfold_buckets` is shown to exist
    first (`UnfoldingExists`).  Where induction is needed it is a least counterexample: natural
    numbers are well-founded.
  - `Arranged` puts each position where its rank in a strict order says, and `retain` is the
    arrangement by the order of the positions themselves (`SelectedIsArranged`).  `Arranged`
    enumerates the positions in that order (`ArrangedInOrder`), and there is only one way to do so
    (`EnumerationUnique`); hence `retain` keeps the order of the peers and the stable sort by
    distance puts nobody behind a peer that is farther.
  - The peers that `nearest_peers` examines are those of the abstract buckets, also at both ends of the
    table, and occur once (`ExaminedIsVisible`); what `truncate` leaves is n of the nearest (`Truncated`).
* `FindValueProofs`: `InProgressExact`, `NoIdleWait`, `FoundWasHeld`, `AskedOnce`,
  `GivesUpExhausted` and type correctness.  The invariant adds that candidates and queried peers are
  disjoint (so a spawn adds a task and the count stays exact), that the loop reaches `rx.next()`
  only with a query in progress (this needs Alpha >= 1), that every value in the channel was held,
  and that every peer the caller has learned of is a candidate or queried (`Remembered`).  Queries
  lost to a panic stay in the count for good, so the caller waits on nothing only after one.
  `LookupImplemented`: initial states are initial states of `Lookup`, and every step is a step of it
  or a stutter.  Under the invariant the verdict "found" is a value some node held. `LookupBounded`:
  among N peers a lookup takes at most 5 N + 5 steps.  The measure counts what the peers not yet
  queried, the running tasks, the results in the channel and the place in the loop may still cost;
  each step of the caller or of a task lowers it, so no answers, repeats or failures keep the loop
  going.
* `StoreProofs`: `OkMeansStored`, `ConfirmedMeansOk` and type correctness.  The invariant adds that a
  request confirmed with OK had its effect, and that the caller returns only after every future of
  `join_all` has a result.  `PutBounded`: a put takes at most 2 K + 2 steps, its late effects included.
* `DHTServerProofs`: `MutualExclusion`, `AckedVisible`, `RequesterIntroduced` and type correctness.
  The invariant says that a handler is in a critical section exactly while it owns the mutex,
  that an acknowledged key keeps a value, and that a lookup reaches `find_node_async` only for a
  key not acknowledged when it arrived.  For the table it carries the invariant of `KBucketsProofs`
  over to the instance in `DHTServer` (`TableInv`), with one addition: past `update_routing_table` the
  requester is known or refused.  `RequesterIntroduced` then rests on the lemma `OwnIdAnswered`, that
  nobody can crowd a known peer out of the answer about its own identifier.  `TableImplemented`: however
  the handlers interleave, the server's table is a `KBuckets`.
  Two theorems say that handlers do not block one another.  `HandlersBounded`: each step of the server
  uses up one of at most eight steps of exactly one request.  `NobodyStuck`: a handler that cannot go
  on waits for a mutex whose holder can, so waiting has neither cycles nor chains; inside a critical
  section the table always has an outcome to offer (`UnfoldingEnds`, `AnswerExists`).
* `MessagesProofs`: `OwnRequestsServed`, `PeersIntact`, `ReadsWhatWasPut` and type correctness, for
  identifiers of any number of bytes and any messages of other programs.  All rests on
  `KeyRoundTrip`, that reading the bytes of an identifier yields it, and `BytesRoundTrip`, that
  writing what was read yields the first bytes, all of them if there are no more.  Hence the bytes
  are injective, and a sender with a longer identifier is recorded under its first bytes.  The
  invariant says what a request of a node holds on the wire, who was recorded, and that the store
  has under the bytes of each key what was put under the key.
* `BootstrapProofs`: `OnlyLivePeers`, `NoLivePeerLost` and type correctness.  The invariant follows
  a peer that answered through the result of its request, `alive_peers`, the table or the refusals;
  results stay paired with the list they were made from.  Here too the table is a `KBuckets`
  (`TableImplemented`), hence `wait_for_connection` sees a peer as soon as the table knows one
  (`ConnectionSeen`): the safety part of `InitEnds`.
  - The candidates (`CandidatesRight`) are what flattening, filtering, sorting and deduplicating
    make of any answers.  Flattening is a recursive function, shown to exist and to yield peers
    (`FlattenType`); the sort is an instance of the lemmas of `RoutingTableProofs`; what `dedup`
    keeps has no equal neighbours (`Deduplicated`).  So the candidates are a vector of peers, none
    of them a bootstrap peer (`BootstrapPeersNotPinged`), and duplicates are where the finding above
    says.
  - `BootstrapBounded`: each step of `bootstrap` and each end of a request ends one of six phases or
    leaves fewer requests open, or fewer peers to record, while incoming requests add nothing.
    `RecordingGoesOn`: as long as peers are left to record, one is next (they all stand in one of
    the two lists, `Listed`) and `update` has an outcome for it.
* `NetworkProofs`: the composition, for any number of nodes, any topology, any losses and restarts.
  - In every network: type correctness; the put in the network is a `Store`, initial states and
    steps (`PutImplemented`); and the put and the get keep their own promises (`PromisesKept`).  The
    invariants of `StoreProofs` and `FindValueProofs` are reused: each step of `Network` is a step of
    both components or leaves them alone, and a restart, which is no step of `FindValue`, is shown
    to preserve its invariant.
  - In a network of at most K nodes (`SmallNetwork`) no bucket overflows (`Roomy`), so a table yields
    all it knows.  `GivesUpExplained`, for every Alpha: when a get of a value that is not empty gives
    up, it has asked everybody it could reach, except for nodes that failed and queries still under
    way.  The invariant is a search that leaves nothing behind: what was known to a peer that has
    answered is queried or is a candidate (`Frontier`), a result in the channel tells all that its
    sender knew when the get began (`Truthful`), and tables and stores only grow, except at nodes
    that restart, which count as failed (`Kept`).
  - With Alpha = 1 no query is under way at the head of the loop, which gives `GetFinds`.  The writer
    knows a node that stores the value (`Holders`, `Linked`), which gives the assertion of the testbed,
    `PutThenGet`, for a reader that is the writer or knows it.
  The hypotheses are needed: with Alpha = 2 or an empty value TLC finds counterexamples
  (`find_value_race`, `find_value_empty`), and in a network of more than K nodes one that joins after
  the put may hide those that hold the value.  TLC also checked
  the parts of the invariant as invariants of the instance of `network`, with Alpha = 1 and 2.

Assumptions: W is a natural number (`Messages`: eight times the number of bytes), K and Alpha are
positive (with K = 0 the first `update` would unfold for ever, with Alpha = 0 a lookup with
candidates would never query and never end), the nodes of `Network` are finitely many, peers have
identifiers of W bits, `None` is no value, node or request, a configuration is a list of peers, and
nodes have addresses that are not empty.  Nothing is assumed of the messages of other programs in
`Messages`, nor of which addresses parse in `FindValue`, `Store` and `Bootstrap`.

Only model-checked:

* all liveness properties (`EndsOrHangs`, `PutEnds`, `Answered`, `InitEnds`, `Returns`) and the fair
  part of `ImplementsLookup`, which need fairness and ENABLED.  Their safety half is proved:
  `LookupBounded`, `PutBounded`, `HandlersBounded` and `BootstrapBounded` let no call run for ever,
  and `NoIdleWait`, `NobodyStuck`, `ConnectionSeen` and `RecordingGoesOn` no state in which it waits
  for nothing, save a lookup that has lost a query to a panic.  What remains to fairness is that a
  step that can be taken is taken;
* that flattening concatenates in order, and what `dedup` and the sorts yield as a whole, beyond the
  facts above (`MCRoutingTable` and `MCBootstrap` compare them with the community modules).

Every invariant that a passing run checks is stated by a theorem.

`KeyUtil` is compared with integers for three bits.

## Not modelled

* Hashing and random identifiers: a key is any identifier.  Two keys with one hash, which share
  their value, are not looked at.
* `field_type`, which no handler reads, and the text of an address: it is opaque, parses or does not
  (`Unparseable`), and is rejected when empty or no UTF-8 (`NoAddress`).  That a program without
  this code answers a client with malformed peers is not looked at; it may send any request.
* The generated protobuf code, the test mock, and the testbed's flags, random keys and final delay.
* `MemoryStore::delete`, `republish`, `refresh`: no callers or empty bodies.
* Recovery: nothing is persisted, a node that restarts is a new node with the old identifier
  (`Network`).
* More than one key or client in `Network`: `Messages` shows that keys do not interfere, `DHTServer`
  has the concurrency inside a node.

## Plan

Written in the order routing table, lookup, store, server, bootstrap, messages, network.  What is
left:

1. `Network` with two concurrent gets.
