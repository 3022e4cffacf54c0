------------------------------- MODULE Store -------------------------------
(***************************************************************************)
(* One call of DHTClient::store (src/src/client.rs), behind                *)
(* DHTService::put: a store RPC to every peer that nearest_peers() yields, *)
(* all at once, then one verdict over all the results.  Requests and       *)
(* replies may be lost or late: a peer can store the value although the    *)
(* caller only sees an error, and even after the call has returned.        *)
(***************************************************************************)
EXTENDS Integers, Sequences, SequencesExt

CONSTANTS
  K,           \* how many peers nearest_peers() yields at most
  Peers,       \* all nodes, also those that only exist as an entry of a table
  Unparseable  \* those whose address is not one that parses

ASSUME KAssumption == K \in Nat

VARIABLES
  pc,       \* where the caller is
  peers,    \* the peers the call sends to, in the order of nearest_peers()
  request,  \* for each of them, what became of the request
  result,   \* for each of them, the validated result of the RPC future
  stored,   \* the nodes that put the value into their key-value store
  outcome   \* the result of the call

vars == <<pc, peers, request, result, stored, outcome>>

\* routing::message::ErrorCode
ErrorCode == {"OK", "INTERNAL_ERROR", "NOT_FOUND", "BAD_REQUEST"}

Waiting == "waiting"      \* a future that is not ready

\* Result<(), RPCError>; the call is pending until it has returned.
Pending   == [status |-> "pending", error_code |-> "OK"]
Ok        == [status |-> "Ok",  error_code |-> "OK"]
Err(code) == [status |-> "Err", error_code |-> code]

Init ==
  /\ pc = "nearest_peers"
  /\ peers = <<>> /\ request = <<>> /\ result = <<>>
  /\ stored = {}
  /\ outcome = Pending
-----------------------------------------------------------------------------
(***************************************************************************)
(* The table may know no suitable peer: the sequence is then empty.  All   *)
(* addresses are parsed before the first request leaves, for the futures   *)
(* do nothing until join_all() polls them: one address that does not parse *)
(* panics the caller in parse().unwrap() and nothing is sent to anyone.    *)
(***************************************************************************)
NearestPeers(s) ==
  /\ pc = "nearest_peers"
  /\ \/ /\ \E i \in DOMAIN s : s[i] \in Unparseable
        /\ pc' = "panicked"
        /\ UNCHANGED <<peers, request, result>>
     \/ /\ \A i \in DOMAIN s : s[i] \notin Unparseable
        /\ peers'   = s
        /\ request' = [i \in DOMAIN s |-> "sent"]
        /\ result'  = [i \in DOMAIN s |-> Waiting]
        /\ pc' = "join_all"
  /\ UNCHANGED <<stored, outcome>>

\* store_async at the peer: MemoryStore::put always succeeds, the reply is OK.
PeerStores(i) ==
  /\ request[i] = "sent"
  /\ request' = [request EXCEPT ![i] = "OK"]
  /\ stored' = stored \cup {peers[i]}
  /\ UNCHANGED <<pc, peers, result, outcome>>

\* The peer answers with an error code and stores nothing: BAD_REQUEST from
\* validate_request(), INTERNAL_ERROR from a key-value store that fails.
PeerRefuses(i, code) ==
  /\ request[i] = "sent"
  /\ request' = [request EXCEPT ![i] = code]
  /\ UNCHANGED <<pc, peers, result, stored, outcome>>

\* validate_store_result() of a reply: its error code is the verdict.
ReplyArrives(i) ==
  /\ result[i] = Waiting /\ request[i] \in ErrorCode
  /\ result' = [result EXCEPT ![i] = request[i]]
  /\ UNCHANGED <<pc, peers, request, stored, outcome>>

\* The connection is refused: the request never reaches the peer.
ConnectFails(i) ==
  /\ result[i] = Waiting /\ request[i] = "sent"
  /\ request' = [request EXCEPT ![i] = "lost"]
  /\ result' = [result EXCEPT ![i] = "INTERNAL_ERROR"]
  /\ UNCHANGED <<pc, peers, stored, outcome>>

\* The deadline passes or the connection breaks; the peer may act later.
RpcFails(i) ==
  /\ result[i] = Waiting
  /\ result' = [result EXCEPT ![i] = "INTERNAL_ERROR"]
  /\ UNCHANGED <<pc, peers, request, stored, outcome>>

Failures == {i \in DOMAIN result : result[i] # "OK"}

last_error == IF Failures = {} THEN "OK" ELSE result[Max(Failures)]

\* Mutant: does not wait for the results.
ReadyAtOnce == TRUE

\* Mutant: waits for successes only.
ReadyOnSuccess == \A i \in DOMAIN result : result[i] = "OK"

\* join_all() is ready when all of its futures are.
Ready == \A i \in DOMAIN result : result[i] # Waiting

\* Mutant: reports success when all requests failed.
MoreThanAllFailed == Cardinality(Failures) > Len(peers)

\* Mutant: one failure fails the call.
AnyFailed == Failures # {}

\* failures == num_reqs, which also holds when there were no requests
AllFailed == Cardinality(Failures) = Len(peers)

Return ==
  /\ pc = "join_all" /\ Ready
  /\ outcome' = IF AllFailed THEN Err(last_error) ELSE Ok
  /\ pc' = "done"
  /\ UNCHANGED <<peers, request, result, stored>>
-----------------------------------------------------------------------------
\* The sequences of distinct peers that nearest_peers() can yield.
Answers == {s \in BoundedSeq(Peers, K) : IsInjective(s)}

Rpc(i) ==
  \/ ReplyArrives(i)
  \/ ConnectFails(i)
  \/ RpcFails(i)

Next ==
  \/ \E s \in Answers : NearestPeers(s)
  \/ \E i \in DOMAIN peers :
       \/ PeerStores(i)
       \/ \E code \in {"INTERNAL_ERROR", "BAD_REQUEST"} : PeerRefuses(i, code)
       \/ Rpc(i)
  \/ Return

(***************************************************************************)
(* The caller is polled when it is ready and each RPC future ends, at the  *)
(* latest with its deadline.  Peers need not act.                          *)
(***************************************************************************)
Fairness ==
  /\ WF_vars(\E s \in Answers : NearestPeers(s))
  /\ WF_vars(Return)
  /\ \A i \in 1..K : WF_vars(i \in DOMAIN peers /\ Rpc(i))

Spec == Init /\ [][Next]_vars /\ Fairness
-----------------------------------------------------------------------------
\* Type invariant.
TypeOK ==
  /\ pc \in {"nearest_peers", "join_all", "done", "panicked"}
  /\ peers \in Answers
  /\ request \in [DOMAIN peers -> ErrorCode \cup {"sent", "lost"}]
  /\ result \in [DOMAIN peers -> ErrorCode \cup {Waiting}]
  /\ stored \in SUBSET ToSet(peers)
  /\ outcome \in {Pending, Ok} \cup {Err(c) : c \in ErrorCode}

(***************************************************************************)
(* put() never reports success for a value that nobody stored: Ok means    *)
(* at least one of the peers put it into its key-value store, whichever    *)
(* replies were lost.                                                      *)
(***************************************************************************)
OkMeansStored == outcome = Ok => stored # {}

(***************************************************************************)
(* "Returns an 'RPCError' if all the stores issued fail", and only then: a *)
(* store that was confirmed to the caller in time makes the call succeed,  *)
(* however many of the others failed and in whatever order they ended.     *)
(***************************************************************************)
ConfirmedMeansOk ==
  pc = "done" => (outcome = Ok <=> \E i \in DOMAIN result : result[i] = "OK")

(***************************************************************************)
(* Every put ends, whatever the peers do: it returns a verdict, or panics  *)
(* because the table holds an address that does not parse.                 *)
(***************************************************************************)
PutEnds == <>(pc \in {"done", "panicked"})
=============================================================================
