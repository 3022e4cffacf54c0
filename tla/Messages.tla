------------------------------ MODULE Messages ------------------------------
(***************************************************************************)
(* The messages of the DHT: how requests and responses are built, checked  *)
(* and read (src/src/messages/util.rs, the conversions of keyutil.rs).     *)
(* Identifiers travel as big-endian bytes, addresses as UTF-8 text that    *)
(* stays opaque here.  One server answers the calls of its clients, one    *)
(* after the other; DHTServer has the concurrency of the handlers.  The    *)
(* clients are nodes that run this code, and other programs, which may     *)
(* send any message.  field_type is left out: no handler reads it.         *)
(***************************************************************************)
EXTENDS KeyUtil, Sequences, SequencesExt

CONSTANTS
  K,          \* how many peers an answer names at most
  Nodes,      \* the peers that run this code: records [id, address]
  Values,     \* the values stored, among them
  Empty,      \* the empty byte vector
  Addresses,  \* what an address may be: text, not empty
  NoAddress,  \* an address that is empty or no text
  None,       \* no value, no message
  Keys,       \* the identifiers looked up
  Others      \* messages that another program sends to the server

Octets == W \div 8

ASSUME OctetsAssumption == W = 8 * Octets /\ Octets > 0

ASSUME NodesAssumption ==
  /\ K \in Nat
  /\ Keys \subseteq Id /\ Empty \in Values
  /\ None \notin Values /\ None \notin Nodes /\ None \notin Keys
  /\ Nodes \subseteq [id : Id, address : Addresses] /\ NoAddress \notin Addresses

VARIABLES
  call,        \* the call a client makes: [kind, caller, key, value]
  stage,       \* "idle", "sent", "replied", "panicked" (the handler)
  message,     \* the message on the wire, or None
  introduced,  \* the peers that update_routing_table() was called with
  kvstore,     \* MemoryStore: a value for each key, which is a byte vector
  outcome,     \* what the client reads from the response
  puts         \* history: the value last stored under each key, or None

vars == <<call, stage, message, introduced, kvstore, outcome, puts>>

Byte  == [1..8 -> BOOLEAN]
Bytes == Seq(Byte)

\* routing::message::Peer and routing::Message; myself is optional.
ProtoPeer == [id : Bytes, addrs : Addresses \cup {NoAddress}]
Message   == [key : Bytes, value : Values, closerPeers : Seq(ProtoPeer),
              myself : Seq(ProtoPeer), code : {"OK", "BAD_REQUEST"}]

\* Mutant: to_le_bytes().
key_to_bytesLittle(k) == [i \in 1..Octets |-> [j \in 1..8 |-> k[8 * (Octets - i) + j]]]

\* Mutant: casts to a type of half the width first.
key_to_bytesHalf(k) ==
  [i \in 1..Octets |-> [j \in 1..8 |-> 2 * i > Octets /\ k[8 * (i - 1) + j]]]

\* Mutant: drops leading zero bytes.
key_to_bytesShort(k) ==
  SelectSeq([i \in 1..Octets |-> [j \in 1..8 |-> k[8 * (i - 1) + j]]],
            LAMBDA byte : \E j \in 1..8 : byte[j])

\* u128::to_be_bytes
key_to_bytes(k) == [i \in 1..Octets |-> [j \in 1..8 |-> k[8 * (i - 1) + j]]]

\* k[0..16] panics when there are fewer bytes.
Readable(bytes) == Len(bytes) >= Octets

\* u128::from_be_bytes, of the first bytes
key_from_bytes(bytes) == [x \in 1..W |-> bytes[((x - 1) \div 8) + 1][((x - 1) % 8) + 1]]

proto_peer_from_peer(p) == [id |-> key_to_bytes(p.id), addrs |-> p.address]
proto_peer_to_peer(mp) == [id |-> key_from_bytes(mp.id), address |-> mp.addrs]

\* Message::new()
NewMessage ==
  [key |-> <<>>, value |-> Empty, closerPeers |-> <<>>, myself |-> <<>>, code |-> "OK"]

create_ping_request(p) == [NewMessage EXCEPT !.myself = <<proto_peer_from_peer(p)>>]

\* create_find_node_request() and create_find_value_request()
create_find_request(k, p) == [create_ping_request(p) EXCEPT !.key = key_to_bytes(k)]

create_store_request(p, k, v) == [create_find_request(k, p) EXCEPT !.value = v]

create_request(c) ==
  CASE c.kind = "store" -> create_store_request(c.caller, c.key, c.value)
    [] c.kind = "ping"  -> create_ping_request(c.caller)
    [] OTHER            -> create_find_request(c.key, c.caller)

validate_request(m) ==
  m.myself # <<>> /\ m.myself[1].id # <<>> /\ m.myself[1].addrs # NoAddress

\* Nothing is assumed of what another program sends.
ASSUME OthersAssumption == Others \subseteq Message

create_invalid_response == [NewMessage EXCEPT !.code = "BAD_REQUEST"]

\* Mutant: swaps key and value.
create_find_value_responseSwapped(k, v) == [NewMessage EXCEPT !.key = v, !.value = k]

create_find_value_response(k, v) == [NewMessage EXCEPT !.key = k, !.value = v]

create_find_node_response(ps) ==
  [NewMessage EXCEPT !.closerPeers = [i \in DOMAIN ps |-> proto_peer_from_peer(ps[i])]]

\* The responses to a ping and to a store, which cannot fail.
create_ok_response == NewMessage

\* MemoryStore
put(k, v) == [b \in DOMAIN kvstore \cup {k} |-> IF b = k THEN v ELSE kvstore[b]]

Pending == [code |-> "none", value |-> Empty, peers |-> <<>>]
Idle    == [kind |-> "none", caller |-> None, key |-> None, value |-> Empty]

Init ==
  /\ call = Idle /\ stage = "idle" /\ message = None
  /\ introduced = {} /\ kvstore = <<>> /\ outcome = Pending
  /\ puts = [k \in Keys |-> None]
-----------------------------------------------------------------------------
Send(c, m) ==
  /\ stage = "idle"
  /\ call' = c /\ message' = m /\ stage' = "sent" /\ outcome' = Pending
  /\ UNCHANGED <<introduced, kvstore, puts>>

Ask(kind, n, k, v) ==
  LET c == [kind |-> kind, caller |-> n, key |-> k, value |-> v]
  IN  Send(c, create_request(c))

\* Another program calls, with or without a peer, an identifier or a key that
\* can be read.
OtherAsks(kind, m) == Send([Idle EXCEPT !.kind = kind, !.value = m.value], m)

Respond(m) == stage' = "replied" /\ message' = m /\ UNCHANGED <<call, outcome>>

\* The task of the handler ends; its guard is dropped and the client sees an
\* error when the deadline passes.
Panic == stage' = "panicked" /\ message' = None /\ UNCHANGED <<call, outcome, kvstore, puts>>

Refuse ==
  /\ stage = "sent" /\ ~validate_request(message)
  /\ Respond(create_invalid_response)
  /\ UNCHANGED <<introduced, kvstore, puts>>

\* proto_peer_to_peer() panics before the table is updated.
PanicOnPeer ==
  /\ stage = "sent" /\ validate_request(message) /\ ~Readable(message.myself[1].id)
  /\ Panic /\ UNCHANGED introduced

\* update_routing_table()
Introduce ==
  /\ stage = "sent" /\ validate_request(message) /\ Readable(message.myself[1].id)
  /\ introduced' = introduced \cup {proto_peer_to_peer(message.myself[1])}

ping ==
  /\ call.kind = "ping" /\ Introduce
  /\ Respond(create_ok_response)
  /\ UNCHANGED <<kvstore, puts>>

\* What was meant to be stored under k: by a node the key of its call, by
\* another program the key whose bytes it sent.
Meant(k) == IF call.caller = None THEN message.key = key_to_bytes(k) ELSE k = call.key

store ==
  /\ call.kind = "store" /\ Introduce
  /\ Respond(create_ok_response)
  /\ kvstore' = put(message.key, message.value)
  /\ puts' = [k \in Keys |-> IF Meant(k) THEN call.value ELSE puts[k]]

Hit == call.kind = "find_value" /\ message.key \in DOMAIN kvstore

\* find_value_async with a value
find_value ==
  /\ Introduce /\ Hit
  /\ Respond(create_find_value_response(message.key, kvstore[message.key]))
  /\ UNCHANGED <<kvstore, puts>>

\* find_node_async, also on behalf of find_value_async: the key is only read
\* here.  Any peers may be the nearest ones.
find_node ==
  /\ Introduce /\ call.kind \in {"find_node", "find_value"} /\ ~Hit
  /\ \/ /\ Readable(message.key)
        /\ \E ps \in BoundedSeq(introduced', K) : Respond(create_find_node_response(ps))
        /\ UNCHANGED <<kvstore, puts>>
     \/ ~Readable(message.key) /\ Panic

\* The client reads the response.  Only store looks at the code; the others
\* take any message for an answer.
Read ==
  /\ stage = "replied" /\ call.caller # None
  /\ outcome' = [code  |-> IF call.kind = "store" THEN message.code ELSE "OK",
                 value |-> message.value,
                 peers |-> [i \in DOMAIN message.closerPeers |->
                              proto_peer_to_peer(message.closerPeers[i])]]
  /\ stage' = "idle" /\ message' = None
  /\ UNCHANGED <<call, introduced, kvstore, puts>>

\* A call of another program is over, or one whose deadline has passed.
Forget ==
  /\ stage = "panicked" \/ (stage = "replied" /\ call.caller = None)
  /\ stage' = "idle" /\ call' = Idle /\ message' = None
  /\ UNCHANGED <<introduced, kvstore, outcome, puts>>
-----------------------------------------------------------------------------
Kinds == {"store", "find_node", "find_value", "ping"}

Next ==
  \/ \E n \in Nodes, k \in Keys :
       \/ \E v \in Values : Ask("store", n, k, v)
       \/ \E kind \in Kinds \ {"store"} : Ask(kind, n, k, Empty)
  \/ \E kind \in Kinds, m \in Others : OtherAsks(kind, m)
  \/ Refuse \/ PanicOnPeer \/ ping \/ store \/ find_value \/ find_node
  \/ Read \/ Forget

Spec == Init /\ [][Next]_vars
-----------------------------------------------------------------------------
\* Type invariant: client and server put into each field what belongs there.
TypeOK ==
  /\ call \in [kind : Kinds \cup {"none"}, caller : Nodes \cup {None},
              key : Keys \cup {None}, value : Values]
  /\ stage \in {"idle", "sent", "replied", "panicked"}
  /\ message \in Message \cup {None} /\ (stage \in {"sent", "replied"} => message \in Message)
  /\ introduced \in SUBSET [id : Id, address : Addresses]
  /\ DOMAIN kvstore \subseteq Bytes /\ \A b \in DOMAIN kvstore : kvstore[b] \in Values
  /\ outcome \in [code : {"none", "OK", "BAD_REQUEST"}, value : Values,
                 peers : Seq([id : Id, address : Addresses])]
  /\ puts \in [Keys -> Values \cup {None}]

(***************************************************************************)
(* A request that this code builds is always served: it passes             *)
(* validate_request() and no conversion panics.  find_node, ping and       *)
(* find_value rely on it, because they take BAD_REQUEST for an answer.     *)
(***************************************************************************)
OwnRequestsServed ==
  call.caller # None =>
    stage # "panicked" /\ (stage = "replied" => message.code # "BAD_REQUEST")

\* The first bytes of mp's identifier are those of p's.
Names(mp, p) ==
  /\ mp.addrs = p.address /\ Readable(mp.id)
  /\ \A i \in 1..Octets : mp.id[i] = key_to_bytes(p.id)[i]

(***************************************************************************)
(* Peers survive the way over the wire.  The server records a node that    *)
(* asks as that node; besides nodes it records only what another program   *)
(* said of its own sender, with the identifier cut to its first bytes and  *)
(* any address; and a client learns exactly peers that were recorded.      *)
(***************************************************************************)
PeersIntact ==
  /\ call.caller # None /\ stage = "replied" => call.caller \in introduced
  /\ \A p \in introduced :
       p \in Nodes \/ \E m \in Others : m.myself # <<>> /\ Names(m.myself[1], p)
  /\ outcome.peers \in Seq(introduced)

(***************************************************************************)
(* The bytes of a key identify it: a find_value is answered with the value *)
(* last stored under its own key, and with none if there is none, however  *)
(* many stores under other keys came between, and stores of other programs *)
(* under longer keys that begin with the same bytes.                       *)
(***************************************************************************)
ReadsWhatWasPut ==
  call.kind = "find_value" /\ call.caller # None /\ stage = "replied" =>
    message.value = IF puts[call.key] = None THEN Empty ELSE puts[call.key]
=============================================================================
