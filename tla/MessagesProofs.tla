--------------------------- MODULE MessagesProofs ---------------------------
(***************************************************************************)
(* What the messages of the DHT preserve, for identifiers of any number of *)
(* bytes.  All rests on the round trip of keys through their bytes.        *)
(***************************************************************************)
EXTENDS Messages, TLAPS

\* The bytes of an identifier are Octets bytes.
LEMMA KeyBytes ==
  ASSUME NEW k \in Id
  PROVE  /\ key_to_bytes(k) \in Bytes /\ Len(key_to_bytes(k)) = Octets
         /\ Readable(key_to_bytes(k)) /\ key_to_bytes(k) # <<>>
<1> Octets \in Nat /\ Octets > 0 /\ W = 8 * Octets
  BY OctetsAssumption, WAssumption DEF Octets
<1> DEFINE byte(i) == [j \in 1..8 |-> k[8 * (i - 1) + j]]
<1>1. ASSUME NEW i \in 1..Octets PROVE byte(i) \in Byte
  <2>1. \A j \in 1..8 : 8 * (i - 1) + j \in 1..W  OBVIOUS
  <2> QED BY <2>1 DEF Id, Byte
<1> HIDE DEF byte
<1>2. key_to_bytes(k) = [i \in 1..Octets |-> byte(i)]  BY DEF key_to_bytes, byte
<1>3. key_to_bytes(k) \in [1..Octets -> Byte]  BY <1>1, <1>2
<1> QED BY <1>3 DEF Bytes, Readable

\* Reading the bytes of an identifier yields the identifier.
LEMMA KeyRoundTrip ==
  ASSUME NEW k \in Id
  PROVE  key_from_bytes(key_to_bytes(k)) = k
<1> Octets \in Nat /\ W = 8 * Octets
  BY OctetsAssumption, WAssumption DEF Octets
<1>1. ASSUME NEW x \in 1..W
      PROVE  key_to_bytes(k)[((x - 1) \div 8) + 1][((x - 1) % 8) + 1] = k[x]
  <2> DEFINE i == ((x - 1) \div 8) + 1
             j == ((x - 1) % 8) + 1
  <2>1. i \in 1..Octets /\ j \in 1..8 /\ 8 * (i - 1) + j = x  OBVIOUS
  <2> HIDE DEF i, j
  <2>2. key_to_bytes(k)[i][j] = k[8 * (i - 1) + j]  BY <2>1 DEF key_to_bytes
  <2> QED BY <2>1, <2>2 DEF i, j
<1>2. key_from_bytes(key_to_bytes(k)) = [x \in 1..W |-> k[x]]
  BY <1>1 DEF key_from_bytes
<1> QED BY <1>2 DEF Id

\* Different keys have different bytes.
LEMMA KeyBytesInjective ==
  ASSUME NEW k \in Id, NEW l \in Id, key_to_bytes(k) = key_to_bytes(l)
  PROVE  k = l
BY KeyRoundTrip

\* Bytes that are read as an identifier begin with the bytes of that identifier.
LEMMA BytesRoundTrip ==
  ASSUME NEW b \in Bytes, Readable(b)
  PROVE  /\ key_from_bytes(b) \in Id
         /\ \A i \in 1..Octets : key_to_bytes(key_from_bytes(b))[i] = b[i]
<1> Octets \in Nat /\ Octets > 0 /\ W = 8 * Octets
  BY OctetsAssumption, WAssumption DEF Octets
<1> DEFINE k == key_from_bytes(b)
<1>1. \A i \in 1..Octets : b[i] \in Byte  BY DEF Bytes, Readable
<1>2. ASSUME NEW x \in 1..W
      PROVE  k[x] = b[((x - 1) \div 8) + 1][((x - 1) % 8) + 1] /\ k[x] \in BOOLEAN
  <2> DEFINE i == ((x - 1) \div 8) + 1
             j == ((x - 1) % 8) + 1
  <2>1. i \in 1..Octets /\ j \in 1..8  OBVIOUS
  <2>2. k[x] = b[i][j]  BY DEF key_from_bytes
  <2> HIDE DEF i, j, k
  <2>3. b[i][j] \in BOOLEAN  BY <1>1, <2>1 DEF Byte
  <2> QED BY <2>2, <2>3 DEF i, j
<1>3. DOMAIN k = 1..W  BY DEF key_from_bytes
<1>4. k = [x \in 1..W |-> k[x]]  BY DEF key_from_bytes
<1> HIDE DEF k
<1>5. k \in Id  BY <1>2, <1>4 DEF Id
<1>6. ASSUME NEW i \in 1..Octets PROVE key_to_bytes(k)[i] = b[i]
  <2>1. key_to_bytes(k)[i] = [j \in 1..8 |-> k[8 * (i - 1) + j]]  BY DEF key_to_bytes
  <2>2. ASSUME NEW j \in 1..8 PROVE k[8 * (i - 1) + j] = b[i][j]
    <3> DEFINE x == 8 * (i - 1) + j
    <3>1. x \in 1..W /\ ((x - 1) \div 8) + 1 = i /\ ((x - 1) % 8) + 1 = j  OBVIOUS
    <3> HIDE DEF x
    <3>2. k[x] = b[i][j]  BY <1>2, <3>1
    <3> QED BY <3>2 DEF x
  <2>3. b[i] = [j \in 1..8 |-> b[i][j]]  BY <1>1 DEF Byte
  <2> QED BY <2>1, <2>2, <2>3
<1> QED BY <1>5, <1>6 DEF k

\* A peer survives the conversion to a message and back.
LEMMA PeerRoundTrip ==
  ASSUME NEW n \in [id : Id, address : Addresses]
  PROVE  /\ proto_peer_from_peer(n) \in ProtoPeer
         /\ proto_peer_from_peer(n).id = key_to_bytes(n.id)
         /\ proto_peer_to_peer(proto_peer_from_peer(n)) = n
<1>1. proto_peer_from_peer(n) = [id |-> key_to_bytes(n.id), addrs |-> n.address]
  BY DEF proto_peer_from_peer
<1>2. proto_peer_to_peer(proto_peer_from_peer(n)) = [id |-> n.id, address |-> n.address]
  BY <1>1, KeyRoundTrip DEF proto_peer_to_peer
<1> QED BY <1>1, <1>2, KeyBytes DEF ProtoPeer

\* What a valid request that can be read says of its sender: a peer with some
\* identifier that its bytes begin with.
LEMMA Sender ==
  ASSUME NEW m \in Message, validate_request(m), Readable(m.myself[1].id)
  PROVE  /\ proto_peer_to_peer(m.myself[1]) \in [id : Id, address : Addresses]
         /\ m.myself # <<>> /\ Names(m.myself[1], proto_peer_to_peer(m.myself[1]))
<1> DEFINE mp == m.myself[1]
           p  == proto_peer_to_peer(mp)
<1>1. m.myself # <<>> /\ mp \in ProtoPeer /\ mp.addrs # NoAddress
  BY DEF validate_request, Message
<1>2. mp.id \in Bytes /\ mp.addrs \in Addresses /\ Readable(mp.id)
  BY <1>1 DEF ProtoPeer
<1> HIDE DEF mp
<1>3. p = [id |-> key_from_bytes(mp.id), address |-> mp.addrs]
  BY DEF proto_peer_to_peer
<1>4. p \in [id : Id, address : Addresses]  BY <1>2, <1>3, BytesRoundTrip
<1>5. Names(mp, p)  BY <1>2, <1>3, BytesRoundTrip DEF Names
<1> QED BY <1>1, <1>4, <1>5 DEF mp

\* The fields of the requests that this code builds.
LEMMA RequestFields ==
  ASSUME NEW n \in Nodes, NEW k \in Keys, NEW v \in Values, NEW kind \in Kinds,
         NEW c, c = [kind |-> kind, caller |-> n, key |-> k, value |-> v]
  PROVE  /\ create_request(c) \in Message
         /\ create_request(c).myself = <<proto_peer_from_peer(n)>>
         /\ kind # "ping" => create_request(c).key = key_to_bytes(k)
         /\ kind = "store" => create_request(c).value = v
<1> DEFINE p == proto_peer_from_peer(n)
<1>1. p \in ProtoPeer  BY PeerRoundTrip, NodesAssumption
<1>2. key_to_bytes(k) \in Bytes  BY KeyBytes, NodesAssumption
<1> HIDE DEF p
<1>3. create_ping_request(n) = [key |-> <<>>, value |-> Empty, closerPeers |-> <<>>,
                                myself |-> <<p>>, code |-> "OK"]
  BY DEF create_ping_request, NewMessage, p
<1>4. create_find_request(k, n) = [key |-> key_to_bytes(k), value |-> Empty,
                        closerPeers |-> <<>>, myself |-> <<p>>, code |-> "OK"]
  BY <1>3 DEF create_find_request
<1>5. create_store_request(n, k, v) = [key |-> key_to_bytes(k), value |-> v,
                        closerPeers |-> <<>>, myself |-> <<p>>, code |-> "OK"]
  BY <1>4 DEF create_store_request
<1>6. <<p>> \in Seq(ProtoPeer) /\ <<>> \in Seq(ProtoPeer) /\ <<>> \in Bytes /\ Empty \in Values
  BY <1>1, NodesAssumption DEF Bytes
<1>7. create_request(c) = IF kind = "store" THEN create_store_request(n, k, v)
                          ELSE IF kind = "ping" THEN create_ping_request(n)
                          ELSE create_find_request(k, n)
  BY DEF create_request
<1>8. /\ create_ping_request(n) \in Message
      /\ create_find_request(k, n) \in Message
      /\ create_store_request(n, k, v) \in Message
  BY <1>2, <1>3, <1>4, <1>5, <1>6 DEF Message
<1>9. create_request(c) \in Message  BY <1>7, <1>8
<1>10. create_request(c).myself = <<p>>  BY <1>3, <1>4, <1>5, <1>7
<1>11. /\ kind # "ping" => create_request(c).key = key_to_bytes(k)
       /\ kind = "store" => create_request(c).value = v
  BY <1>4, <1>5, <1>7
<1> QED BY <1>9, <1>10, <1>11 DEF p

-----------------------------------------------------------------------------
(***************************************************************************)
(* The inductive invariant: what is on the wire comes from this code or    *)
(* from Others, and the key-value store holds exactly what was put.        *)
(***************************************************************************)
Own == call.caller # None

OnTheWay ==
  stage = "sent" =>
    \/ /\ call \in [kind : Kinds, caller : Nodes, key : Keys, value : Values]
       /\ message = create_request(call)
    \/ call.caller = None /\ call.value = message.value /\ message \in Others

OnTheWayBack ==
  stage = "replied" =>
    /\ Own => message.code = "OK"
    /\ \E ps \in Seq(introduced) :
         message.closerPeers = [i \in DOMAIN ps |-> proto_peer_from_peer(ps[i])]

HoldsPuts ==
  \A k \in Keys : puts[k] = IF key_to_bytes(k) \in DOMAIN kvstore
                            THEN kvstore[key_to_bytes(k)] ELSE None

IInv ==
  /\ TypeOK /\ PeersIntact /\ OnTheWay /\ OnTheWayBack /\ HoldsPuts
  /\ (Own => stage # "panicked") /\ ReadsWhatWasPut

\* The part of PeersIntact about the peers the server records.
Recorded(S) ==
  \A p \in S : p \in Nodes \/ \E m \in Others : m.myself # <<>> /\ Names(m.myself[1], p)

LEMMA Initial == Init => IInv
<1> SUFFICES ASSUME Init PROVE IInv  OBVIOUS
<1> USE NodesAssumption DEF Init, Idle, Pending
<1>1. TypeOK
  <2>1. DOMAIN kvstore = {}  OBVIOUS
  <2> QED BY <2>1 DEF TypeOK
<1>2. PeersIntact /\ OnTheWay /\ OnTheWayBack /\ (Own => stage # "panicked") /\ ReadsWhatWasPut
  BY DEF PeersIntact, OnTheWay, OnTheWayBack, ReadsWhatWasPut, Own
<1>3. HoldsPuts
  <2>1. DOMAIN kvstore = {}  OBVIOUS
  <2> QED BY <2>1 DEF HoldsPuts
<1> QED BY <1>1, <1>2, <1>3 DEF IInv

\* What the client sends, on its own behalf or for another program.
LEMMA SendStep ==
  ASSUME IInv, NEW c, NEW m, Send(c, m),
         \/ /\ c \in [kind : Kinds, caller : Nodes, key : Keys, value : Values]
            /\ m = create_request(c) /\ m \in Message
         \/ /\ c \in [kind : Kinds, caller : {None}, key : {None}, value : Values]
            /\ c.value = m.value /\ m \in Others
  PROVE  IInv'
<1> USE DEF Send
<1>1. m \in Message  BY OthersAssumption
<1>2. c \in [kind : Kinds \cup {"none"}, caller : Nodes \cup {None},
             key : Keys \cup {None}, value : Values]
  OBVIOUS
<1>3. TypeOK'
  BY <1>1, <1>2, NodesAssumption DEF IInv, TypeOK, Pending
<1>4. PeersIntact'  BY DEF IInv, PeersIntact, Pending
<1>5. OnTheWay' /\ OnTheWayBack'  BY DEF OnTheWay, OnTheWayBack
<1>6. HoldsPuts'  BY DEF IInv, HoldsPuts
<1>7. (Own => stage # "panicked")' /\ ReadsWhatWasPut'  BY DEF ReadsWhatWasPut
<1> QED BY <1>3, <1>4, <1>5, <1>6, <1>7 DEF IInv

\* Where the handlers start: the peer that asks is recorded, and what is asked is
\* what this code sends, or a message of another program.
LEMMA Introduction ==
  ASSUME IInv, Introduce
  PROVE  /\ stage = "sent" /\ message \in Message
         /\ introduced \subseteq introduced' /\ Recorded(introduced')
         /\ introduced' \in SUBSET [id : Id, address : Addresses]
         /\ Own => call.caller \in introduced'
         /\ \/ /\ Own /\ call.key \in Keys /\ call.value \in Values /\ call.kind \in Kinds
               /\ call.kind # "ping" => message.key = key_to_bytes(call.key)
               /\ call.kind = "store" => message.value = call.value
            \/ ~Own /\ call.value = message.value
<1>1. stage = "sent" /\ message \in Message
  BY DEF Introduce, IInv, TypeOK
<1> DEFINE p == proto_peer_to_peer(message.myself[1])
<1>2. introduced' = introduced \cup {p}  BY DEF Introduce
<1>3. /\ p \in [id : Id, address : Addresses]
      /\ message.myself # <<>> /\ Names(message.myself[1], p)
  BY <1>1, Sender DEF Introduce
<1>4. introduced' \in SUBSET [id : Id, address : Addresses]
  BY <1>2, <1>3 DEF IInv, TypeOK
<1>5. Recorded(introduced)  BY DEF IInv, PeersIntact, Recorded
<1>6. CASE /\ call \in [kind : Kinds, caller : Nodes, key : Keys, value : Values]
           /\ message = create_request(call)
  <2>1. PICK n \in Nodes, k \in Keys, v \in Values, kind \in Kinds :
          call = [kind |-> kind, caller |-> n, key |-> k, value |-> v]
    BY <1>6
  <2>2. /\ message.myself = <<proto_peer_from_peer(n)>>
        /\ kind # "ping" => message.key = key_to_bytes(k)
        /\ kind = "store" => message.value = v
    BY <1>6, <2>1, RequestFields
  <2>3. p = n  BY <2>2, PeerRoundTrip, NodesAssumption
  <2>4. Own  BY <2>1, NodesAssumption DEF Own
  <2>5. Recorded(introduced') /\ call.caller \in introduced'
    BY <1>2, <1>5, <2>1, <2>3 DEF Recorded
  <2> HIDE DEF p
  <2> QED BY <1>1, <1>2, <1>4, <2>1, <2>2, <2>4, <2>5
<1>7. CASE call.caller = None /\ call.value = message.value /\ message \in Others
  <2> HIDE DEF p
  <2>1. Recorded(introduced')  BY <1>7, <1>2, <1>3, <1>5 DEF Recorded
  <2> QED BY <1>1, <1>7, <1>2, <1>4, <2>1 DEF Own
<1> QED BY <1>1, <1>6, <1>7 DEF IInv, OnTheWay

\* A handler that answers a node preserves what does not concern its effects.
LEMMA Answered ==
  ASSUME IInv, Introduce, NEW m \in Message, Respond(m), m.code = "OK",
         \E ps \in Seq(introduced') :
           m.closerPeers = [i \in DOMAIN ps |-> proto_peer_from_peer(ps[i])]
  PROVE  /\ call' \in [kind : Kinds \cup {"none"}, caller : Nodes \cup {None},
                       key : Keys \cup {None}, value : Values]
         /\ stage' = "replied" /\ message' \in Message
         /\ introduced' \in SUBSET [id : Id, address : Addresses]
         /\ outcome' \in [code : {"none", "OK", "BAD_REQUEST"}, value : Values,
                          peers : Seq([id : Id, address : Addresses])]
         /\ PeersIntact' /\ OnTheWay' /\ OnTheWayBack' /\ (Own => stage # "panicked")'
<1>1. introduced \subseteq introduced' /\ Recorded(introduced')
      /\ (Own => call.caller \in introduced')
  BY Introduction
<1>2. introduced' \in SUBSET [id : Id, address : Addresses]  BY Introduction
<1>3. PeersIntact'
  <2>1. outcome.peers \in Seq(introduced)  BY DEF IInv, PeersIntact
  <2>2. outcome.peers \in Seq(introduced')  BY <1>1, <2>1
  <2> QED BY <1>1, <2>2 DEF PeersIntact, Respond, Own, Recorded
<1>4. OnTheWay' /\ OnTheWayBack' /\ (Own => stage # "panicked")'
  BY DEF Respond, OnTheWay, OnTheWayBack
<1> QED BY <1>2, <1>3, <1>4 DEF Respond, IInv, TypeOK

\* The empty answer names no peers, whatever the server knows.
LEMMA NoPeers ==
  ASSUME NEW S
  PROVE  \E ps \in Seq(S) : <<>> = [i \in DOMAIN ps |-> proto_peer_from_peer(ps[i])]
<1>1. <<>> \in Seq(S) /\ DOMAIN <<>> = {}  OBVIOUS
<1> WITNESS <<>> \in Seq(S)
<1> QED BY <1>1
LEMMA EmptyAnswer ==
  /\ NewMessage \in Message /\ NewMessage.code = "OK"
  /\ NewMessage.closerPeers = <<>> /\ NewMessage.value = Empty
<1>1. <<>> \in Seq(ProtoPeer) /\ <<>> \in Bytes /\ Empty \in Values
  BY NodesAssumption DEF Bytes
<1>2. NewMessage = [key |-> <<>>, value |-> Empty, closerPeers |-> <<>>,
                    myself |-> <<>>, code |-> "OK"]
  BY DEF NewMessage
<1> QED BY <1>1, <1>2 DEF Message

LEMMA ValueAnswer ==
  ASSUME NEW k \in Bytes, NEW v \in Values,
         NEW m, m = create_find_value_response(k, v)
  PROVE  m \in Message /\ m.code = "OK" /\ m.closerPeers = <<>> /\ m.value = v
<1>1. <<>> \in Seq(ProtoPeer)
  OBVIOUS
<1>2. m = [key |-> k, value |-> v, closerPeers |-> <<>>, myself |-> <<>>, code |-> "OK"]
  BY DEF create_find_value_response, NewMessage
<1> QED BY <1>1, <1>2 DEF Message

LEMMA PingStep ==
  ASSUME IInv, ping PROVE IInv'
<1> Introduce /\ Respond(NewMessage) /\ UNCHANGED <<kvstore, puts>> /\ call.kind = "ping"
  BY DEF ping, create_ok_response
<1>1. NewMessage \in Message /\ NewMessage.code = "OK" /\ NewMessage.closerPeers = <<>>
  BY EmptyAnswer
<1>2. \E ps \in Seq(introduced') :
        NewMessage.closerPeers = [i \in DOMAIN ps |-> proto_peer_from_peer(ps[i])]
  BY <1>1, NoPeers
<1>3. TypeOK'  BY <1>1, <1>2, Answered DEF IInv, TypeOK
<1>4. HoldsPuts' /\ ReadsWhatWasPut'  BY DEF IInv, HoldsPuts, ReadsWhatWasPut, Respond
<1> QED BY <1>1, <1>2, <1>3, <1>4, Answered DEF IInv

LEMMA StoreStep ==
  ASSUME IInv, store PROVE IInv'
<1> DEFINE k == message.key
           v == message.value
<1> /\ Introduce /\ Respond(NewMessage) /\ call.kind = "store"
    /\ kvstore' = put(k, v)
    /\ puts' = [l \in Keys |-> IF Meant(l) THEN call.value ELSE puts[l]]
  BY DEF store, create_ok_response
<1>1. NewMessage \in Message /\ NewMessage.code = "OK" /\ NewMessage.closerPeers = <<>>
  BY EmptyAnswer
<1>2. \E ps \in Seq(introduced') :
        NewMessage.closerPeers = [i \in DOMAIN ps |-> proto_peer_from_peer(ps[i])]
  BY <1>1, NoPeers
<1>3. k \in Bytes /\ v \in Values  BY Introduction DEF Message
<1>4. /\ DOMAIN kvstore' = DOMAIN kvstore \cup {k}
      /\ \A b \in DOMAIN kvstore' : kvstore'[b] = IF b = k THEN v ELSE kvstore[b]
  BY DEF put
<1>5. DOMAIN kvstore' \subseteq Bytes /\ \A b \in DOMAIN kvstore' : kvstore'[b] \in Values
  BY <1>3, <1>4 DEF IInv, TypeOK
<1>6. puts' \in [Keys -> Values \cup {None}]
  <2>1. call.value \in Values  BY DEF IInv, TypeOK
  <2> QED BY <2>1 DEF IInv, TypeOK
<1>7. TypeOK'  BY <1>1, <1>2, <1>5, <1>6, Answered DEF TypeOK
<1>8. HoldsPuts'
  <2> SUFFICES ASSUME NEW l \in Keys
               PROVE  puts'[l] = IF key_to_bytes(l) \in DOMAIN kvstore'
                                 THEN kvstore'[key_to_bytes(l)] ELSE None
    BY DEF HoldsPuts
  <2>1. l \in Id /\ Readable(key_to_bytes(l))  BY NodesAssumption, KeyBytes
  <2>2. puts[l] = IF key_to_bytes(l) \in DOMAIN kvstore
                  THEN kvstore[key_to_bytes(l)] ELSE None
    BY DEF IInv, HoldsPuts
  <2>3. CASE Own /\ call.key \in Keys /\ k = key_to_bytes(call.key) /\ v = call.value
    <3>1. Meant(l) <=> key_to_bytes(l) = k
      BY <2>1, <2>3, NodesAssumption, KeyBytesInjective DEF Meant, Own
    <3> QED BY <1>4, <2>2, <2>3, <3>1
  <2>4. CASE ~Own /\ v = call.value
    <3>1. Meant(l) <=> key_to_bytes(l) = k  BY <2>4 DEF Meant, Own
    <3> QED BY <1>4, <2>2, <2>4, <3>1
  <2> QED BY <2>3, <2>4, Introduction
<1>9. ReadsWhatWasPut'  BY DEF ReadsWhatWasPut, Respond
<1> QED BY <1>1, <1>2, <1>7, <1>8, <1>9, Answered DEF IInv

LEMMA FindValueStep ==
  ASSUME IInv, find_value PROVE IInv'
<1> DEFINE k == message.key
           m == create_find_value_response(k, kvstore[k])
<1> /\ Introduce /\ Respond(m) /\ UNCHANGED <<kvstore, puts>>
    /\ call.kind = "find_value" /\ k \in DOMAIN kvstore
  BY DEF find_value, Hit
<1>1. k \in Bytes /\ kvstore[k] \in Values  BY Introduction DEF IInv, TypeOK, Message
<1>2. m \in Message /\ m.code = "OK" /\ m.closerPeers = <<>> /\ m.value = kvstore[k]
  BY <1>1, ValueAnswer
<1> HIDE DEF m
<1>3. \E ps \in Seq(introduced') :
        m.closerPeers = [i \in DOMAIN ps |-> proto_peer_from_peer(ps[i])]
  BY <1>2, NoPeers
<1>4. TypeOK'  BY <1>2, <1>3, Answered DEF IInv, TypeOK
<1>5. HoldsPuts'  BY DEF IInv, HoldsPuts
<1>6. ReadsWhatWasPut'
  <2> SUFFICES ASSUME Own
               PROVE  m.value = IF puts[call.key] = None THEN Empty ELSE puts[call.key]
    BY DEF ReadsWhatWasPut, Own, Respond
  <2>1. call.key \in Keys /\ k = key_to_bytes(call.key)  BY Introduction
  <2>2. puts[call.key] = kvstore[k]  BY <2>1 DEF IInv, HoldsPuts
  <2> QED BY <1>1, <1>2, <2>2, NodesAssumption
<1> QED BY <1>2, <1>3, <1>4, <1>5, <1>6, Answered DEF IInv

LEMMA FindNodeStep ==
  ASSUME IInv, find_node PROVE IInv'
<1> Introduce /\ call.kind \in {"find_node", "find_value"} /\ ~Hit
  BY DEF find_node
<1>1. ASSUME NEW ps \in BoundedSeq(introduced', K),
             Respond(create_find_node_response(ps)), UNCHANGED <<kvstore, puts>>
      PROVE  IInv'
  <2> DEFINE m == create_find_node_response(ps)
             named == [i \in DOMAIN ps |-> proto_peer_from_peer(ps[i])]
  <2>1. ps \in Seq(introduced') /\ introduced' \in SUBSET [id : Id, address : Addresses]
    <3>1. PICK n \in 0..K : ps \in [1..n -> introduced']  BY <1>1 DEF BoundedSeq, SeqOf
    <3>2. n \in Nat  BY NodesAssumption
    <3>3. ps \in Seq(introduced')  BY <3>1, <3>2
    <3> QED BY <3>3, Introduction
  <2>2. \A i \in DOMAIN ps : proto_peer_from_peer(ps[i]) \in ProtoPeer
    <3>1. \A i \in DOMAIN ps : ps[i] \in introduced'  BY <2>1
    <3> QED BY <2>1, <3>1, PeerRoundTrip
  <2>3. named \in Seq(ProtoPeer)  BY <2>1, <2>2
  <2>4. m = [key |-> <<>>, value |-> Empty, closerPeers |-> named, myself |-> <<>>, code |-> "OK"]
    BY DEF create_find_node_response, NewMessage
  <2> HIDE DEF named
  <2>5. m \in Message /\ m.code = "OK" /\ m.closerPeers = named /\ m.value = Empty
    BY <2>3, <2>4, NodesAssumption DEF Message, Bytes
  <2> HIDE DEF m
  <2>6. \E qs \in Seq(introduced') :
          m.closerPeers = [i \in DOMAIN qs |-> proto_peer_from_peer(qs[i])]
    BY <2>1, <2>5 DEF named
  <2>7. Respond(m)  BY <1>1 DEF m
  <2>8. TypeOK'  BY <1>1, <2>5, <2>6, <2>7, Answered DEF IInv, TypeOK
  <2>9. HoldsPuts'  BY <1>1 DEF IInv, HoldsPuts
  <2>10. ReadsWhatWasPut'
    <3> SUFFICES ASSUME Own, call.kind = "find_value"
                 PROVE  m.value = IF puts[call.key] = None THEN Empty ELSE puts[call.key]
      BY <1>1, <2>7 DEF ReadsWhatWasPut, Own, Respond
    <3>1. call.key \in Keys /\ message.key = key_to_bytes(call.key)  BY Introduction
    <3>2. puts[call.key] = None  BY <3>1 DEF IInv, HoldsPuts, Hit
    <3> QED BY <2>5, <3>2
  <2> QED BY <2>5, <2>6, <2>7, <2>8, <2>9, <2>10, Answered DEF IInv
<1>2. ASSUME ~Readable(message.key), Panic PROVE IInv'
  <2>1. ~Own
    <3> SUFFICES ASSUME Own PROVE FALSE  OBVIOUS
    <3>1. call.key \in Keys /\ message.key = key_to_bytes(call.key)  BY Introduction
    <3> QED BY <1>2, <3>1, KeyBytes, NodesAssumption
  <2>2. introduced \subseteq introduced' /\ Recorded(introduced')  BY Introduction
  <2>3. introduced' \in SUBSET [id : Id, address : Addresses]  BY Introduction
  <2>4. TypeOK'  BY <1>2, <2>3 DEF IInv, TypeOK, Panic
  <2>5. PeersIntact'
    <3>1. outcome.peers \in Seq(introduced)  BY DEF IInv, PeersIntact
    <3>2. outcome.peers \in Seq(introduced')  BY <2>2, <3>1
    <3> QED BY <1>2, <2>2, <3>2 DEF PeersIntact, Panic, Recorded
  <2>6. OnTheWay' /\ OnTheWayBack' /\ ReadsWhatWasPut' /\ (Own => stage # "panicked")'
    BY <1>2, <2>1 DEF OnTheWay, OnTheWayBack, ReadsWhatWasPut, Own, Panic
  <2>7. HoldsPuts'  BY <1>2 DEF IInv, HoldsPuts, Panic
  <2> QED BY <2>4, <2>5, <2>6, <2>7 DEF IInv
<1> QED BY <1>1, <1>2 DEF find_node
\* A request of this code is valid, and its identifier can be read.
LEMMA OwnValid ==
  ASSUME IInv, stage = "sent", Own
  PROVE  validate_request(message) /\ Readable(message.myself[1].id)
<1>1. PICK n \in Nodes, k \in Keys, v \in Values, kind \in Kinds :
        call = [kind |-> kind, caller |-> n, key |-> k, value |-> v]
  BY DEF IInv, OnTheWay, Own
<1>2. message.myself = <<proto_peer_from_peer(n)>>
  BY <1>1, RequestFields DEF IInv, OnTheWay, Own
<1>3. n.id \in Id /\ n.address # NoAddress /\ proto_peer_from_peer(n).id = key_to_bytes(n.id)
  BY PeerRoundTrip, NodesAssumption
<1>4. proto_peer_from_peer(n).addrs = n.address  BY DEF proto_peer_from_peer
<1> QED BY <1>2, <1>3, <1>4, KeyBytes DEF validate_request

LEMMA RefuseStep ==
  ASSUME IInv, Refuse PROVE IInv'
<1> USE DEF Refuse, Respond
<1>1. ~Own  BY OwnValid
<1>2. create_invalid_response = [key |-> <<>>, value |-> Empty, closerPeers |-> <<>>,
                                 myself |-> <<>>, code |-> "BAD_REQUEST"]
  BY DEF create_invalid_response, NewMessage
<1>3. <<>> \in Seq(ProtoPeer) /\ <<>> \in Bytes /\ Empty \in Values
  BY NodesAssumption DEF Bytes
<1>4. create_invalid_response \in Message /\ create_invalid_response.closerPeers = <<>>
  BY <1>2, <1>3 DEF Message
<1>5. TypeOK'  BY <1>4 DEF IInv, TypeOK
<1>6. OnTheWay' /\ OnTheWayBack'
  BY <1>1, <1>4, NoPeers DEF OnTheWay, OnTheWayBack, Own
<1>7. PeersIntact' /\ HoldsPuts' /\ (Own => stage # "panicked")' /\ ReadsWhatWasPut'
  BY <1>1 DEF IInv, PeersIntact, HoldsPuts, ReadsWhatWasPut, Own
<1> QED BY <1>5, <1>6, <1>7 DEF IInv

LEMMA PanicStep ==
  ASSUME IInv, PanicOnPeer PROVE IInv'
<1> USE DEF PanicOnPeer, Panic
<1>1. ~Own  BY OwnValid
<1>2. TypeOK'  BY DEF IInv, TypeOK
<1>3. PeersIntact' /\ OnTheWay' /\ OnTheWayBack' /\ HoldsPuts'
  BY DEF IInv, PeersIntact, OnTheWay, OnTheWayBack, HoldsPuts
<1>4. (Own => stage # "panicked")' /\ ReadsWhatWasPut'
  BY <1>1 DEF ReadsWhatWasPut, Own
<1> QED BY <1>2, <1>3, <1>4 DEF IInv

LEMMA ReadStep ==
  ASSUME IInv, Read PROVE IInv'
<1> USE DEF Read
<1>1. PICK ps \in Seq(introduced) :
        message.closerPeers = [i \in DOMAIN ps |-> proto_peer_from_peer(ps[i])]
  BY DEF IInv, OnTheWayBack
<1>2. \A i \in DOMAIN ps : ps[i] \in [id : Id, address : Addresses]
  <2>1. \A i \in DOMAIN ps : ps[i] \in introduced  BY <1>1
  <2> QED BY <2>1 DEF IInv, TypeOK
<1>3. outcome'.peers = [i \in DOMAIN message.closerPeers |->
                          proto_peer_to_peer(message.closerPeers[i])]
  OBVIOUS
<1>4. DOMAIN message.closerPeers = DOMAIN ps
      /\ \A i \in DOMAIN ps : message.closerPeers[i] = proto_peer_from_peer(ps[i])
  BY <1>1
<1>5. \A i \in DOMAIN ps : proto_peer_to_peer(message.closerPeers[i]) = ps[i]
  BY <1>2, <1>4, PeerRoundTrip
<1>6. outcome'.peers = ps  BY <1>3, <1>4, <1>5
<1>7. message \in Message  BY DEF IInv, TypeOK
<1>8. ps \in Seq([id : Id, address : Addresses])
  <2> DEFINE S == [id : Id, address : Addresses]
  <2>1. introduced \subseteq S  BY DEF IInv, TypeOK
  <2> HIDE DEF S
  <2>2. ps \in Seq(S)  BY <1>1, <2>1
  <2> QED BY <2>2 DEF S
<1>9. outcome' \in [code : {"none", "OK", "BAD_REQUEST"}, value : Values,
                    peers : Seq([id : Id, address : Addresses])]
  BY <1>6, <1>7, <1>8 DEF Message
<1>10. TypeOK'  BY <1>9 DEF IInv, TypeOK
<1>11. PeersIntact'  BY <1>1, <1>6 DEF IInv, PeersIntact
<1>12. OnTheWay' /\ OnTheWayBack' /\ HoldsPuts' /\ (Own => stage # "panicked")'
       /\ ReadsWhatWasPut'
  BY DEF IInv, OnTheWay, OnTheWayBack, HoldsPuts, ReadsWhatWasPut
<1> QED BY <1>10, <1>11, <1>12 DEF IInv

LEMMA ForgetStep ==
  ASSUME IInv, Forget PROVE IInv'
<1> USE DEF Forget, Idle
<1>1. TypeOK'  BY NodesAssumption DEF IInv, TypeOK
<1>2. PeersIntact' /\ OnTheWay' /\ OnTheWayBack' /\ HoldsPuts'
  BY DEF IInv, PeersIntact, OnTheWay, OnTheWayBack, HoldsPuts
<1>3. (Own => stage # "panicked")' /\ ReadsWhatWasPut'
  BY DEF ReadsWhatWasPut
<1> QED BY <1>1, <1>2, <1>3 DEF IInv

LEMMA AskStep ==
  ASSUME IInv, NEW n \in Nodes, NEW k \in Keys, NEW v \in Values, NEW kind \in Kinds,
         Ask(kind, n, k, v)
  PROVE  IInv'
<1> DEFINE c == [kind |-> kind, caller |-> n, key |-> k, value |-> v]
<1>1. c \in [kind : Kinds, caller : Nodes, key : Keys, value : Values]  OBVIOUS
<1>2. Send(c, create_request(c))  BY DEF Ask
<1>3. create_request(c) \in Message  BY RequestFields
<1> HIDE DEF c
<1> QED BY <1>1, <1>2, <1>3, SendStep

LEMMA OtherAsksStep ==
  ASSUME IInv, NEW kind \in Kinds, NEW m \in Others, OtherAsks(kind, m)
  PROVE  IInv'
<1> DEFINE c == [Idle EXCEPT !.kind = kind, !.value = m.value]
<1>1. m.value \in Values  BY OthersAssumption DEF Message
<1>2. c \in [kind : Kinds, caller : {None}, key : {None}, value : Values] /\ c.value = m.value
  BY <1>1 DEF Idle
<1>3. Send(c, m)  BY DEF OtherAsks
<1> HIDE DEF c
<1> QED BY <1>2, <1>3, SendStep

LEMMA Inductive == IInv /\ [Next]_vars => IInv'
<1> SUFFICES ASSUME IInv, [Next]_vars PROVE IInv'  OBVIOUS
<1>1. CASE UNCHANGED vars
  <2> USE <1>1 DEF vars
  <2>1. TypeOK' /\ PeersIntact'  BY DEF IInv, TypeOK, PeersIntact
  <2>2. OnTheWay' /\ OnTheWayBack'  BY DEF IInv, Own, OnTheWay, OnTheWayBack
  <2>3. HoldsPuts' /\ (Own => stage # "panicked")' /\ ReadsWhatWasPut'
    BY DEF IInv, HoldsPuts, Own, ReadsWhatWasPut
  <2> QED BY <2>1, <2>2, <2>3 DEF IInv
<1>2. ASSUME NEW n \in Nodes, NEW k \in Keys, NEW v \in Values, Ask("store", n, k, v)
      PROVE  IInv'
  BY <1>2, AskStep DEF Kinds
<1>3. ASSUME NEW n \in Nodes, NEW k \in Keys, NEW kind \in Kinds \ {"store"},
             Ask(kind, n, k, Empty)
      PROVE  IInv'
  BY <1>3, AskStep, NodesAssumption
<1>4. ASSUME NEW kind \in Kinds, NEW m \in Others, OtherAsks(kind, m) PROVE IInv'
  BY <1>4, OtherAsksStep
<1> QED
  BY <1>1, <1>2, <1>3, <1>4, RefuseStep, PanicStep, PingStep, StoreStep, FindValueStep,
     FindNodeStep, ReadStep, ForgetStep DEF Next

LEMMA Always == Spec => []IInv
<1> QED BY Initial, Inductive, PTL DEF Spec
-----------------------------------------------------------------------------
\* Each field of a message holds what belongs there (create_*_request(), _response()).
THEOREM TypeCorrect == Spec => []TypeOK
<1>1. IInv => TypeOK  BY DEF IInv
<1> QED BY <1>1, Always, PTL

\* The handlers serve every request that this code builds: validate_request()
\* accepts it, and neither its identifier nor its key makes key_from_bytes() panic.
THEOREM OwnRequestsServedHolds == Spec => []OwnRequestsServed
<1>1. IInv => OwnRequestsServed
  BY DEF IInv, OnTheWayBack, OwnRequestsServed, Own
<1> QED BY <1>1, Always, PTL

\* proto_peer_from_peer() and proto_peer_to_peer() keep peers intact both ways,
\* whatever other programs send: KeyRoundTrip for nodes, BytesRoundTrip for the others.
THEOREM PeersIntactHolds == Spec => []PeersIntact
<1>1. IInv => PeersIntact  BY DEF IInv
<1> QED BY <1>1, Always, PTL

\* A find_value reads what was last put under its key: key_to_bytes() is injective.
THEOREM ReadsWhatWasPutHolds == Spec => []ReadsWhatWasPut
<1>1. IInv => ReadsWhatWasPut  BY DEF IInv
<1> QED BY <1>1, Always, PTL
=============================================================================
