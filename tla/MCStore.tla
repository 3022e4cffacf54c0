---- MODULE MCStore ----
(***************************************************************************)
(* Four peers, of which a routing table with K = 3 yields any sequence;    *)
(* the address of the last one does not parse.                             *)
(***************************************************************************)
EXTENDS Store

MCPeers == 1..4
====
