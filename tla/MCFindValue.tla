---- MODULE MCFindValue ----
(***************************************************************************)
(* Instances of FindValue: four nodes, two of them with the same           *)
(* identifier (hence the same distance) at different addresses; the node   *)
(* that looks up may be named by others and then queries itself.           *)
(***************************************************************************)
EXTENDS FindValue

MCPeers == 1..4
MCDist  == <<1, 2, 2, 3>>
MCSelf  == 4

SmallPeers == 1..3
SmallDist  == <<1, 2, 2>>
SmallSelf  == 3
====
