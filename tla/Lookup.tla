------------------------------- MODULE Lookup -------------------------------
(***************************************************************************)
(* What DHTService::get promises (src/src/lib.rs), without candidates,     *)
(* queries and messages: the node looks into its own store first, and      *)
(* otherwise ends with a value that some node held during the call, or     *)
(* with NOT_FOUND.  The verdict is given once.  The promise is weak on     *)
(* purpose: NOT_FOUND says nothing about the other nodes.  Module          *)
(* FindValue implements it.                                                *)
(***************************************************************************)
CONSTANTS Peers, Self, Values, None   \* as in FindValue

VARIABLES
  stage,    \* "called", "looked" (into the own store) or "returned"
  outcome,  \* what the call returned
  store,    \* for each node the value it holds under the key, or None
  held      \* every <<node, value>> since the call began

vars == <<stage, outcome, store, held>>

Pending  == [status |-> "pending",  value |-> None]
NotFound == [status |-> "NOT_FOUND", value |-> None]
Found(v) == [status |-> "OK",       value |-> v]

Init ==
  /\ stage = "called" /\ outcome = Pending
  /\ store \in [Peers -> Values \cup {None}]
  /\ held = {<<p, store[p]>> : p \in {q \in Peers : store[q] # None}}

Return(result) ==
  /\ stage' = "returned" /\ outcome' = result
  /\ UNCHANGED <<store, held>>

\* A value in the node's own store is returned at once.
LookLocally ==
  /\ stage = "called"
  /\ \/ store[Self] # None /\ Return(Found(store[Self]))
     \/ /\ store[Self] = None /\ stage' = "looked"
        /\ UNCHANGED <<outcome, store, held>>

ReturnValue(v) ==
  /\ stage = "looked" /\ \E p \in Peers : <<p, v>> \in held
  /\ Return(Found(v))

GiveUp == stage = "looked" /\ Return(NotFound)

Lookup == LookLocally \/ (\E v \in Values : ReturnValue(v)) \/ GiveUp

\* Other clients put values all the while.
Put(p, v) ==
  /\ store' = [store EXCEPT ![p] = v]
  /\ held' = held \cup {<<p, v>>}
  /\ UNCHANGED <<stage, outcome>>

Next == Lookup \/ \E p \in Peers, v \in Values : Put(p, v)

Spec == Init /\ [][Next]_vars

\* The call returns, however often other clients put values.
Returning == WF_vars(Lookup)
=============================================================================
