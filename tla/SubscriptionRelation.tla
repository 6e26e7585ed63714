------------------------- MODULE SubscriptionRelation -------------------------
(***************************************************************************)
(* What the subscription tracker promises: it keeps the relation between   *)
(* MCP clients and the resources they subscribed to.  Subscribing and      *)
(* unsubscribing twice is the same as once, and a client that leaves takes *)
(* all its subscriptions along.                                            *)
(***************************************************************************)
CONSTANTS Clients, Uris

VARIABLE relation

Init == relation = {}

Subscribe(c, u) == relation' = relation \union {<<c, u>>}
Unsubscribe(c, u) == relation' = relation \ {<<c, u>>}
UnsubscribeAll(c) == relation' = relation \ ({c} \X Uris)

Next ==
  \E c \in Clients :
    \/ \E u \in Uris : Subscribe(c, u) \/ Unsubscribe(c, u)
    \/ UnsubscribeAll(c)

Spec == Init /\ [][Next]_relation

=============================================================================
