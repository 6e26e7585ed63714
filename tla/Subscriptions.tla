---------------------------- MODULE Subscriptions ----------------------------
(***************************************************************************)
(* The resource registry's subscriptions (mcpserver/resources): a tracker  *)
(* that keeps the same relation twice, by resource and by client, each     *)
(* operation under one mutex; and Registry.Notify, which the diagnostics   *)
(* callback runs on the reader goroutine of every language client.         *)
(*                                                                         *)
(* A list of the tracker is a function that says how often each element    *)
(* occurs in it: the code tests membership, appends, filters and counts,   *)
(* and never looks at the order.  A key that is deleted is an empty list;  *)
(* the code stores no empty list.                                          *)
(***************************************************************************)
EXTENDS Naturals

CONSTANTS
  Clients,    \* MCP client identifiers
  Uris,       \* resource URIs
  Notifiers   \* goroutines that call Notify

VARIABLES
  subscriptions,        \* subscriptions[u][c]: occurrences of c in the list of u
  clientSubscriptions,  \* clientSubscriptions[c][u]: occurrences of u in the list of c
  notifying,            \* the resource each notifier announces, if any
  subscribers           \* the copy of the subscriber list each notifier works with

trackerVars == <<subscriptions, clientSubscriptions>>
registryVars == <<subscriptions, clientSubscriptions, notifying, subscribers>>

NoUri == "none"

TrackerInit ==
  /\ subscriptions = [u \in Uris |-> [c \in Clients |-> 0]]
  /\ clientSubscriptions = [c \in Clients |-> [u \in Uris |-> 0]]
  /\ notifying = [n \in Notifiers |-> NoUri]
  /\ subscribers = [n \in Notifiers |-> {}]

\* handleSubscribe: a client already in the list of u returns early.
Subscribe(c, u) ==
  /\ IF subscriptions[u][c] > 0
     THEN UNCHANGED trackerVars
     ELSE /\ subscriptions' = [subscriptions EXCEPT ![u][c] = @ + 1]
          /\ clientSubscriptions' = [clientSubscriptions EXCEPT ![c][u] = @ + 1]
  /\ UNCHANGED <<notifying, subscribers>>

\* Mutant: the client keeps the resource in its list.
UnsubscribeOneSide(c, u) ==
  /\ subscriptions' = [subscriptions EXCEPT ![u][c] = 0]
  /\ UNCHANGED <<clientSubscriptions, notifying, subscribers>>

\* handleUnsubscribe: both lists are filtered, whatever they hold.
Unsubscribe(c, u) ==
  /\ subscriptions' = [subscriptions EXCEPT ![u][c] = 0]
  /\ clientSubscriptions' = [clientSubscriptions EXCEPT ![c][u] = 0]
  /\ UNCHANGED <<notifying, subscribers>>

\* Mutant: the lists of the client's resources are deleted as a whole.
UnsubscribeEveryone(c) ==
  /\ subscriptions' = [u \in Uris |-> IF clientSubscriptions[c][u] > 0
                                      THEN [d \in Clients |-> 0]
                                      ELSE subscriptions[u]]
  /\ clientSubscriptions' = [clientSubscriptions EXCEPT ![c] = [u \in Uris |-> 0]]
  /\ UNCHANGED <<notifying, subscribers>>

\* Only the resources in the client's own list are visited.
UnsubscribeAll(c) ==
  /\ subscriptions' = [u \in Uris |-> IF clientSubscriptions[c][u] > 0
                                      THEN [subscriptions[u] EXCEPT ![c] = 0]
                                      ELSE subscriptions[u]]
  /\ clientSubscriptions' = [clientSubscriptions EXCEPT ![c] = [u \in Uris |-> 0]]
  /\ UNCHANGED <<notifying, subscribers>>

GetSubscribers(u) == {c \in Clients : subscriptions[u][c] > 0}

(***************************************************************************)
(* Notify copies the list under the lock and sends without it.  A resource *)
(* without subscribers is not announced.                                   *)
(***************************************************************************)
Notify(n, u) ==
  /\ notifying[n] = NoUri
  /\ GetSubscribers(u) # {}
  /\ notifying' = [notifying EXCEPT ![n] = u]
  /\ subscribers' = [subscribers EXCEPT ![n] = GetSubscribers(u)]
  /\ UNCHANGED trackerVars

\* sendNotificationToSubscribers logs, and sends nothing.
SendNotification(n) ==
  /\ notifying[n] # NoUri
  /\ notifying' = [notifying EXCEPT ![n] = NoUri]
  /\ subscribers' = [subscribers EXCEPT ![n] = {}]
  /\ UNCHANGED trackerVars

TrackerNext ==
  \/ \E c \in Clients :
       \/ \E u \in Uris : Subscribe(c, u) \/ Unsubscribe(c, u)
       \/ UnsubscribeAll(c)
  \/ \E n \in Notifiers :
       \/ \E u \in Uris : Notify(n, u)
       \/ SendNotification(n)

TrackerSpec == TrackerInit /\ [][TrackerNext]_registryVars

-----------------------------------------------------------------------------
(***************************************************************************)
(* No element occurs twice in a list of the tracker.                       *)
(***************************************************************************)
TrackerTypeOK ==
  /\ subscriptions \in [Uris -> [Clients -> 0..1]]
  /\ clientSubscriptions \in [Clients -> [Uris -> 0..1]]
  /\ notifying \in [Notifiers -> Uris \union {NoUri}]
  /\ subscribers \in [Notifiers -> SUBSET Clients]

(***************************************************************************)
(* The two maps hold the same relation: a client is in the list of a       *)
(* resource exactly when the resource is in the list of the client.        *)
(* UnsubscribeAll relies on it: it looks only where the second map points. *)
(***************************************************************************)
MapsAgree ==
  \A c \in Clients, u \in Uris : subscriptions[u][c] = clientSubscriptions[c][u]

Subscribed == {p \in Clients \X Uris : subscriptions[p[2]][p[1]] > 0}

(***************************************************************************)
(* The tracker implements the relation it is meant to keep: every          *)
(* operation changes exactly the pairs it names, UnsubscribeAll, which     *)
(* reads one map to update the other, included.                            *)
(***************************************************************************)
Relation == INSTANCE SubscriptionRelation WITH relation <- Subscribed
KeepsRelation == Relation!Spec

=============================================================================
