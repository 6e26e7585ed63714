---------------------------- MODULE MCClientPool ----------------------------
(***************************************************************************)
(* Instances of ClientPool for TLC: one language with a server of its own  *)
(* and one with two servers, the second of which may be its preferred      *)
(* formatter.  The threads are interchangeable in the safety runs.         *)
(***************************************************************************)
EXTENDS ClientPool, TLC

CONSTANTS L1, L2, A, B, C, MaxClients

MCLanguages == {L1, L2}
MCServers   == {A, B, C}
MCServes    == (L1 :> {A}) @@ (L2 :> {B, C})
MCClients   == 1..MaxClients

L2Formatter == (L1 :> NoServer) @@ (L2 :> C)

\* A single language with two servers, for the runs that need no more.
OneLanguage   == {L2}
TwoServers    == {B, C}
OneServes     == (L2 :> {B, C})
OneUnformatted == (L2 :> NoServer)

Symmetry == Permutations(Threads)

=============================================================================
