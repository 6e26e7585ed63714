----------------------------- MODULE MCDocuments -----------------------------
(***************************************************************************)
(* Instances of Documents for TLC: two servers in a fixed order, and a     *)
(* file with a URI that is normalized to another one.                      *)
(***************************************************************************)
EXTENDS Documents, TLC

CONSTANTS A, B, D, Raw

TwoServers == <<A, B>>
OneNormal  == [d \in {D, Raw} |-> D]

\* The second client is there for the loops over clients, and only the first one is
\* replaced and gets the callback.
OneIsSteady == gen[B] = 0 /\ alive[B] /\ ~hooked[B]

Symmetry == Permutations(Threads)

=============================================================================
