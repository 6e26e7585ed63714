-------------------------- MODULE MCAnalysisEngine --------------------------
(***************************************************************************)
(* An instance of AnalysisEngine for TLC: a request of each type that goes *)
(* through the cache in its own way, two languages, three queries.         *)
(***************************************************************************)
EXTENDS AnalysisEngine

CONSTANTS W, R, F, L1, L2, Q1, Q2, Q3

MCKeys == {W, R, F}
MCKindOf == [k \in MCKeys |-> CASE k = W -> "workspace" [] k = R -> "relationships" [] k = F -> "file"]
MCLanguages == {L1, L2}
MCQueries == {Q1, Q2, Q3}
MCRemote == {Q1, Q2}

=============================================================================
