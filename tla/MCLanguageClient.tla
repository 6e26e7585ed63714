-------------------------- MODULE MCLanguageClient --------------------------
(***************************************************************************)
(* Instances of LanguageClient for TLC.  The threads are interchangeable   *)
(* in the safety runs.                                                     *)
(***************************************************************************)
EXTENDS LanguageClient, TLC

Symmetry == Permutations(Callers)

=============================================================================
