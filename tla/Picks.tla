-------------------------------- MODULE Picks --------------------------------
(***************************************************************************)
(* Lists as the code builds them, by appending to one in a loop over       *)
(* another: what is appended is an element that passes a test, or a list.  *)
(***************************************************************************)
EXTENDS Naturals, Sequences, SequencesExt

\* The elements of list at the places in chosen, in their order.
Picked(list, chosen) == FlattenSeq([i \in DOMAIN list |-> IF i \in chosen THEN <<list[i]>> ELSE <<>>])

=============================================================================
