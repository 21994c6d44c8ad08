--------------------------- MODULE MCCollections ---------------------------
(* Instances of Collections for TLC.                                       *)
EXTENDS Collections, TLC

Symmetry == Permutations(Collections) \cup Permutations(Requests)
=============================================================================
