----------------------------- MODULE MCCaseRate -----------------------------
(* Instances of CaseRate for TLC.                                          *)
EXTENDS CaseRate, TLC

Symmetry == Permutations(Requests)
=============================================================================
