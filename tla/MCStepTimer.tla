---------------------------- MODULE MCStepTimer ----------------------------
(* Instances of StepTimer for TLC.  The case enters on a Thursday, so that *)
(* one business day reaches Friday and two reach over the weekend.         *)
EXTENDS StepTimer, TLC

Symmetry == Permutations(Requests)
=============================================================================
