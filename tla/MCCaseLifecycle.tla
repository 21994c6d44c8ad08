-------------------------- MODULE MCCaseLifecycle --------------------------
(* Instances of CaseLifecycle for TLC: one account per role, the operator  *)
(* and the moderator in a branch, the others without one.                  *)
EXTENDS CaseLifecycle, TLC

CONSTANTS op, mod, dir, adm

MCRoleOf == [u \in Users |->
    CASE u = op -> "OPERATOR" [] u = mod -> "MODERATOR"
      [] u = dir -> "DIRECTOR" [] u = adm -> "ADMIN"]
MCBranchOf == [u \in Users |-> IF u \in {op, mod} THEN "PS" ELSE "GEN"]

Symmetry == Permutations(Cases) \cup Permutations(Requests)
=============================================================================
