------------------------------ MODULE MCOffice ------------------------------
EXTENDS Office, TLC

MCSteps == <<"borrower", "garov", "ishkatm">>
MCAges  == {-1, 17, 40, 69}

Symmetry == Permutations(Requests)
=============================================================================
