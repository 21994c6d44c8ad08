SPECIFICATION Spec
CONSTANTS
    op = op
    mod = mod
    dir = dir
    adm = adm
    Users = {op, dir}
    NoUser = NoUser
    RoleOf <- MCRoleOf
    BranchOf <- MCBranchOf
    Cases = {c1, c2}
    NoCase = NoCase
    Requests = {r1, r2}
    LastYear = 1
SYMMETRY Symmetry
INVARIANTS
    GlobalNumbersUnique
    YearlySharedInFamily
    SubmittedHasNumber
    NextNumberFree
PROPERTIES
    NumberSettles
    ClosedSettles
    StartedSettles
