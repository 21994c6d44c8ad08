SPECIFICATION Spec
CONSTANTS
    op = op
    mod = mod
    dir = dir
    adm = adm
    Users = {op, mod, dir, adm}
    NoUser = NoUser
    RoleOf <- MCRoleOf
    BranchOf <- MCBranchOf
    Cases = {c1, c2}
    NoCase = NoCase
    Requests = {r1}
    LastYear = 2
SYMMETRY Symmetry
PROPERTIES
    ImplementsWorkflow
