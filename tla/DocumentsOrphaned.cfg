SPECIFICATION Spec
CONSTANTS
    Docs = {1, 2}
    Files = {f1, f2}
    NoFile = NoFile
    Requests = {r1}
    MaxSaves = 2
INVARIANT AttachedToCollateral
