SPECIFICATION Spec
CONSTANTS
    Directors = {d1}
    NoDirector = NoDirector
    Requests = {r1, r2}
    Docs = 2
    MaxAttempts = 2
    MaxEdits = 1
SYMMETRY Symmetry
INVARIANT IssuedAsSigned
