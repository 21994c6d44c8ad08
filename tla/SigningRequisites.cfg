SPECIFICATION Spec
CONSTANTS
    Directors = {d1}
    NoDirector = NoDirector
    Requests = {r1}
    Docs = 2
    MaxAttempts = 1
    MaxEdits = 1
SYMMETRY Symmetry
INVARIANT SignedRequisites
