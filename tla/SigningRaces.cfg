SPECIFICATION Spec
CONSTANTS
    Directors = {d1, d2}
    NoDirector = NoDirector
    Requests = {r1, r2}
    Docs = 2
    MaxAttempts = 2
    MaxEdits = 1
SYMMETRY Symmetry
INVARIANTS
    SignedAsIssued
    IssuedUnlessOverlapped
    OneLiveUnlessOverlapped
PROPERTIES
    SignatureFinal
    ExpiredAttemptsSettle
    SignedCaseSettles
