SPECIFICATION Spec
CONSTANTS
    Collections = {k1, k2}
    NoCollection = NoCollection
    Requests = {r1}
    MaxAmount = 1
    MaxCollected = 1
SYMMETRY Symmetry
INVARIANT OneOpen
