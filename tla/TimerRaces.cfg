SPECIFICATION Spec
CONSTANTS
    Requests = {r1, r2}
    FirstDay = 4
    LastDay = 6
    MaxDays = 1
    MaxPause = 1
    MaxVisits = 3
SYMMETRY Symmetry
INVARIANTS
    NoticedOnce
PROPERTIES
    IdleTimerSettles
