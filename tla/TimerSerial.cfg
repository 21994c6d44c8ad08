SPECIFICATION FairSpec
CONSTANTS
    Requests = {r1}
    FirstDay = 4
    LastDay = 9
    MaxDays = 2
    MaxPause = 1
    MaxVisits = 2
INVARIANTS
    HoldGivenBack
PROPERTIES
    OverdueIsReported
