SPECIFICATION OfficeSpec
CONSTANTS
    Collections = {k1, k2}
    NoCollection = NoCollection
    Requests = {r1, r2}
    MaxAmount = 1
    MaxCollected = 1
    Nobody = Nobody
    Second = k2
    Collectors = {u1, u2}
    DueDays = {1, 2}
    MaxDay = 3
    Assigners = {slot}
    Users = {u1, u2, u3}
    MessageIds = {1}
    MaxEdits = 1
    DocIds = {1, 2}
    Files = {f1, f2, f3}
    MaxSaves = 1
    Accounts = {u1, u2}
    Founder = u1
    Sessions = {s1, s2}
    STEPS <- MCSteps
    Typed = {"creditLine"}
    Drafts = {d1, d2}
    Ages <- MCAges
    Incomes = {0, 2, 4}
    Sums = {0, 1}
    MaxChanges = 3
    MaxPledges = 2
    Rates = {1, 2}
    Draws = {1}
    MaxForms = 1
    MaxVisits = 2
SYMMETRY Symmetry
INVARIANTS
    TypesOK
    CollectedIsSumOfVisits
    TotalIsSum
    FlagsTellTruth
    ReceiptsAreTrue
    FilesMatchRows
    AdminRemains
    OneShift
    IncomeDecides
    GateAgrees
    RowsAsAgreed
    FaceBefore
    PhoneTellsTruth
PROPERTIES
    ClosedSettles
    OpenSettles
    ShownSettles
    DraftOnlyWhenUnknown
