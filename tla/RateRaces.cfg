SPECIFICATION Spec
CONSTANTS
    Amounts = {1, 2, 10}
    Principals = {1}
    Rates = {1, 2}
    DefaultRate = 1
    Incomes = {1}
    Requests = {r1, r2}
SYMMETRY Symmetry
INVARIANTS
    PaymentFollowsRate
    DecidedRateKept
    AmountsAgree
    ScoreDescribesCase
    AffordabilityFollows
