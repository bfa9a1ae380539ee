SPECIFICATION CanarySpec
CONSTANTS
    Residents = {r1, r2}
    Grace = 2
    Budgets <- SmallBudgets
INVARIANTS
    CanaryTypeOK
    WakesAreHeard
PROPERTY TrayTellsTheTruth
