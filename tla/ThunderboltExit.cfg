CONSTANTS
    Budgets = {100}
    Powers <- MCFewPowers
    Unit = 1
    Cores = 2
    WriteErrors = FALSE
SPECIFICATION Spec
INVARIANT RestoredOnExit
