CONSTANTS
    Budgets = {100}
    Powers <- MCFewPowers
    Unit = 100
    Cores = 2
    WriteErrors = FALSE
SPECIFICATION Spec
INVARIANTS LimitsFollow CriticalLastInForce OneLeftOnExit
PROPERTY CappingSpec
