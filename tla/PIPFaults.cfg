CONSTANTS
    Full = 12
    Budgets = {100}
    Powers <- MCFewPowers
    Samples = {"ok", "noPower", "noPerf", "noCpu"}
    WriteErrors = {FALSE, TRUE}
SPECIFICATION Spec
INVARIANTS TypeOK CriticalInSync UserKnownOrForgotten
PROPERTIES StrictNeverRaisesCritical OnlyRestartUpsetsPriority
