CONSTANTS
    Full = 20
    Budgets = {100}
    Powers <- MCFewPowers
    Samples = {"ok", "noPower", "noPerf", "noCpu"}
    WriteErrors = {FALSE}
SPECIFICATION Spec
PROPERTY StrictNeverRaises
