CONSTANTS
    Full = 60
    Budgets = {100, 200}
    Powers <- MCPowers
    Samples = {"ok", "noPower"}
    WriteErrors = {FALSE}
SPECIFICATION FairSpec
INVARIANT HealthyInv
PROPERTY StrictNeverRaises
PROPERTY IncreaseNeverLowers
PROPERTY CappingSpec
PROPERTY RecoversWhenLow
