CONSTANTS
    Full = 20
    Budgets = {100}
    Powers <- MCFewPowers
    Samples = {"ok", "noPower", "noPerf"}
    WriteErrors = {FALSE}
SPECIFICATION FairSpec
PROPERTY ThreadStopsDying
