CONSTANTS
    Budgets = {100, 200}
    Powers = {93, 95, 98, 101, 110}
    Cores = 2
    Leftovers = {60}
    WriteErrors = FALSE
    Step = 50
    Wrap = 300
    Counters = {0, 200}
    Bursts = {100}
    MaxUsed = 200
    RAPL_LIMIT_FILES <- MCFiles
SPECIFICATION FairSpec
INVARIANTS OracleWithinTable EnergyNotOvercounted RaplLimitsFollow
PROPERTIES MSOverloadThrottles MSSlackRecovers NQRaisesOnlyWhenFresh NQOverloadThrottles OracleSettles RaplSettles
