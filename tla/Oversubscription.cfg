CONSTANTS
    MAX_POWER = 300
    Levels <- LevelsDef
    Benchmarks = 2
SPECIFICATION FairSpec
INVARIANTS StartsAtBase BudgetOfThisJob LeftoversBounded StartsUnthrottled
PROPERTY SweepCompletes
CHECK_DEADLOCK FALSE
