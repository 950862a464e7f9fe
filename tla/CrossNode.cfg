CONSTANTS
    Labels = 3
    PipeSize = 2
    Backlog = 2
    MaxFaults = 4
SPECIFICATION FairSpec
INVARIANT NeverBothWait
PROPERTIES ExchangeSpec EstimatesResume
