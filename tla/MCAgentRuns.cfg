SPECIFICATION FairSpec
CONSTANTS
    NSteps = 2
    MaxIterations = 4
    MaxToolCalls = 3
    MaxFailures = 2
    MaxPlans = 5
    MaxControls = 2
    MaxRaises = 1
    MaxCrashes = 1
    ForegroundControl = TRUE
INVARIANTS TypeOK EveryStepVerified BudgetHolds
PROPERTY LoopEnds
CHECK_DEADLOCK FALSE
