SPECIFICATION FairSpec
CONSTANTS
    Order <- MCOrder
    DependsOn <- MCDependsOn
    Effect <- MCEffect
    Executors = {ned}
    Ids = {a1, a2, a3, a4}
    NoId = NoId
    Limits = {0, 1}
    MaxRuns = 4
    MaxCrashes = 2
INVARIANTS TypeOK EveryEffectPaid DependenciesFirst CompletionHonest
           RepeatNeedsCrash
PROPERTY RunEnds
CHECK_DEADLOCK FALSE
