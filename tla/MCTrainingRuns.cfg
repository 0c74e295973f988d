SPECIFICATION Spec
CONSTANTS
    Exps = {e1}
    Corrections = {fixed, poor}
    Answer = answer
    Poor = {poor}
    Percents = {10}
    Clients = {curator, desktop}
    Curators = {curator}
    Operators = {desktop}
    Ids = {a1, a2, a3}
    Limit = 2
    MaxFeedback = 2
    MaxCrashes = 1
CHECK_DEADLOCK FALSE
SYMMETRY Symmetry
INVARIANTS TypeOK CompiledHasProvenance NoItemTwice RegisteredKeepFiles SplitIsSound
PROPERTY ImplementsLedger
