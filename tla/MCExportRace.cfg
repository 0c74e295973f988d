SPECIFICATION Spec
CONSTANTS
    Exps = {e1}
    Corrections = {fixed}
    Answer = answer
    Poor = {}
    Percents = {10}
    Clients = {curator, desktop}
    Curators = {curator}
    Operators = {curator, desktop}
    Ids = {a1, a2, a3}
    Limit = 2
    MaxFeedback = 1
    MaxCrashes = 0
CHECK_DEADLOCK FALSE
INVARIANT ExportsKeepFiles
