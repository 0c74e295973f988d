SPECIFICATION BrowserFairSpec
CONSTANTS
    Ids = {s1, s2, s3}
    Callers = {c1, c2}
    TTL = 1
    Maximum = 2
    MaxTime = 3
INVARIANTS BrowserTypeOK SessionsHaveContexts
PROPERTY LockComesFree
CHECK_DEADLOCK FALSE
