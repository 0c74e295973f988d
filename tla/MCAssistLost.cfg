SPECIFICATION Spec
CONSTANTS
    generate = generate
    remember = remember
    look = look
    ruled = ruled
    free = free
    None = None
    Plans = {generate, remember, look}
    Guarded = {generate, remember}
    Contents = {ruled, free}
    Deterministic <- MCDeterministic
    MaxSends = 2
    MaxScripts = 0
    MaxDeaths = 0
CHECK_DEADLOCK FALSE
PROPERTY ApprovedIsResumed
