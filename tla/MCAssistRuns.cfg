SPECIFICATION Spec
CONSTANTS
    generate = generate
    remember = remember
    look = look
    ruled = ruled
    free = free
    None = None
    Plans = {generate, remember, look}
    Guarded = {generate, remember}
    Contents = {ruled, free}
    Deterministic <- MCDeterministic
    MaxSends = 2
    MaxScripts = 1
    MaxDeaths = 1
CHECK_DEADLOCK FALSE
INVARIANTS TypeOK EffectsAreApproved ResumeIsExact
PROPERTY InterfaceComesFree
