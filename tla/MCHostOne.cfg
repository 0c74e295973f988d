SPECIFICATION Spec
CONSTANTS
    Requests = {r1, r2, r3, r4}
    Workers = 1
    MaxSpawns = 3
    MaxDeaths = 1
SYMMETRY Symmetry
INVARIANT OneBackendServes
CHECK_DEADLOCK FALSE
