SPECIFICATION FairSpec
CONSTANTS
    Requests = {r1, r2, r3}
    Workers = 1
    MaxSpawns = 2
    MaxDeaths = 2
INVARIANTS TypeOK WaitersAreHeld
PROPERTIES CallsReturn OrphansEnd
CHECK_DEADLOCK FALSE
