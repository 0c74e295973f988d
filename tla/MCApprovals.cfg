SPECIFICATION Spec
CONSTANTS
    Ids = {a1}
    Scopes = {run, write}
    Hashes = {h1, h2}
    Deciders = {panel, bridge}
    Consumers = {worker1, worker2}
    TTLs = {1, 3}
    MinTTL = 1
    MaxTTL = 2
    MaxTime = 2
SYMMETRY Symmetry
INVARIANTS TypeOK SpendOnce SpendAuthorised
PROPERTY ImplementsToken
