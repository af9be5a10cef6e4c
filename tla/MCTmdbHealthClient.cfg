SPECIFICATION Spec
CONSTANTS
    Consumer = {c1, c2}
    Reloader = {watcher, admin}
    Watcher = watcher
    Key = {k1}
    NoKey = NoKey
    NoClient = NoClient
    Threshold = 2
    BaseCooldown = 1
    MaxCooldown = 2
    MaxBatch = 1
INVARIANTS
    CallHasClient
