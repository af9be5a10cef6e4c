SPECIFICATION FairSpec
CONSTANTS
    Consumer = {c1}
    Reloader = {watcher, admin}
    Watcher = watcher
    Key = {k1}
    NoKey = NoKey
    NoClient = NoClient
    Threshold = 2
    BaseCooldown = 1
    MaxCooldown = 3
    MaxBatch = 1
PROPERTIES
    ClaimsRecover
