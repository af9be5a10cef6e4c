SPECIFICATION Spec
CONSTANTS
    local = local
    remote = remote
    movie = movie
    series = series
    Task = {remote}
    Item = {series}
    ItemOf <- MCItemOf
    RemoteTask = {remote}
    Priorities = {0, 5}
    MaxRetry = 2
    BackoffTicks <- MCBackoff
    StaleAge = 2
    PruneAge = 3
    Consumer = {c1, c2}
    NoClaim = NoClaim
    NoConsumer = NoConsumer
    ClaimBatch = 1
    WorkerMax = 2
PROPERTIES
    FailedNotReopened
