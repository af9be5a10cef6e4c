SPECIFICATION Spec
CONSTANTS
    local = local
    remote = remote
    movie = movie
    series = series
    Task = {local, remote}
    Item = {movie, series}
    ItemOf <- MCItemOf
    RemoteTask = {remote}
    Priorities = {0}
    MaxRetry = 1
    BackoffTicks <- MCBackoff
    StaleAge = 1
    PruneAge = 2
    Consumer = {c1, c2}
    NoClaim = NoClaim
    NoConsumer = NoConsumer
    ClaimBatch = 2
    WorkerMax = 2
SYMMETRY Slots
INVARIANTS
    IInv
    ExclusiveExecution
PROPERTIES
    ResultsStay
    ImplementsLedger
