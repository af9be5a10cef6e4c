SPECIFICATION Spec
CONSTANTS
    Catalog = catalog
    Task = {catalog}
    Series = {}
    Movie = {kept}
    Gone = {}
    MaxRetry = 2
    ClaimBatch = 2
    SweepBatch = 2
    MaxCategories = 2
    MaxOutside = 2
INVARIANTS
    LoadedIsComplete
CHECK_DEADLOCK FALSE
