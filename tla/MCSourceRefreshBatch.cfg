SPECIFICATION FairSpec
CONSTANTS
    Catalog = catalog
    Task = {kept, dropped, catalog}
    Series = {kept, dropped}
    Movie = {}
    Gone = {dropped}
    MaxRetry = 2
    ClaimBatch = 2
    SweepBatch = 1
    MaxCategories = 2
    MaxOutside = 2
PROPERTIES
    SeriesFollowed
