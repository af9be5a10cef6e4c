SPECIFICATION FairFaultFreeSpec
CONSTANTS
    movie = movie
    series = series
    season = season
    folder = folder
    c1 = c1
    c2 = c2
    Key <- MCSeriesKeys
    MaxRetry = 2
    Item = {series}
    DirOf <- MCSeriesDir
    Children <- MCSeriesChildren
    Consumer = {c1}
    NoClaim = NoClaim
    NoVersion = NoVersion
    ClaimBatch = 1
    WorkerMax = 1
    Asked <- MCSubtree
    MaxEdits = 0
PROPERTIES
    SubtreeTakesEffect
