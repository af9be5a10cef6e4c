SPECIFICATION Spec
CONSTANTS
    movie = movie
    series = series
    season = season
    folder = folder
    c1 = c1
    c2 = c2
    Key <- MCMovieKeys
    MaxRetry = 2
    Item = {movie}
    DirOf <- MCMovieDir
    Children <- MCMovieChildren
    Consumer = {c1, c2}
    NoClaim = NoClaim
    NoVersion = NoVersion
    ClaimBatch = 2
    WorkerMax = 2
    Asked <- MCNfoKey
    MaxEdits = 1
SYMMETRY Slots
PROPERTIES
    ShownNeverGoesBack
INVARIANTS
    TypeOK
    ChangeAccounted
