SPECIFICATION Spec
CONSTANTS
    Item = {movie}
    Version = {hd, uhd}
    NoVersion = NoVersion
    MaxPosition = 3
    NoPosition = NoPosition
    Device = {tv}
    Asked <- Key
    Limit = 1
    Threshold = 3
    MaxInFlight = 2
    NoRequest = NoRequest
    NoPlayback = NoPlayback
SYMMETRY Items
INVARIANTS
    TypeOK
    LastReportKept
    ActivityKept
