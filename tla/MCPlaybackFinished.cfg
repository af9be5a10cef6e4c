SPECIFICATION FaultFreeSpec
CONSTANTS
    Item = {movie}
    Version = {hd, uhd}
    NoVersion = NoVersion
    MaxPosition = 3
    NoPosition = NoPosition
    Device = {tv}
    Asked <- Named
    Limit = 1
    Threshold = 2
    MaxInFlight = 1
    NoRequest = NoRequest
    NoPlayback = NoPlayback
SYMMETRY Items
INVARIANTS
    FinishedLeavesResume
CHECK_DEADLOCK FALSE
