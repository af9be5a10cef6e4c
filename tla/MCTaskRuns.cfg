SPECIFICATION TaskSpec
CONSTANTS
    Call = {c1, c2, c3}
    NoCall = NoCall
    Kinds <- MCKinds
    Event = {"hand", "hook", "stop", "error", "restart"}
    MaxOutside = 4
SYMMETRY Symmetry
CHECK_DEADLOCK FALSE
INVARIANTS
    TaskTypeOK
    OneWorker
    EndsTrue
    RunFollowed
