SPECIFICATION Spec
CONSTANTS
    Call = {c1, c2}
    NoCall = NoCall
    Kinds <- MCKinds
    Event = {"scan", "switch", "restart"}
    MaxOutside = 2
    Library = {l1, l2}
    Unseen = Unseen
    Capacity = 1
SYMMETRY Symmetry
CHECK_DEADLOCK FALSE
INVARIANTS
    TypeOK
    EngineCatchesUp
    ChainEarned
