SPECIFICATION FairSpec
CONSTANTS
    one = one
    two = two
    far = far
    disc = disc
    film = film
    local = local
    remote = remote
    Path <- MCDiscs
    Base = {disc}
    BaseOf <- MCDiscBase
    Library = {local, remote}
    LibraryOf <- MCDiscLibrary
    NoLibrary = NoLibrary
    Flat = {one}
    Consumer = {c1, c2}
    NoEvent = NoEvent
    Capacity = 1
    Remote = {remote}
    Scanner = {s1, s2}
    MaxOutside = 2
CHECK_DEADLOCK FALSE
INVARIANTS
    TypeOK
    InflightExact
    StabilizingExact
    ScanAgrees
PROPERTIES
    ScanEnds
    ResidentsKept
