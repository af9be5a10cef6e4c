SPECIFICATION MountSpec
CONSTANTS
    one = one
    two = two
    far = far
    disc = disc
    film = film
    local = local
    remote = remote
    Path <- MCFar
    Base = {film}
    BaseOf <- MCFarBase
    Library = {remote}
    LibraryOf <- MCFarLibrary
    NoLibrary = NoLibrary
    Flat = {far}
    Consumer = {c1, c2}
    NoEvent = NoEvent
    Capacity = 2
    Remote = {remote}
    Scanner = {s1}
    MaxOutside = 3
CHECK_DEADLOCK FALSE
PROPERTIES
    FilesSpared
