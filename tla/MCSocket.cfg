CONSTANTS
    Streams = {s1, s2, s3}
    Sockets = {s1, s2}
    Handles = {3, 4}
SPECIFICATION SocketSpec
SYMMETRY Alike
INVARIANTS
    SocketInv
    Inv
    NoLeak
    ShutOnlyWhenDestroyed
PROPERTIES
    ClosesOnlyItsOwn
    ConnectedOrError
    DropsForAReason
