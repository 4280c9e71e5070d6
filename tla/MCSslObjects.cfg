CONSTANTS
    Contexts = {c1, c2}
    Pointers = {p1, p2}
    Sessions = {s1, s2}
    Releases = {"1.0.0", "1.0.2", "1.1.0", "1.1.1"}
    Objects = {o1, o2}
    Places = {k1, k2}
    Connections = {n1, n2}
SPECIFICATION ObjectsSpec
INVARIANTS
    ObjectsInv
    OffersAsNamed
    EachReferenceOwned
    SessionHasOneOwner
    SessionKeepsConnection
SYMMETRY Symmetry
