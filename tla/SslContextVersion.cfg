CONSTANTS
    Contexts = {c1, c2}
    Pointers = {p1, p2}
    Sessions = {s1}
    Releases = {"1.1.0", "1.1.1"}
SPECIFICATION Spec
INVARIANTS
    VersionIsBound
