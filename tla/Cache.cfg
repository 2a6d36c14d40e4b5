CONSTANTS
    p1 = p1
    p2 = p2
    p3 = p3
    t1 = t1
    t2 = t2
    Token = {t1}
    Caller = {p1, p2, p3}
    Row = {"good", "bad"}
    TTL = 2
    MaxVersion = 2
    MaxTime = 3
    MaxLatency = 1
    NoOne = NoOne
    Absent = Absent

SYMMETRY Symmetry

SPECIFICATION Spec

INVARIANTS
    TypeOK
    NoMapRace

PROPERTIES
    NoDuplicateLoad
    BoundedStaleness
    ImplementsApi
