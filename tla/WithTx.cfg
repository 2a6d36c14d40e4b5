CONSTANTS
    c1 = c1
    c2 = c2
    c3 = c3
    r1 = r1
    r2 = r2
    v1 = v1
    v2 = v2
    k1 = k1
    k2 = k2
    Caller = {c1, c2, c3}
    Row = {r1, r2}
    Value = {v1, v2}
    Unwritten = Unwritten
    Session = {k1, k2}
    Programs <- MCPrograms
    Contents <- MCContents
    MaxConns = 2
    NoSession = NoSession

SPECIFICATION FairSpec

INVARIANTS
    IInv
    ConnectionsComeBackClean

PROPERTIES
    ImplementsAtomicWrites
    EveryCallReturns
