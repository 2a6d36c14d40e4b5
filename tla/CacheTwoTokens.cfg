CONSTANTS
    p1 = p1
    p2 = p2
    p3 = p3
    t1 = t1
    t2 = t2
    Token = {t1, t2}
    Caller = {p1, p2}
    Row = {"good"}
    TTL = 1
    MaxVersion = 2
    MaxTime = 0
    MaxLatency = 1
    NoOne = NoOne
    Absent = Absent

SPECIFICATION FairSpec

PROPERTIES
    ImplementsApi
    EveryCallReturns
