CONSTANTS
    p1 = p1
    p2 = p2
    t1 = t1
    t2 = t2
    k1 = k1
    e1 = e1
    e2 = e2
    a = a
    A = A
    b = b
    w = w
    s = s
    na = na
    nb = nb
    nw = nw
    ns = ns
    Token = {t1, t2}
    NoToken = NoToken
    Cred = {k1}
    NoCred = NoCred
    HostText <- MCHostText
    HostName <- MCHostName
    NoHost = NoHost
    Canonical <- MCCanonical
    WildcardHost = {w}
    Suffixed <- MCSuffixed
    Scheme = {"http", "https"}
    Endpoint <- MCEndpoint
    Passthrough = FALSE
    Path = {p1, p2}
    DirPath = {p1, p2}
    Lexical <- MCLexical
    Unreadable = Unreadable
    Absent = Absent
    NoUrl = NoUrl
    NoScheme = NoScheme
    Key = {e1, e2}
    NoKey = NoKey
    Env <- MCEnv
    Options <- MCOptions
    Contents <- MCContents

SPECIFICATION Spec

INVARIANTS
    TypeOK
    
    FailsForAReason
    AllowlistServesPolicies
    AllowlistInOrder
