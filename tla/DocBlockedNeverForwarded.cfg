CONSTANTS
    c1 = c1
    c2 = c2
    t1 = t1
    t2 = t2
    k1 = k1
    k2 = k2
    a = a
    A = A
    b = b
    w = w
    s = s
    na = na
    nb = nb
    nw = nw
    ns = ns
    Token = {t1, t2}
    NoToken = NoToken
    Cred = {k1, k2}
    NoCred = NoCred
    HostText <- MCHostText
    HostName <- MCHostName
    NoHost = NoHost
    Canonical <- MCCanonical
    WildcardHost = {w}
    Suffixed <- MCSuffixed
    Scheme = {"http", "https"}
    Endpoint <- MCEndpoint
    Passthrough = FALSE
    Conn = {c1}
    NoAuth = NoAuth
    OtherAuth = OtherAuth
    Requests <- MCDenyRequests
    Replies <- MCReplies
    Tables <- MCDocTables
    Entries <- MCDocEntries
    NoPolicy = NoPolicy
    Nothing = Nothing

SPECIFICATION Spec

INVARIANT
    BlockedNeverForwarded

