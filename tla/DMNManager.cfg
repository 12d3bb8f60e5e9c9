CONSTANTS
    r = r
    a1 = a1
    a2 = a2
    a3 = a3
    b3 = b3
    m1 = m1
    m2 = m2
    m3 = m3
    c1 = c1
    c2 = c2
    c3 = c3
    k1 = k1
    k2 = k2
    k3 = k3
    s1 = s1
    s2 = s2
    Block = {a1, a2, a3, b3}
    Root = r
    Parent <- MCParent
    Content <- MCContent
    DMNOf <- MCDMNOf
    Period = 4
    CacheSize = 1
    MaxQueue = 1
    Restarts = TRUE
    MN = {m1, m2, m3}
    Rank <- MCRank
    Outpoint = {c1, c2, c3}
    Service = {s1, s2}
    KeyID = {k1, k2, k3}
    Null = Null
    MinConf = 1
SPECIFICATION Spec
INVARIANTS
    CachesExact
    ListsObtainable
