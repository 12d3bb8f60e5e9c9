CONSTANTS
    m1 = m1
    m2 = m2
    MN <- MCTwo
    Rank <- MCRankTwo
    Outpoint = {c1, c2}
    Service = {s1, s2}
    KeyID = {k1, k2, k3}
    Null = Null
    MinConf = 1
    SporkValue = 1
    MaxHeight = 3
    MaxTxs <- MCMaxTxs
    Modes = {FALSE}
SYMMETRY MCSymmetry
SPECIFICATION Spec
INVARIANT
    NeverAsserts
