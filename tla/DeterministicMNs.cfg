CONSTANTS
    m1 = m1
    m2 = m2
    MN <- MCTwo
    Rank <- MCRankTwo
    Outpoint = {c1, c2}
    Service = {s1, s2}
    KeyID = {k1, k2}
    Null = Null
    MinConf = 1
    SporkValue = 2
    MaxHeight = 5
    MaxTxs <- MCMaxTxs
    Modes = {TRUE, FALSE}
SYMMETRY MCSymmetry
SPECIFICATION Spec
INVARIANTS
    UniquePropertiesExact
    InternalIdsExact
    NeverThrows
    CollateralUnspent
    OnlyRevokedAssert
    ConfirmedOnTime
    FairPayment
PROPERTY
    DiffRebuildsList
