CONSTANTS
    Genesis = Genesis
    Null = Null
    a1 = a1
    a2 = a2
    b1 = b1
    b2 = b2
    c2 = c2
    Block = {a1, a2, b1, b2, c2}
    Parent <- MCParent
    Ancestors <- MCAncestors
    Work <- MCWork
    StakeBlock = {b1, c2}
    BadContext = {a2}
    BadConnect = {b2}
    MaxReorg = 2
    MaxRPCs = 2
    Addresses <- MCAddresses
    InvalidateAnytime = TRUE
SPECIFICATION Spec
INVARIANT
    ActiveChainGood
