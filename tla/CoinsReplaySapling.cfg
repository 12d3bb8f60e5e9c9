SPECIFICATION Spec
CONSTANTS
    g = g
    a1 = a1
    a2 = a2
    a3 = a3
    b2 = b2
    b3 = b3
    b4 = b4
    o1 = o1
    o2 = o2
    o3 = o3
    o4 = o4
    n1 = n1
    Outpoint = {o1, o2, o3, o4}
    Coin = {1, 2, 3, 4}
    NoCoin = NoCoin
    Nullifier = {n1}
    Root <- MCRoot
    EmptyRoot <- MCEmptyRoot
    Absent = Absent
    Null = Null
    Block <- MCBlock
    Genesis = g
    Parent <- MCParent
    Height <- MCHeight
    Ancestors <- MCAncestors
    Txs <- MCTxs
    FinalRoot <- MCFinalRoot
INVARIANT SaplingExact
