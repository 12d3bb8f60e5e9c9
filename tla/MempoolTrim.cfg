SPECIFICATION Spec
CONSTANTS
    base = base
    cb = cb
    t1 = t1
    t2 = t2
    t3 = t3
    z = z
    reg = reg
    u = u
    c = c
    reg2 = reg2
    g = g
    a1 = a1
    a2 = a2
    a3 = a3
    b2 = b2
    b3 = b3
    nf = nf
    ad1 = ad1
    ad2 = ad2
    k1 = k1
    k2 = k2
    None = None
    Tx <- MCTx
    tx <- MCtx
    Size <- MCSize
    Outpoint <- MCOutpoint
    Nullifier = {nf}
    Addr = {ad1, ad2}
    Key = {k1, k2}
    Block <- MCBlock
    Genesis = g
    Parent <- MCParent
    Height <- MCHeight
    Ancestors <- MCAncestors
    Txs <- MCTxs
    Maturity = 2
    MaxMempool = 3
    MaxQueued = 4
    MaxNotices = 1
INVARIANT ReorgLeavesMinable
