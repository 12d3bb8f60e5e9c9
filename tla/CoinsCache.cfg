CONSTANTS
    o1 = o1
    c1 = c1
    c2 = c2
    n1 = n1
    r0 = r0
    r1 = r1
    NoCoin = NoCoin
    Absent = Absent
    Null = Null
    Outpoint <- MCOutpoint
    Coin <- MCCoin
    Nullifier <- MCNullifier
    Root <- MCRoot
    EmptyRoot = r0
    Extends <- MCExtends
SPECIFICATION Spec
INVARIANTS FlagsTrue BestAnchorReadable
PROPERTY EffectExact
SYMMETRY Symmetry
