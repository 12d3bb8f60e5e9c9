CONSTANTS
    g = g
    a1 = a1
    a2 = a2
    a3 = a3
    b2 = b2
    b3 = b3
    BestKey = BestKey
    Diff = Diff
    None = None
    Block <- MCBlock
    Genesis = g
    Parent <- MCParent
    Height <- MCHeight
    Ancestors <- MCAncestors
    V6Height = 2
    CheckLevel = 3
    MaxCrashes = 2
    CrashPoints = {"coinsPartial"}
    CoinLookup = {}
SPECIFICATION Spec
INVARIANT ReplayIsComplete
