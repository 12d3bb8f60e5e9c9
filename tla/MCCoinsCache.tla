---------------------------- MODULE MCCoinsCache ----------------------------
EXTENDS CoinsCache, TLC

CONSTANTS o1, c1, c2, n1, r0, r1

MCOutpoint == {o1}
MCCoin == {c1, c2}
MCNullifier == {n1}
MCRoot == {r0, r1}
MCExtends == {<<r1, r0>>}

Symmetry == Permutations(MCCoin)

=============================================================================
