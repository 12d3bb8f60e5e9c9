---------------------------- MODULE MCDMNManager ----------------------------
EXTENDS DMNManager

CONSTANTS r, a1, a2, a3, b3, m1, m2, m3

\* A chain of three blocks and a fork after the second.
MCParent == a1 :> r @@ a2 :> a1 @@ a3 :> a2 @@ b3 :> a2

Does(add, drop, pay) == [add |-> add, drop |-> drop, pay |-> pay]

\* In a2 a masternode comes and goes, a3 registers it again and drops the first one, and b3, the other block after a2, registers a third one and pays.
MCContent ==
    a1 :> Does(<<m1>>, <<>>, <<>>) @@
    a2 :> Does(<<m2>>, <<m2>>, <<m1>>) @@
    a3 :> Does(<<m2>>, <<m1>>, <<>>) @@
    b3 :> Does(<<m3>>, <<>>, <<m1>>)

Payload(c, k, s) ==
    [internalId |-> 0, collateral |-> c, nRegisteredHeight |-> 0, nLastPaidHeight |-> 0,
     nPoSeRevivedHeight |-> -1, nPoSeBanHeight |-> -1, confirmed |-> -1,
     keyIDOwner |-> k, keyIDOperator |-> k, addr |-> s]

CONSTANTS c1, c2, c3, k1, k2, k3, s1, s2

MCDMNOf == m1 :> Payload(c1, k1, s1) @@ m2 :> Payload(c2, k2, s2) @@ m3 :> Payload(c3, k3, s2)

MCRank == m1 :> 1 @@ m2 :> 2 @@ m3 :> 3

=============================================================================
