------------------------- MODULE MCChainActivation -------------------------
(***************************************************************************)
(* Two forks over the genesis block and one over b1.  b2 is a              *)
(* proof-of-work block after the end of the proof-of-work period, which    *)
(* AcceptBlock takes and ConnectBlock refuses, and a2 is a block that      *)
(* ContextualCheckBlock refuses.  a1 has as much work as b1 and c2         *)
(* together, and after a restart, as it lies at a lower address, it is     *)
(* preferred to them.                                                      *)
(***************************************************************************)
EXTENDS ChainActivation, TLC

CONSTANTS a1, a2, b1, b2, c2

MCParent == a1 :> Genesis @@ a2 :> a1 @@ b1 :> Genesis @@ b2 :> b1 @@ c2 :> b1

MCAncestors ==
    Genesis :> {Genesis} @@ a1 :> {Genesis, a1} @@ a2 :> {Genesis, a1, a2} @@
    b1 :> {Genesis, b1} @@ b2 :> {Genesis, b1, b2} @@ c2 :> {Genesis, b1, c2}

MCWork == Genesis :> 1 @@ a1 :> 3 @@ a2 :> 4 @@ b1 :> 2 @@ b2 :> 4 @@ c2 :> 3

MCAddresses == {Genesis :> 1 @@ b1 :> 2 @@ a1 :> 3 @@ a2 :> 4 @@ b2 :> 5 @@ c2 :> 6}
=============================================================================
