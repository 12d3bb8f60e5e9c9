---------------------------- MODULE MCChainState ----------------------------
(* A chain g - a1 - a2 - a3 with a branch b2 - b3 from a1; V6 rules start  *)
(* at height 2, so that a reorganisation crosses V6 blocks.                *)
EXTENDS ChainState, TLC

CONSTANTS g, a1, a2, a3, b2, b3

MCBlock == {g, a1, a2, a3, b2, b3}
MCParent == a1 :> g @@ a2 :> a1 @@ a3 :> a2 @@ b2 :> a1 @@ b3 :> b2
MCHeight == g :> 0 @@ a1 :> 1 @@ a2 :> 2 @@ a3 :> 3 @@ b2 :> 2 @@ b3 :> 3
MCAncestors == g :> {g} @@ a1 :> {g, a1} @@ a2 :> {g, a1, a2} @@ a3 :> {g, a1, a2, a3}
               @@ b2 :> {g, a1, b2} @@ b3 :> {g, a1, b2, b3}

\* Every point of the process's life.
MCAllPoints == {"running", "writeIndex", "coins", "coinsPartial", "evoCommit",
                "replay", "replayFlush", "loadTip", "verify"}
MCCoinLookup == {a3}
=============================================================================
