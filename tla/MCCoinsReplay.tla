--------------------------- MODULE MCCoinsReplay ---------------------------
(***************************************************************************)
(* A tree of six blocks above genesis: a1 - a2 - a3 and a1 - b2 - b3 - b4. *)
(* One transaction is in a2 and in b3, another in a3 and in b2; a2 spends  *)
(* an output that it creates itself, which b4 spends after b3.             *)
(***************************************************************************)
EXTENDS CoinsReplay

CONSTANTS g, a1, a2, a3, b2, b3, b4, o1, o2, o3, o4, n1

MCBlock == {g, a1, a2, a3, b2, b3, b4}

MCParent == (a1 :> g) @@ (a2 :> a1) @@ (a3 :> a2) @@ (b2 :> a1) @@ (b3 :> b2) @@ (b4 :> b3)

MCHeight == (g :> 0) @@ (a1 :> 1) @@ (a2 :> 2) @@ (a3 :> 3) @@ (b2 :> 2) @@ (b3 :> 3) @@ (b4 :> 4)

MCAncestors == (g :> {g}) @@ (a1 :> {g, a1}) @@ (a2 :> {g, a1, a2}) @@ (a3 :> {g, a1, a2, a3})
               @@ (b2 :> {g, a1, b2}) @@ (b3 :> {g, a1, b2, b3}) @@ (b4 :> {g, a1, b2, b3, b4})

Base  == [vin |-> {}, vout |-> {o1, o2}, nullifiers |-> {}]
Pay   == [vin |-> {o1}, vout |-> {o3}, nullifiers |-> {}]
Chain == [vin |-> {o3}, vout |-> {o4}, nullifiers |-> {}]
Hide  == [vin |-> {o2}, vout |-> {}, nullifiers |-> {n1}]

MCTxs == (g :> <<>>) @@ (a1 :> <<Base>>) @@ (a2 :> <<Pay, Chain>>) @@ (a3 :> <<Hide>>)
         @@ (b2 :> <<Hide>>) @@ (b3 :> <<Pay>>) @@ (b4 :> <<Chain>>)

MCFinalRoot == (g :> <<>>) @@ (a1 :> <<a1>>) @@ (a2 :> <<a1>>) @@ (a3 :> <<a1, a3>>)
               @@ (b2 :> <<a1, b2>>) @@ (b3 :> <<a1, b2, b3>>) @@ (b4 :> <<a1, b2, b3>>)

MCRoot == {MCFinalRoot[b] : b \in MCBlock}

MCEmptyRoot == <<>>

=============================================================================
