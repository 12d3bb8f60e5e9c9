----------------------------- MODULE MCMempool -----------------------------
(***************************************************************************)
(* Blocks g - a1 - a2 - a3 and a1 - b2 - b3.  reg registers a masternode   *)
(* with the third output of base as collateral, which c spends; u updates  *)
(* it, to an address that the registration reg2 uses too; reg2 conflicts   *)
(* with t1.  t3 spends t2, which spends t1; z spends a coinbase output and *)
(* has the same nullifier as c.                                            *)
(***************************************************************************)
EXTENDS Mempool

CONSTANTS base, cb, t1, t2, t3, z, reg, u, c, reg2, g, a1, a2, a3, b2, b3, nf, ad1, ad2, k1, k2

MCTx == {base, cb, t1, t2, t3, z, reg, u, c, reg2}

MCOutpoint == {<<base, 1>>, <<base, 2>>, <<base, 3>>, <<base, 4>>, <<cb, 1>>, <<t1, 1>>, <<t2, 1>>, <<reg2, 1>>}

Plain(vin, vout) ==
    [vin |-> vin, vout |-> vout, coinbase |-> FALSE, lock |-> 0, nullifiers |-> {}, anchor |-> None,
     type |-> "plain", collateral |-> None, addrs |-> {}, keys |-> {}, proTx |-> None]

MCtx ==
    (base :> Plain({}, {<<base, i>> : i \in 1..4}))
    @@ (cb :> [Plain({}, {<<cb, 1>>}) EXCEPT !.coinbase = TRUE])
    @@ (t1 :> Plain({<<base, 1>>}, {<<t1, 1>>}))
    @@ (t2 :> Plain({<<t1, 1>>}, {<<t2, 1>>}))
    @@ (t3 :> Plain({<<t2, 1>>}, {}))
    @@ (z  :> [Plain({<<cb, 1>>}, {}) EXCEPT !.nullifiers = {nf}, !.anchor = a2])
    @@ (reg  :> [Plain({<<base, 2>>}, {}) EXCEPT !.type = "proreg", !.collateral = <<base, 3>>, !.addrs = {ad1}, !.keys = {k1}])
    @@ (u  :> [Plain({<<base, 4>>}, {}) EXCEPT !.type = "proup", !.addrs = {ad2}, !.proTx = reg])
    @@ (c  :> [Plain({<<base, 3>>}, {}) EXCEPT !.nullifiers = {nf}, !.lock = 2])
    @@ (reg2  :> [Plain({<<base, 1>>}, {<<reg2, 1>>}) EXCEPT !.type = "proreg", !.addrs = {ad2}, !.keys = {k2}])

\* Powers of two: a sum tells which transactions are in it.
MCSize == (base :> 1) @@ (cb :> 1) @@ (t1 :> 2) @@ (t2 :> 4) @@ (t3 :> 8) @@ (z :> 16) @@ (reg :> 32)
          @@ (u :> 64) @@ (c :> 128) @@ (reg2 :> 256)

MCBlock == {g, a1, a2, a3, b2, b3}

MCParent == (a1 :> g) @@ (a2 :> a1) @@ (a3 :> a2) @@ (b2 :> a1) @@ (b3 :> b2)

MCHeight == (g :> 0) @@ (a1 :> 1) @@ (a2 :> 2) @@ (a3 :> 3) @@ (b2 :> 2) @@ (b3 :> 3)

MCAncestors == (g :> {g}) @@ (a1 :> {g, a1}) @@ (a2 :> {g, a1, a2}) @@ (a3 :> {g, a1, a2, a3})
               @@ (b2 :> {g, a1, b2}) @@ (b3 :> {g, a1, b2, b3})

MCTxs == (g :> <<base>>) @@ (a1 :> <<cb, reg>>) @@ (a2 :> <<t1, t2>>) @@ (a3 :> <<z, u>>)
         @@ (b2 :> <<reg2>>) @@ (b3 :> <<c>>)

=============================================================================
