----------------------------- MODULE CoinsViews -----------------------------
(***************************************************************************)
(* What the stack of coins views promises ConnectBlock, DisconnectBlock    *)
(* and the readers of pcoinsTip: three plain states, the durable one, the  *)
(* one of the tip and the one a block is being applied to, without caches  *)
(* or flags.  Each operation does to its state exactly what its name says. *)
(***************************************************************************)
CONSTANTS Outpoint, Coin, NoCoin, Nullifier, Root, EmptyRoot

VARIABLES durable, committed, working

vars == <<durable, committed, working>>

State == [coins : [Outpoint -> Coin \cup {NoCoin}], nullifiers : SUBSET Nullifier,
          anchors : SUBSET Root, best : Root]

Init ==
    /\ durable = [coins |-> [o \in Outpoint |-> NoCoin], nullifiers |-> {},
                  anchors |-> {EmptyRoot}, best |-> EmptyRoot]
    /\ committed = durable /\ working = durable

SetCoin(o, c) ==
    /\ working' = [coins |-> [working.coins EXCEPT ![o] = c], nullifiers |-> working.nullifiers,
                   anchors |-> working.anchors, best |-> working.best]
    /\ UNCHANGED <<durable, committed>>

SetNullifier(n, spent) ==
    /\ working' = [coins |-> working.coins,
                   nullifiers |-> IF spent THEN working.nullifiers \cup {n} ELSE working.nullifiers \ {n},
                   anchors |-> working.anchors, best |-> working.best]
    /\ UNCHANGED <<durable, committed>>

PushAnchor(r) ==
    /\ working' = [coins |-> working.coins, nullifiers |-> working.nullifiers,
                   anchors |-> working.anchors \cup {r}, best |-> r]
    /\ UNCHANGED <<durable, committed>>

PopAnchor(r) ==
    /\ working' = [coins |-> working.coins, nullifiers |-> working.nullifiers,
                   anchors |-> IF r = working.best THEN working.anchors ELSE working.anchors \ {working.best},
                   best |-> r]
    /\ UNCHANGED <<durable, committed>>

Flush ==
    /\ committed' = working
    /\ UNCHANGED <<durable, working>>

Discard ==
    /\ working' = committed
    /\ UNCHANGED <<durable, committed>>

Persist ==
    /\ durable' = committed
    /\ UNCHANGED <<committed, working>>

Crash ==
    /\ committed' = durable /\ working' = durable
    /\ UNCHANGED durable

=============================================================================
