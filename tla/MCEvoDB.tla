------------------------------ MODULE MCEvoDB ------------------------------
(* Two keys and two values of different sizes.                             *)
EXTENDS EvoDB, TLC

CONSTANTS k1, k2, v1, v2

MCKey == {k1, k2}
MCValue == {v1, v2}
MCKeySize == k1 :> 1 @@ k2 :> 2
MCValueSize == v1 :> 3 @@ v2 :> 5
=============================================================================
