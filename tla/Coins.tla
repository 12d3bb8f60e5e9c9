------------------------------- MODULE Coins -------------------------------
(***************************************************************************)
(* CCoinsViewCache (coins.h, coins.cpp) over its base, and the coins       *)
(* database underneath (txdb.cpp, sapling/sapling_txdb.cpp), as operators  *)
(* on their contents.  A cache holds coins with DIRTY and FRESH flags,     *)
(* Sapling nullifiers and anchors with a DIRTY flag, and the best anchor,  *)
(* which is looked up in the base when first asked for.  The tree of an    *)
(* anchor is known from its root and left out, as is the memory accounting.*)
(***************************************************************************)
EXTENDS Naturals

CONSTANTS
    Outpoint,
    Coin,         \* unspent outputs with their metadata
    NoCoin,       \* a Coin for which IsSpent holds
    Nullifier,
    Root,         \* roots of the Sapling commitment tree
    EmptyRoot,
    Absent,       \* no entry in a map
    Null          \* a hash for which IsNull holds

ASSUME CoinsAssumption ==
    /\ NoCoin \notin Coin
    /\ EmptyRoot \in Root /\ Null \notin Root
    /\ Absent \notin Coin \cup {NoCoin}
    /\ Absent \notin [coin : Coin \cup {NoCoin}, dirty : BOOLEAN, fresh : BOOLEAN]
    /\ Absent \notin [entered : BOOLEAN, dirty : BOOLEAN]

CoinEntry == [coin : Coin \cup {NoCoin}, dirty : BOOLEAN, fresh : BOOLEAN]

FlagEntry == [entered : BOOLEAN, dirty : BOOLEAN]

\* What CCoinsViewCache keeps.
Cache == [coins      : [Outpoint -> CoinEntry \cup {Absent}],
          nullifiers : [Nullifier -> FlagEntry \cup {Absent}],
          anchors    : [Root -> FlagEntry \cup {Absent}],
          hashSaplingAnchor : Root \cup {Null}]

EmptyCache == [coins      |-> [o \in Outpoint |-> Absent],
               nullifiers |-> [n \in Nullifier |-> Absent],
               anchors    |-> [r \in Root |-> Absent],
               hashSaplingAnchor |-> Null]

\* Cache c with other coins, nullifiers, or anchors and best anchor.
WithCoins(c, m) == [coins |-> m, nullifiers |-> c.nullifiers, anchors |-> c.anchors,
                    hashSaplingAnchor |-> c.hashSaplingAnchor]

WithNullifiers(c, m) == [coins |-> c.coins, nullifiers |-> m, anchors |-> c.anchors,
                         hashSaplingAnchor |-> c.hashSaplingAnchor]

WithAnchors(c, m, best) == [coins |-> c.coins, nullifiers |-> c.nullifiers, anchors |-> m,
                            hashSaplingAnchor |-> best]

\* The keys of the coins database.
Database == [coins : [Outpoint -> Coin \cup {NoCoin}], nullifiers : SUBSET Nullifier,
             anchors : SUBSET Root, best : Root \cup {Null}]

-----------------------------------------------------------------------------
(* Coins.  A base is asked for a coin and answers with a coin, spent or    *)
(* not, or with Absent.                                                    *)

DBCoin(d, o) == IF d[o] = NoCoin THEN Absent ELSE d[o]

CachedCoin(m, o) == IF m[o] = Absent THEN Absent ELSE m[o].coin

\* FetchCoin, where base is the base's answer for o.
FetchCoin(m, o, base) ==
    IF m[o] # Absent \/ base = Absent THEN m
    ELSE [m EXCEPT ![o] = [coin |-> base, dirty |-> FALSE, fresh |-> base = NoCoin]]

HaveCoin(m, o) == CachedCoin(m, o) \in Coin

Slot(m, o) == IF m[o] = Absent THEN [coin |-> NoCoin, dirty |-> FALSE, fresh |-> FALSE] ELSE m[o]

\* It throws a logic_error if possible_overwrite is false and the entry holds a coin.  No caller
\* gets there: ConnectBlock adds only where there is none, the others pass what HaveCoin says.
AddCoin(m, o, coin, possible_overwrite) ==
    [m EXCEPT ![o] = [coin  |-> coin,
                      dirty |-> TRUE,
                      fresh |-> Slot(m, o).fresh \/ (~possible_overwrite /\ ~Slot(m, o).dirty)]]

SpendCoin(m, o, base) ==
    LET f == FetchCoin(m, o, base)
    IN  IF f[o] = Absent THEN f
        ELSE IF f[o].fresh THEN [f EXCEPT ![o] = Absent]
        ELSE [f EXCEPT ![o] = [coin |-> NoCoin, dirty |-> TRUE, fresh |-> FALSE]]

Uncache(m, o) ==
    IF m[o] # Absent /\ ~m[o].dirty /\ ~m[o].fresh THEN [m EXCEPT ![o] = Absent] ELSE m

\* Mutant: the FRESH flag of the child is copied to a pruned entry of the parent.
BatchWriteCoinFresh(child, parent) ==
    IF child = Absent \/ ~child.dirty THEN parent
    ELSE IF parent = Absent THEN IF child.fresh /\ child.coin = NoCoin THEN Absent ELSE child
    ELSE IF parent.fresh /\ child.coin = NoCoin THEN Absent
    ELSE [coin |-> child.coin, dirty |-> TRUE, fresh |-> parent.fresh \/ child.fresh]

\* One entry of the loop of BatchWrite: child into parent.
BatchWriteCoin(child, parent) ==
    IF child = Absent \/ ~child.dirty THEN parent
    ELSE IF parent = Absent THEN IF child.fresh /\ child.coin = NoCoin THEN Absent ELSE child
    ELSE IF parent.fresh /\ child.coin = NoCoin THEN Absent
    ELSE [coin |-> child.coin, dirty |-> TRUE, fresh |-> parent.fresh]

BatchWriteCoins(child, parent) == [o \in Outpoint |-> BatchWriteCoin(child[o], parent[o])]

\* "FRESH flag misapplied to cache entry for base transaction with spendable outputs"
FreshMisapplied(child, parent) ==
    \E o \in Outpoint : /\ child[o] # Absent /\ child[o].dirty /\ child[o].fresh
                        /\ parent[o] # Absent /\ parent[o].coin # NoCoin

\* What CCoinsViewDB::BatchWrite writes for the outpoints S.
DBWriteCoins(m, d, S) ==
    [o \in Outpoint |-> IF o \in S /\ m[o] # Absent /\ m[o].dirty THEN m[o].coin ELSE d[o]]

-----------------------------------------------------------------------------
(* Nullifiers and anchors *)

GetNullifier(m, n, base) ==
    IF m[n] = Absent THEN [m EXCEPT ![n] = [entered |-> base, dirty |-> FALSE]] ELSE m

\* Mutant: an entry that was cached by a read is not marked DIRTY.
SetNullifierClean(m, n, spent) == [m EXCEPT ![n] = [entered |-> spent, dirty |-> m[n] = Absent \/ m[n].dirty]]

SetNullifier(m, n, spent) == [m EXCEPT ![n] = [entered |-> spent, dirty |-> TRUE]]

\* GetSaplingAnchorAt caches an anchor only if the base has it.
GetSaplingAnchorAt(m, r, base) ==
    IF m[r] = Absent /\ base THEN [m EXCEPT ![r] = [entered |-> TRUE, dirty |-> FALSE]] ELSE m

EnterAnchor(m, r) == [m EXCEPT ![r] = [entered |-> TRUE, dirty |-> TRUE]]

\* Mutant: the removal is not marked DIRTY.
RemoveAnchorClean(m, r) == [m EXCEPT ![r].entered = FALSE]

RemoveAnchor(m, r) == [m EXCEPT ![r] = [entered |-> FALSE, dirty |-> TRUE]]

\* BatchWriteNullifiers and BatchWriteAnchors, for one entry.
BatchWriteFlag(child, parent) ==
    IF child = Absent \/ ~child.dirty THEN parent
    ELSE IF parent = Absent THEN child
    ELSE IF parent.entered # child.entered THEN [entered |-> child.entered, dirty |-> TRUE]
    ELSE parent

BatchWriteFlags(child, parent) == [x \in DOMAIN child |-> BatchWriteFlag(child[x], parent[x])]

DBWriteFlags(m, d) ==
    {x \in DOMAIN m : IF m[x] # Absent /\ m[x].dirty THEN m[x].entered ELSE x \in d}

\* The empty tree is not stored.
DBAnchors(d) == d.anchors \cup {EmptyRoot}

DBBestAnchor(d) == IF d.best = Null THEN EmptyRoot ELSE d.best

-----------------------------------------------------------------------------

\* CCoinsViewCache::BatchWrite
BatchWrite(child, parent) ==
    [coins             |-> BatchWriteCoins(child.coins, parent.coins),
     nullifiers        |-> BatchWriteFlags(child.nullifiers, parent.nullifiers),
     anchors           |-> BatchWriteFlags(child.anchors, parent.anchors),
     hashSaplingAnchor |-> child.hashSaplingAnchor]

\* The last batch of CCoinsViewDB::BatchWrite, with the coins of S in it.
BatchWriteDB(m, d, S) ==
    [coins      |-> DBWriteCoins(m.coins, d.coins, S),
     nullifiers |-> DBWriteFlags(m.nullifiers, d.nullifiers),
     anchors    |-> DBWriteFlags(m.anchors, d.anchors) \ {EmptyRoot},
     best       |-> IF m.hashSaplingAnchor = Null THEN d.best ELSE m.hashSaplingAnchor]

\* Flush empties the maps; the best anchor stays.
Flushed(m) == WithAnchors(EmptyCache, EmptyCache.anchors, m.hashSaplingAnchor)

=============================================================================
