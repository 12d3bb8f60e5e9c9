---------------------------- MODULE CoinsReplay ----------------------------
(***************************************************************************)
(* Blocks on the coins database (validation.cpp, txdb.cpp): ConnectTip and *)
(* DisconnectTip through a view above pcoinsTip, the flush of pcoinsTip in *)
(* several batches with head markers, crashes between any two batches, and *)
(* ReplayBlocks, which rolls the half-written database back to the fork    *)
(* and forward to the new tip in one cache and flushes that, in batches    *)
(* again.  A coin is known by the height it was created at; the tree of an *)
(* anchor by its root, the sequence of blocks with notes up to it.  Blocks *)
(* and undo data are on disk before the coins (see ChainState).  Reads     *)
(* that only fill caches are in CoinsCache.                                *)
(***************************************************************************)
EXTENDS Coins, Sequences, SequencesExt

CONSTANTS
    Block,
    Genesis,
    Parent,         \* pprev
    Height,         \* nHeight
    Ancestors,      \* the blocks from Genesis to the block, both included
    Txs,            \* the transactions of each block: [vin, vout, nullifiers]
    FinalRoot       \* hashFinalSaplingRoot

ASSUME BlockAssumption ==
    /\ Genesis \in Block /\ Null \notin Block
    /\ Parent \in [Block \ {Genesis} -> Block]
    /\ \A b \in Block \ {Genesis} : Height[b] = Height[Parent[b]] + 1 /\ Height[b] \in Coin
    /\ \A b \in Block \ {Genesis} : Ancestors[b] = Ancestors[Parent[b]] \cup {b}
    /\ Txs \in [Block -> Seq([vin : SUBSET Outpoint, vout : SUBSET Outpoint, nullifiers : SUBSET Nullifier])]
    /\ FinalRoot \in [Block -> Root] /\ FinalRoot[Genesis] = EmptyRoot

VARIABLES
    proc,       \* running, flushing, down, replay or replayFlushing
    db,         \* coins, nullifiers and anchors on disk
    best,       \* DB_BEST_BLOCK, or Null
    heads,      \* DB_HEAD_BLOCKS: the new and the old tip, or nothing
    cache,      \* pcoinsTip, or the cache of ReplayBlocks
    hashBlock,  \* its best block
    undo        \* the undo data of each block

vars == <<proc, db, best, heads, cache, hashBlock, undo>>

\* The genesis block is connected without touching the coins.
Init ==
    /\ proc = "running"
    /\ db = [coins |-> [o \in Outpoint |-> NoCoin], nullifiers |-> {}, anchors |-> {}, best |-> Null]
    /\ best = Null /\ heads = <<>>
    /\ cache = EmptyCache /\ hashBlock = Genesis
    /\ undo = [b \in Block |-> Null]

-----------------------------------------------------------------------------
(* Blocks on a cache.  s has the cache's coins and the outpoints that the  *)
(* base was asked for; below is what the base answers.                     *)

Seen(m, o, below) == IF m[o] = Absent THEN below[o] ELSE m[o].coin

Asking(s, S) == s.asked \cup {o \in S : s.coins[o] = Absent}

SpendAll(s, S, below) ==
    [coins |-> [o \in Outpoint |-> IF o \in S THEN SpendCoin(s.coins, o, below[o])[o] ELSE s.coins[o]],
     asked |-> Asking(s, S)]

\* AddCoins with check = false.
AddNew(s, S, height) ==
    [coins |-> [o \in Outpoint |-> IF o \in S THEN AddCoin(s.coins, o, height, FALSE)[o] ELSE s.coins[o]],
     asked |-> s.asked]

\* AddCoins with check = true, and ApplyTxInUndo: coin[o] is the coin to add.
AddChecked(s, S, coin, below) ==
    [coins |-> [o \in Outpoint |->
                  LET fetched == FetchCoin(s.coins, o, below[o])
                  IN  IF o \in S THEN AddCoin(fetched, o, coin[o], HaveCoin(fetched, o))[o] ELSE s.coins[o]],
     asked |-> Asking(s, S)]

UpdateCoins(s, tx, height, below) == AddNew(SpendAll(s, tx.vin, below), tx.vout, height)

UndoTx(s, tx, coin, below) == AddChecked(SpendAll(s, tx.vout, below), tx.vin, coin, below)

\* Mutant: the inputs of the transaction stay.
RollforwardTxKeepsInputs(s, tx, height, below) == AddChecked(s, tx.vout, [o \in Outpoint |-> height], below)

RollforwardTx(s, tx, height, below) ==
    AddChecked(SpendAll(s, tx.vin, below), tx.vout, [o \in Outpoint |-> height], below)

Nullifiers(b) == UNION {Txs[b][i].nullifiers : i \in DOMAIN Txs[b]}

SetNullifiers(m, S, spent) ==
    [n \in Nullifier |-> IF n \in S THEN SetNullifier(m, n, spent)[n] ELSE m[n]]

BestAnchor(c, base) == IF c.hashSaplingAnchor = Null THEN base.best ELSE c.hashSaplingAnchor

HasAnchor(c, base, r) == IF c.anchors[r] = Absent THEN r \in base.anchors ELSE c.anchors[r].entered

\* The state of a cache or database as the base of another cache.
DBBase == [coins |-> [o \in Outpoint |-> DBCoin(db.coins, o)], nullifiers |-> db.nullifiers,
           anchors |-> DBAnchors(db), best |-> DBBestAnchor(db)]

TipBase ==
    [coins |-> [o \in Outpoint |-> Seen(cache.coins, o, DBBase.coins)],
     nullifiers |-> {n \in Nullifier : IF cache.nullifiers[n] = Absent THEN n \in db.nullifiers
                                       ELSE cache.nullifiers[n].entered},
     anchors |-> {r \in Root : HasAnchor(cache, DBBase, r)},
     best |-> BestAnchor(cache, DBBase)]

-----------------------------------------------------------------------------
(* ConnectBlock, DisconnectBlock and RollforwardBlock                      *)

\* Before each transaction of the block, from the first to the last.
Connecting(b, below) ==
    [i \in 1..(Len(Txs[b]) + 1) |->
        FoldLeft(LAMBDA s, tx : UpdateCoins(s, tx, Height[b], below),
                 [coins |-> EmptyCache.coins, asked |-> {}], SubSeq(Txs[b], 1, i - 1))]

HaveInputs(b, base) ==
    \A i \in DOMAIN Txs[b] : \A o \in Txs[b][i].vin : Seen(Connecting(b, base.coins)[i].coins, o, base.coins) \in Coin

\* The coins that SpendCoin moves into the undo data.
SpentCoins(b, base) ==
    [o \in UNION {Txs[b][i].vin : i \in DOMAIN Txs[b]} |->
        LET i == CHOOSE i \in DOMAIN Txs[b] : o \in Txs[b][i].vin
        IN  Seen(Connecting(b, base.coins)[i].coins, o, base.coins)]

\* The root after the notes of the block, if any, are appended.
RootAfter(b, base) == IF FinalRoot[b] = FinalRoot[Parent[b]] THEN base.best ELSE Append(base.best, b)

ConnectBlock(b, base) ==
    LET s == Connecting(b, base.coins)[Len(Txs[b]) + 1]
    IN  [view |-> [coins      |-> s.coins,
                   nullifiers |-> SetNullifiers(EmptyCache.nullifiers, Nullifiers(b), TRUE),
                   anchors    |-> IF RootAfter(b, base) = base.best THEN EmptyCache.anchors
                                  ELSE EnterAnchor(EmptyCache.anchors, FinalRoot[b]),
                   hashSaplingAnchor |-> FinalRoot[b]],
         asked |-> s.asked]

\* Transactions are undone from the last to the first.
UndoTxs(s, b, below) == FoldLeft(LAMBDA x, tx : UndoTx(x, tx, undo[b], below), s, Reverse(Txs[b]))

\* PopAnchor asserts that the anchor it removes can be read.
CanPopAnchor(c, b, base) == BestAnchor(c, base) = FinalRoot[Parent[b]] \/ HasAnchor(c, base, BestAnchor(c, base))

DisconnectBlock(c, asked, b, base) ==
    LET s == UndoTxs([coins |-> c.coins, asked |-> asked], b, base.coins)
        current == BestAnchor(c, base)
    IN  [view |-> [coins      |-> s.coins,
                   nullifiers |-> SetNullifiers(c.nullifiers, Nullifiers(b), FALSE),
                   anchors    |-> IF current = FinalRoot[Parent[b]] THEN c.anchors ELSE RemoveAnchor(c.anchors, current),
                   hashSaplingAnchor |-> FinalRoot[Parent[b]]],
         asked |-> s.asked]

\* DISCONNECT_OK: every output is there and no input is.
IsClean(b, base) ==
    LET rev == Reverse(Txs[b])
        before(i) == FoldLeft(LAMBDA x, tx : UndoTx(x, tx, undo[b], base.coins),
                              [coins |-> EmptyCache.coins, asked |-> {}], SubSeq(rev, 1, i - 1))
    IN  \A i \in DOMAIN rev :
           /\ \A o \in rev[i].vout : Seen(before(i).coins, o, base.coins) \in Coin
           /\ \A o \in rev[i].vin : Seen(SpendAll(before(i), rev[i].vout, base.coins).coins, o, base.coins) \notin Coin

RollforwardBlock(c, b, base) ==
    WithCoins(c, FoldLeft(LAMBDA s, tx : RollforwardTx(s, tx, Height[b], base.coins),
                          [coins |-> c.coins, asked |-> {}], Txs[b]).coins)

-----------------------------------------------------------------------------
(* The running node *)

\* view.Flush() into pcoinsTip, which has cached what the view asked for.
FlushView(r) ==
    cache' = BatchWrite(r.view, WithCoins(cache, [o \in Outpoint |->
                 IF o \in r.asked THEN FetchCoin(cache.coins, o, DBBase.coins[o])[o] ELSE cache.coins[o]]))

\* A block that spends what is not there, or whose tree has another root, is refused.
ConnectTip(b) ==
    /\ proc = "running" /\ b # Genesis /\ Parent[b] = hashBlock
    /\ TipBase.best \in TipBase.anchors
    /\ HaveInputs(b, TipBase)
    /\ Nullifiers(b) \cap TipBase.nullifiers = {}
    /\ RootAfter(b, TipBase) = FinalRoot[b]
    /\ FlushView(ConnectBlock(b, TipBase))
    /\ hashBlock' = b
    /\ undo' = IF undo[b] = Null THEN [undo EXCEPT ![b] = SpentCoins(b, TipBase)] ELSE undo
    /\ UNCHANGED <<proc, db, best, heads>>

DisconnectTip ==
    /\ proc = "running" /\ hashBlock # Genesis
    /\ IsClean(hashBlock, TipBase)
    /\ CanPopAnchor(EmptyCache, hashBlock, TipBase)
    /\ FlushView(DisconnectBlock(EmptyCache, {}, hashBlock, TipBase))
    /\ hashBlock' = Parent[hashBlock]
    /\ UNCHANGED <<proc, db, best, heads, undo>>

\* The assertions on anchors in ConnectBlock and PopAnchor end the process.
AnchorAsserts ==
    /\ proc = "running"
    /\ \/ TipBase.best \notin TipBase.anchors
       \/ hashBlock # Genesis /\ ~CanPopAnchor(EmptyCache, hashBlock, TipBase)
    /\ proc' = "down" /\ cache' = EmptyCache /\ hashBlock' = Genesis
    /\ UNCHANGED <<db, best, heads, undo>>

-----------------------------------------------------------------------------
(* CCoinsViewDB::BatchWrite, in batches *)

OldTip == IF best = Null /\ heads # <<>> THEN heads[2] ELSE best

\* Mutant: a partial batch is written without the head markers.
PartialBatchUnmarked(S) ==
    /\ proc \in {"running", "flushing", "replay", "replayFlushing"}
    /\ \A o \in S : cache.coins[o] # Absent /\ cache.coins[o].dirty
    /\ db' = [db EXCEPT !.coins = DBWriteCoins(cache.coins, db.coins, S)]
    /\ cache' = WithCoins(cache, [o \in Outpoint |-> IF o \in S THEN Absent ELSE cache.coins[o]])
    /\ proc' = IF proc \in {"running", "flushing"} THEN "flushing" ELSE "replayFlushing"
    /\ UNCHANGED <<best, heads, hashBlock, undo>>

\* The coins S have filled a batch; they are erased from the map.
PartialBatch(S) ==
    /\ proc \in {"running", "flushing", "replay", "replayFlushing"}
    /\ \A o \in S : cache.coins[o] # Absent /\ cache.coins[o].dirty
    /\ best' = Null /\ heads' = <<hashBlock, OldTip>>
    /\ db' = [db EXCEPT !.coins = DBWriteCoins(cache.coins, db.coins, S)]
    /\ cache' = WithCoins(cache, [o \in Outpoint |-> IF o \in S THEN Absent ELSE cache.coins[o]])
    /\ proc' = IF proc \in {"running", "flushing"} THEN "flushing" ELSE "replayFlushing"
    /\ UNCHANGED <<hashBlock, undo>>

\* After ReplayBlocks a new pcoinsTip is made.
LastBatch ==
    /\ proc \in {"running", "flushing", "replay", "replayFlushing"}
    /\ db' = BatchWriteDB(cache, db, Outpoint)
    /\ best' = hashBlock /\ heads' = <<>>
    /\ cache' = IF proc \in {"running", "flushing"} THEN Flushed(cache) ELSE EmptyCache
    /\ proc' = "running"
    /\ UNCHANGED <<hashBlock, undo>>

-----------------------------------------------------------------------------
(* Crash, restart and ReplayBlocks *)

Crash ==
    /\ proc # "down"
    /\ proc' = "down" /\ cache' = EmptyCache /\ hashBlock' = Genesis
    /\ UNCHANGED <<db, best, heads, undo>>

\* LoadChainTip; without a best block the chain starts again at Genesis.
Restart ==
    /\ proc = "down" /\ heads = <<>>
    /\ proc' = "running" /\ hashBlock' = IF best = Null THEN Genesis ELSE best
    /\ UNCHANGED <<db, best, heads, cache, undo>>

\* The old branch down to the fork, and the new one up from it.
OldBranch == IF heads[2] = Null THEN <<>>
             ELSE SetToSortSeq(Ancestors[heads[2]] \ Ancestors[heads[1]], LAMBDA x, y : Height[x] > Height[y])

NewBranch == SetToSortSeq(Ancestors[heads[1]] \ (IF heads[2] = Null THEN {Genesis} ELSE Ancestors[heads[2]]),
                          LAMBDA x, y : Height[x] < Height[y])

RolledBack(branch) ==
    FoldLeft(LAMBDA x, b : DisconnectBlock(x.view, x.asked, b, DBBase), [view |-> EmptyCache, asked |-> {}], branch)

\* PopAnchor's assertion would end the start-up.
CanRollBack ==
    \A i \in DOMAIN OldBranch : CanPopAnchor(RolledBack(SubSeq(OldBranch, 1, i - 1)).view, OldBranch[i], DBBase)

ReplayBlocks ==
    /\ proc = "down" /\ heads # <<>>
    /\ CanRollBack
    /\ cache' = FoldLeft(LAMBDA c, b : RollforwardBlock(c, b, DBBase), RolledBack(OldBranch).view, NewBranch)
    /\ proc' = "replay" /\ hashBlock' = heads[1]
    /\ UNCHANGED <<db, best, heads, undo>>

-----------------------------------------------------------------------------

Next ==
    \/ \E b \in Block : ConnectTip(b)
    \/ DisconnectTip
    \/ AnchorAsserts
    \/ \E S \in SUBSET Outpoint \ {{}} : PartialBatch(S)
    \/ LastBatch
    \/ Crash
    \/ Restart
    \/ ReplayBlocks

Spec == Init /\ [][Next]_vars

-----------------------------------------------------------------------------
(* Properties *)

\* The unspent outputs after the blocks up to b, by the meaning of blocks.
Utxo[b \in Block] ==
    IF b = Genesis THEN [o \in Outpoint |-> NoCoin]
    ELSE FoldLeft(LAMBDA u, tx : [o \in Outpoint |-> IF o \in tx.vout THEN Height[b]
                                                    ELSE IF o \in tx.vin THEN NoCoin ELSE u[o]],
                  Utxo[Parent[b]], Txs[b])

Blank(coin) == IF coin = Absent THEN NoCoin ELSE coin

\* A database without head markers holds exactly the unspent outputs of its
\* best block, and what pcoinsTip shows above it are exactly those of the tip,
\* whatever batches, crashes and replays came before.
CoinsExact ==
    /\ heads = <<>> => db.coins = Utxo[IF best = Null THEN Genesis ELSE best]
    /\ proc = "running" => [o \in Outpoint |-> Blank(TipBase.coins[o])] = Utxo[hashBlock]

\* The tip can always be disconnected: DisconnectBlock finds all its outputs
\* and none of its inputs, so that a reorganisation cannot get stuck on
\* DISCONNECT_UNCLEAN after a crash.
DisconnectClean == proc = "running" /\ hashBlock # Genesis => IsClean(hashBlock, TipBase)

\* In the last batch the database is marked consistent with its best block:
\* its nullifiers and anchors are those of that block too.
SaplingExact ==
    heads = <<>> /\ best # Null =>
        /\ db.nullifiers = UNION {Nullifiers(b) : b \in Ancestors[best]}
        /\ DBBestAnchor(db) = FinalRoot[best]

=============================================================================
