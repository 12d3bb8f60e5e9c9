----------------------------- MODULE ChainState -----------------------------
(***************************************************************************)
(* The three databases behind the active chain (validation.cpp, init.cpp): *)
(* the block index, the coins database and the EvoDB, how ConnectTip and   *)
(* DisconnectTip move them together in memory, how FlushStateToDisk writes *)
(* them one after the other, and how a restart puts them together again.   *)
(* A UTXO set is represented by the block it belongs to, and the data of a *)
(* masternode list by the presence of the block's diff record.             *)
(***************************************************************************)
EXTENDS Integers, Sequences

CONSTANTS
    Block,          \* every block that may arrive
    Genesis,
    Parent,         \* pprev
    Height,         \* nHeight
    Ancestors,      \* the blocks from Genesis to the block, both included
    V6Height,       \* activation height of UPGRADE_V6_0
    CoinLookup,     \* blocks with a special transaction whose checks call GetUTXOCoin
    CheckLevel,     \* -checklevel
    CrashPoints,    \* values of proc at which the process may die
    MaxCrashes,     \* bound on the number of crashes
    BestKey,        \* EVODB_BEST_BLOCK
    Diff,           \* a masternode list diff record
    None

ASSUME TreeAssumption ==
    /\ Genesis \in Block
    /\ Parent \in [Block \ {Genesis} -> Block]
    /\ Height \in [Block -> Nat]
    /\ Height[Genesis] = 0
    /\ \A b \in Block \ {Genesis} : Height[b] = Height[Parent[b]] + 1
    /\ Ancestors \in [Block -> SUBSET Block]
    /\ Ancestors[Genesis] = {Genesis}
    /\ \A b \in Block \ {Genesis} : Ancestors[b] = Ancestors[Parent[b]] \cup {b}

\* The first block is never under V6 rules (ConnectBlock does not record the
\* genesis block as the EvoDB's best block).
ASSUME V6Assumption == V6Height \in Nat /\ V6Height > 1

ASSUME ConstAssumption ==
    /\ BestKey \notin Block
    /\ Diff \notin Block
    /\ None \notin Block \cup {Diff}
    /\ CoinLookup \subseteq Block
    /\ CheckLevel \in Nat
    /\ MaxCrashes \in Nat

VARIABLES
    proc,       \* what the process is doing
    tip,        \* chainActive.Tip(), the best block of pcoinsTip
    indexMem,   \* blocks of mapBlockIndex with data
    indexDisk,  \* blocks of the block index database
    coinsDisk,  \* DB_BEST_BLOCK and DB_HEAD_BLOCKS of the coins database
    evoDisk,    \* the EvoDB on disk
    evoRoot,    \* rootDBTransaction
    evoCur,     \* curDBTransaction
    crashes,    \* crashes so far
    torn        \* history: a flush was cut off after the coins, before the EvoDB

evo == <<evoDisk, evoRoot, evoCur>>
vars == <<proc, tip, indexMem, indexDisk, coinsDisk, evo, crashes, torn>>

INSTANCE DBTransaction
    WITH Key <- Block \cup {BestKey}, Value <- Block \cup {Diff}, None <- None

EvoView == View(evoCur, View(evoRoot, evoDisk))

VerifyBestBlock(b) == EvoView[BestKey] = b

V6(b) == Height[b] >= V6Height

\* GetListForBlock(b) finds the diffs of b and of its ancestors in the store.
HasLists(store, b) == \A a \in Ancestors[b] : V6(a) => store[a] = Diff

Flushed(b) == [best |-> b, heads |-> <<>>]

Init ==
    /\ proc = "running"
    /\ tip = Genesis
    /\ indexMem = {Genesis}
    /\ indexDisk = {Genesis}
    /\ coinsDisk = Flushed(Genesis)
    /\ evoDisk = EmptyStore
    /\ evoRoot = Clean
    /\ evoCur = Clean
    /\ crashes = 0
    /\ torn = FALSE

-----------------------------------------------------------------------------
(* The running node.                                                       *)

\* AcceptBlock: the block's data is on file, its index entry is dirty.
ReceiveBlock(b) ==
    /\ proc = "running"
    /\ b \notin indexMem
    /\ Parent[b] \in indexMem
    /\ indexMem' = indexMem \cup {b}
    /\ UNCHANGED <<proc, tip, indexDisk, coinsDisk, evo, crashes, torn>>

\* What ProcessBlock and WriteBestBlock leave in the pending transaction.
\* Mutant: the diff is not written.
ProcessBlockNoDiff(t, b) == t

ProcessBlock(t, b) == IF V6(b) THEN TxWrite(t, b, Diff) ELSE t

ConnectBlock(t, b) == TxWrite(ProcessBlock(t, b), BestKey, b)

\* Mutant: the best block is not moved back.
DisconnectBlockKeepsBest(t, b) == t

DisconnectBlock(t, b) == TxWrite(t, BestKey, Parent[b])

\* FlushStateToDisk at the end of ConnectTip and DisconnectTip decides from the
\* cache sizes whether to write.
MaybeFlush == proc' \in {"running", "writeIndex"}

Connectable(b) ==
    /\ proc = "running"
    /\ b \in indexMem \ {Genesis}
    /\ Parent[b] = tip

ConnectTip(b) ==
    /\ Connectable(b)
    /\ V6(b) => VerifyBestBlock(tip) /\ HasLists(EvoView, tip)
    /\ evoRoot' = TxCommit(ConnectBlock(evoCur, b), evoRoot)
    /\ evoCur' = Clean
    /\ tip' = b
    /\ MaybeFlush
    /\ UNCHANGED <<indexMem, indexDisk, coinsDisk, evoDisk, crashes, torn>>

\* The block is found invalid, or its parent's list cannot be rebuilt: the
\* scoped committer rolls the pending transaction back.  TestBlockValidity
\* ends the same way.
RejectBlock(b) ==
    /\ Connectable(b)
    /\ V6(b) => VerifyBestBlock(tip)
    /\ evoCur' = Clean
    /\ UNCHANGED <<proc, tip, indexMem, indexDisk, coinsDisk, evoDisk, evoRoot, crashes, torn>>

DisconnectTip ==
    /\ proc = "running"
    /\ tip # Genesis
    /\ V6(tip) => VerifyBestBlock(tip)
    /\ evoRoot' = TxCommit(DisconnectBlock(evoCur, tip), evoRoot)
    /\ evoCur' = Clean
    /\ tip' = Parent[tip]
    /\ MaybeFlush
    /\ UNCHANGED <<indexMem, indexDisk, coinsDisk, evoDisk, crashes, torn>>

\* "Found EvoDB inconsistency, you must reindex to continue".
AbortNode ==
    /\ proc = "running"
    /\ \/ \E b \in Block : Connectable(b) /\ V6(b) /\ ~VerifyBestBlock(tip)
       \/ V6(tip) /\ ~VerifyBestBlock(tip)
    /\ proc' = "halted"
    /\ evoCur' = Clean
    /\ UNCHANGED <<tip, indexMem, indexDisk, coinsDisk, evoDisk, evoRoot, crashes, torn>>

-----------------------------------------------------------------------------
(* FlushStateToDisk.  cs_main is held throughout: only a crash comes       *)
(* between its steps.                                                      *)

\* Mutant: the coins are written before the block index.
StartFlushCoinsFirst ==
    /\ proc = "running"
    /\ proc' = "coins"
    /\ UNCHANGED <<tip, indexMem, indexDisk, coinsDisk, evo, crashes, torn>>

StartFlush ==
    /\ proc = "running"
    /\ proc' = "writeIndex"
    /\ UNCHANGED <<tip, indexMem, indexDisk, coinsDisk, evo, crashes, torn>>

\* WriteBatchSync; a periodic write stops here, a full flush goes on.
WriteBlockIndex ==
    /\ proc = "writeIndex"
    /\ indexDisk' = indexMem
    /\ proc' \in {"running", "coins"}
    /\ UNCHANGED <<tip, indexMem, coinsDisk, evo, crashes, torn>>

\* CCoinsViewDB::BatchWrite filled a batch: the first one marks the database
\* as being in transition.
CoinsPartialBatch ==
    /\ proc = "coins"
    /\ coinsDisk' = [best |-> None, heads |-> <<tip, coinsDisk.best>>]
    /\ proc' = "coinsPartial"
    /\ UNCHANGED <<tip, indexMem, indexDisk, evo, crashes, torn>>

CoinsFinalBatch ==
    /\ proc \in {"coins", "coinsPartial"}
    /\ coinsDisk' = Flushed(tip)
    /\ proc' = "evoCommit"
    /\ UNCHANGED <<tip, indexMem, indexDisk, evo, crashes, torn>>

CommitRootTransaction ==
    /\ proc = "evoCommit"
    /\ IsClean(evoCur)
    /\ evoDisk' = View(evoRoot, evoDisk)
    /\ evoRoot' = Clean
    /\ proc' = "running"
    /\ UNCHANGED <<tip, indexMem, indexDisk, coinsDisk, evoCur, crashes, torn>>

\* The process is gone and with it everything that was only in memory.
Die ==
    /\ proc' = "down"
    /\ tip' = None
    /\ indexMem' = indexDisk
    /\ evoRoot' = Clean
    /\ evoCur' = Clean
    /\ UNCHANGED <<indexDisk, evoDisk>>

\* assert(curDBTransaction.IsClean()) fails.
CommitRootTransactionAssert ==
    /\ proc = "evoCommit"
    /\ ~IsClean(evoCur)
    /\ Die
    /\ UNCHANGED <<coinsDisk, crashes, torn>>

Crash ==
    /\ proc \in CrashPoints
    /\ crashes < MaxCrashes
    /\ crashes' = crashes + 1
    /\ torn' = (torn \/ proc \in {"coinsPartial", "evoCommit"})
    /\ Die
    /\ UNCHANGED coinsDisk

-----------------------------------------------------------------------------
(* Start-up (init.cpp).                                                    *)

\* LoadBlockIndex, and the test of ReplayBlocks for an interrupted flush.
LoadBlockIndex ==
    /\ proc = "down"
    /\ proc' = IF coinsDisk.heads = <<>> THEN "loadTip" ELSE "replay"
    /\ UNCHANGED <<tip, indexMem, indexDisk, coinsDisk, evo, crashes, torn>>

NewHead == coinsDisk.heads[1]
OldHead == coinsDisk.heads[2]
RolledBack == Ancestors[OldHead] \ Ancestors[NewHead]
RolledForward == Ancestors[NewHead] \ Ancestors[OldHead]

\* DisconnectBlock of the old branch starts from the EvoDB's best block, and
\* the lists of the fork can be rebuilt.
CanReplay ==
    /\ {NewHead, OldHead} \subseteq indexMem
    /\ RolledBack # {} /\ V6(OldHead) => VerifyBestBlock(OldHead)
    /\ \A b \in Ancestors[NewHead] \cap Ancestors[OldHead] : V6(b) => EvoView[b] = Diff

\* The pending transaction after RollforwardBlock of every new block and the
\* final WriteBestBlock.  No scoped committer is open here.
ReplayedTx ==
    [writes  |-> [k \in Block \cup {BestKey} |->
                    IF k = BestKey THEN NewHead
                    ELSE IF k \in RolledForward /\ V6(k) THEN Diff ELSE evoCur.writes[k]],
     deletes |-> {}]

ReplayBlocks ==
    /\ proc = "replay"
    /\ CanReplay
    /\ RolledForward \cap CoinLookup = {}
    /\ evoCur' = ReplayedTx
    /\ proc' = "replayFlush"
    /\ UNCHANGED <<tip, indexMem, indexDisk, coinsDisk, evoDisk, evoRoot, crashes, torn>>

\* CheckSpecialTx reaches GetUTXOCoin, which dereferences pcoinsTip: the cache
\* is only created after ReplayBlocks has returned.
ReplayBlocksNullTip ==
    /\ proc = "replay"
    /\ CanReplay
    /\ RolledForward \cap CoinLookup # {}
    /\ Die
    /\ UNCHANGED <<coinsDisk, crashes, torn>>

\* "Unable to replay blocks. You will need to rebuild the database".
ReplayBlocksFail ==
    /\ proc = "replay"
    /\ ~CanReplay
    /\ proc' = "halted"
    /\ UNCHANGED <<tip, indexMem, indexDisk, coinsDisk, evo, crashes, torn>>

ReplayFlush ==
    /\ proc = "replayFlush"
    /\ coinsDisk' = Flushed(NewHead)
    /\ proc' = "loadTip"
    /\ UNCHANGED <<tip, indexMem, indexDisk, evo, crashes, torn>>

LoadChainTip ==
    /\ proc = "loadTip"
    /\ IF coinsDisk.best \in indexMem
       THEN tip' = coinsDisk.best /\ proc' = "verify"
       ELSE tip' = tip /\ proc' = "halted"
    /\ UNCHANGED <<indexMem, indexDisk, coinsDisk, evo, crashes, torn>>

\* Mutant: the EvoDB is compared with the block before the tip.
VerifyDBOffByOne ==
    /\ proc = "verify"
    /\ evoCur' = IF tip = Genesis THEN evoCur ELSE Clean
    /\ proc' = IF CheckLevel >= 3 /\ V6(tip) /\ ~VerifyBestBlock(Parent[tip])
               THEN "halted" ELSE "running"
    /\ UNCHANGED <<tip, indexMem, indexDisk, coinsDisk, evoDisk, evoRoot, crashes, torn>>

\* CVerifyDB::VerifyDB: the memory-only disconnect of level 3 asks the EvoDB for
\* its best block; the transaction opened for it is rolled back at the end.
VerifyDB ==
    /\ proc = "verify"
    /\ evoCur' = IF tip = Genesis THEN evoCur ELSE Clean
    /\ proc' = IF CheckLevel >= 3 /\ V6(tip) /\ ~VerifyBestBlock(tip)
               THEN "halted" ELSE "running"
    /\ UNCHANGED <<tip, indexMem, indexDisk, coinsDisk, evoDisk, evoRoot, crashes, torn>>

\* The operator restarts with -reindex: every database is wiped.
Reindex ==
    /\ proc = "halted"
    /\ proc' = "running"
    /\ tip' = Genesis
    /\ indexMem' = {Genesis}
    /\ indexDisk' = {Genesis}
    /\ coinsDisk' = Flushed(Genesis)
    /\ evoDisk' = EmptyStore
    /\ evoRoot' = Clean
    /\ evoCur' = Clean
    /\ torn' = FALSE
    /\ UNCHANGED crashes

\* The operator restarts with -reindex-chainstate: the coins are wiped, the
\* EvoDB and the block index stay.
ReindexChainState ==
    /\ proc \in {"down", "halted"}
    /\ proc' = "running"
    /\ tip' = Genesis
    /\ indexMem' = indexDisk
    /\ coinsDisk' = Flushed(Genesis)
    /\ evoRoot' = Clean
    /\ evoCur' = Clean
    /\ UNCHANGED <<indexDisk, evoDisk, crashes, torn>>

-----------------------------------------------------------------------------
Running ==
    \/ \E b \in Block \ {Genesis} : ReceiveBlock(b)
    \/ \E b \in Block \ {Genesis} : ConnectTip(b)
    \/ \E b \in Block \ {Genesis} : RejectBlock(b)
    \/ DisconnectTip
    \/ AbortNode

Flush ==
    \/ StartFlush
    \/ WriteBlockIndex
    \/ CoinsPartialBatch
    \/ CoinsFinalBatch
    \/ CommitRootTransaction
    \/ CommitRootTransactionAssert

Startup ==
    \/ LoadBlockIndex
    \/ ReplayBlocks
    \/ ReplayBlocksNullTip
    \/ ReplayBlocksFail
    \/ ReplayFlush
    \/ LoadChainTip
    \/ VerifyDB

Next ==
    \/ Running
    \/ Flush
    \/ Crash
    \/ Startup
    \/ Reindex
    \/ ReindexChainState

Spec == Init /\ [][Next]_vars

\* Start-up is one thread running straight-line code.
FairSpec == Spec /\ WF_vars(Startup)

-----------------------------------------------------------------------------
TypeOK ==
    /\ proc \in {"running", "writeIndex", "coins", "coinsPartial", "evoCommit", "down",
                 "replay", "replayFlush", "loadTip", "verify", "halted"}
    /\ tip \in Block \cup {None}
    /\ indexMem \subseteq Block
    /\ indexDisk \subseteq indexMem
    /\ coinsDisk \in [best : Block, heads : {<<>>}] \cup [best : {None}, heads : Block \X Block]
    /\ evoDisk \in Store
    /\ {evoRoot, evoCur} \subseteq Overlay
    /\ crashes \in 0..MaxCrashes
    /\ torn \in BOOLEAN

\* FlushStateToDisk writes the block index before the coins, so that after any
\* crash every block the coins database names is in the block index: neither
\* LoadChainTip nor ReplayBlocks ever meets an unknown block.
CoinsPointIntoIndex ==
    /\ coinsDisk.best \in indexDisk \cup {None}
    /\ \A i \in DOMAIN coinsDisk.heads : coinsDisk.heads[i] \in indexDisk

\* In memory and on disk, at every moment of every flush, crash, replay and
\* rollback, the EvoDB holds the diff of its best block and of all of that
\* block's ancestors under V6 rules: GetListForBlock never finds a hole.
ListDataClosed ==
    \A store \in {evoDisk, View(evoRoot, evoDisk), EvoView} :
        store[BestKey] # None => HasLists(store, store[BestKey])

\* While the node runs, the EvoDB's best block is the tip of the chain as soon
\* as the tip or its successor is under V6 rules: the consistency test of
\* ConnectBlock and DisconnectBlock never stops the node.  Crashes at any moment
\* are allowed for, except those between the writes of the coins and of the
\* EvoDB: ReplayIsComplete is about the ones inside the coins flush, and after one
\* behind it the node stops and has to be reindexed.
EvoDBFollowsTip ==
    proc = "running" /\ ~torn /\ Height[tip] + 1 >= V6Height => VerifyBestBlock(tip)

\* A node that was shut down or crashed comes back by itself, with the same
\* exception.
RestartRecovers == proc = "down" /\ ~torn ~> proc = "running" \/ torn

\* The replay after an interrupted flush brings every database to the new tip
\* (ReplayBlocks: "Replay blocks that aren't fully applied to the database").
ReplayIsComplete ==
    proc = "running" /\ V6(tip) => VerifyBestBlock(tip) /\ HasLists(EvoView, tip)

=============================================================================
