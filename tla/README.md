# A verification of PIVX Core

TLA+ models of the parts of PIVX Core whose correctness depends on the order of
things: databases written one after the other, blocks connected and disconnected,
caches stacked on each other, masternode lists rebuilt from pieces, a mempool that
follows a reorganisation, callbacks run later by another thread. The modules are
checked by TLC on small instances and the main results are proved by TLAPS for
every instance.

Paths below are relative to the repository; `validation.cpp` stands for
`src/validation.cpp` and so on.

## 1. The system and its parts

PIVX Core is a proof-of-stake full node with a second tier of masternodes. One
lock, `cs_main`, serialises nearly all changes to the chain; around it run the
message handler, the staker, the scheduler thread, RPC threads, the masternode
thread and the wallet.

| Part | State | Operations | What must hold |
| --- | --- | --- | --- |
| **EvoDB** (`evo/evodb.*`, `dbwrapper.h`) | LevelDB, `rootBatch`, two stacked transactions | write, erase, commit, roll back, commit the root | the stack behaves as one atomic store |
| **Chainstate** (`validation.cpp`, `txdb.cpp`, `init.cpp`) | block index, coins database, EvoDB; in memory and on disk | connect, disconnect, flush in several writes, crash, replay, verify, reindex | the three databases agree while running and after a restart |
| **Deterministic masternode list** (`evo/deterministicmns.*`) | masternodes by hash and by internal id, reference-counted unique properties | add, update, remove, diff, apply, choose payee, punish | the three maps mirror each other; a diff applied gives the list it was taken from |
| **Deterministic masternode manager** (`evo/deterministicmns.cpp`, `evo/providertx.*`, `evo/specialtx.*`) | list and diff caches, snapshots and diffs in the EvoDB, `tipIndex` | check and process special transactions, build, undo, rebuild a list, clean caches | the list of a block is a function of the chain, however it is obtained |
| **Chain selection** (`validation.cpp`) | block tree with status flags, `setBlockIndexCandidates`, `mapBlocksUnlinked`, the active chain | accept header/block, find the best chain, activate it in steps, invalidate, reconsider | the tip ends on a valid chain of most work; the index's bookkeeping is consistent |
| **Validation interface and scheduler** (`scheduler.*`, `validationinterface.*`) | task queue, per-client callback queue | schedule, run, queue a callback, drain | callbacks run one at a time, in order, and all of them |
| **Coins cache** (`coins.*`, `txdb.*`) | stacked caches with DIRTY/FRESH flags, Sapling anchors and nullifiers | add, spend, fetch, flush, batch write | the cache shows what writing through would show |
| **Memory pool** (`txmempool.*`) | transactions, links, spent outpoints, nullifiers, provider-transaction indexes | add, remove recursively, remove conflicts, expire, trim | no double spend, links and indexes exact, block templates valid |
| **Legacy masternodes** (`masternode*.cpp`, `masternodeman.*`) | announced masternodes, pings, seen maps, requests | announce, ping, check, remove, rank | an entry's state follows its last ping and its collateral |
| **Masternode payments** (`masternode-payments.*`) | votes per block | vote, tally, check a block's payee | at most one vote per masternode and block is counted |
| **Budget** (`budget/*`) | proposals, finalized budgets, votes, orphan votes | propose, vote, finalize, pay, clean up | the paid set follows the votes and the amount |
| **Sporks** (`spork.*`, `sporkdb.*`) | active sporks by id, message map | receive, sign, execute, load | the active value is the latest signed one |
| **Tier-two synchronisation** (`masternode-sync.*`, `tiertwo_networksync.cpp`) | current asset, attempts, counts | process tick, receive status, reset | assets are synchronised in order; a reset starts over |
| **Active masternode** (`activemasternode.*`) | own operator key and state | initialise, tip updates | the node runs only for a valid entry |
| **P2P network** (`net.*`, `net_processing.*`, `addrman.*`, `addrdb.*`) | peers, requests in flight, address tables, bans | connect, disconnect, receive, send, evict | requests are accounted for; tables stay within bounds |
| **Script checking** (`checkqueue.h`, `script/*`) | work queue and workers | add, work, wait | the master learns of every failure |
| **Block assembly and staking** (`blockassembler.*`, `miner.*`, `kernel.*`, `stakeinput.*`) | template | create, stake, mine | templates are valid on the current tip |
| **Sapling** (`sapling/*`), **zerocoin** (`libzerocoin`, `zpiv`, `legacy`) | commitment tree, notes | build, verify, witness | tree and witnesses agree |
| **Wallet** (`wallet/*`) | transactions, keys, spends, database | add, sync, disconnect, abandon, create | balances follow the chain |
| **RPC, REST, HTTP, ZMQ, GUI** (`rpc/*`, `rest.cpp`, `http*`, `zmq/*`, `qt/*`) | none of the chain's | call into the parts above | — |

How the parts meet. The message handler, the staker and RPC threads hand blocks
to chain selection, which connects them one by one. Connecting a block changes
the coins cache and, through the masternode manager, the EvoDB; both are written
to disk later, by one flush. Every change is announced to the wallet, the
masternode code and the mempool through the validation queue, whose callbacks
run on the scheduler thread. What is hard to test is between these parts: a
crash between two databases or between two batches of one, a lock let go between
two rounds, a list rebuilt from pieces that different steps stored, a flag set
two caches above the coin it is about, a callback that nobody is left to run.
`PROJECT.json` lists these places as hazards, each with its line.

## 2. The modules

The order is from the bottom up; a module without a note in the last column is
checked through the module that uses it.

| Module | Models | Used by |
| --- | --- | --- |
| `DBTransaction` | `CDBTransaction`: an overlay of writes and deletes | `EvoDB`, `ChainState` |
| `EvoDB` | `CEvoDB`: two overlays, a batch and LevelDB, with exceptions, assertions and restarts | `MCEvoDB`, `EvoDBProofs` |
| `AtomicStore` | what the EvoDB promises: one store with commit, rollback, persist, crash | refined by `EvoDB` |
| `ChainState` | block index, coins database and EvoDB in memory and on disk | `MCChainState` |
| `DeterministicMNList` | `CDeterministicMNList`: `AddMN`, `UpdateMN`, `RemoveMN`, unique properties, payee, diffs | the next three |
| `DeterministicMNs` | special transactions and `BuildNewListFromBlock`, one transaction a step | `MCDeterministicMNs`, `DeterministicMNsProofs` |
| `MNListDiff` | `ApplyDiff` | `MCDeterministicMNs`, `DMNManager` |
| `DMNManager` | caches, snapshots, diffs, late tip notifications, queries of other threads | `MCDMNManager` |
| `ChainActivation` | `AcceptBlock`, `FindMostWorkChain`, `ActivateBestChain` in rounds, `invalidateblock`, `reconsiderblock`, restarts | `MCChainActivation` |
| `CheckQueue` | `CCheckQueue` and `CCheckQueueControl`: master, workers, interruptions | `MCCheckQueue`, `CheckQueueProofs` |
| `Coins` | one `CCoinsViewCache` over its base, and `CCoinsViewDB`, as operators: coins, nullifiers, anchors and their flags | the next two |
| `CoinsCache` | the stack database, `pcoinsTip`, view of a block, with reads, changes, flushes, crashes | `MCCoinsCache`, `CoinsCacheEntries`, `CoinsCacheAnchors`, `CoinsCacheProofs` |
| `CoinsViews` | what that stack promises: three plain states without caches | implemented by `CoinsCache` |
| `CoinsReplay` | `ConnectBlock`, `DisconnectBlock`, `RollforwardBlock` on these caches, the flush in batches, `ReplayBlocks` | `MCCoinsReplay` |
| `Mempool` | `CTxMemPool` under acceptance, eviction, blocks and `UpdateMempoolForReorg` | `MCMempool` |
| `ValidationQueue` | `SingleThreadedSchedulerClient`, `CScheduler`, the threads that wait for the queue, the shutdown | `MCValidationQueue`, `ValidationQueueProofs` |

Definitions carry the names of the functions they model, and variables those of
the members; `map` in `PROJECT.json` gives the lines. Operators named after a
definition with a suffix and introduced by "Mutant:" are deliberate mistakes,
one for each property, that show that the property can fail.

How they fit together: `ChainState` takes a set of coins to be its best block and
looks at the order of the writes of three databases; `CoinsReplay` opens up the
coins of one of them, batch by batch, with the caches of `Coins`; `CoinsCache`
asks whether those caches are right in any order of calls. `Mempool` and
`DMNManager` both have the tip of the masternode list arrive late, which is the
delay `ValidationQueue` models.

### Steps

A step is as much code as nobody else can observe: one critical section
(`cs_main`, the list manager's `cs`, the scheduler's two mutexes) or, where a
crash can intervene, one write to disk.

* **EvoDB.** One action per public operation. A failing `WriteBatch` throws and
  leaves the batch filled; the process then ends. `memoryUsage` is computed as
  the code does, by increments, and compared with the sum it stands for.
* **ChainState.** `ConnectTip` and `DisconnectTip` change coins and EvoDB under
  one lock, so each is a step. A flush is a sequence of steps (block index,
  coins batches with their head markers, EvoDB), and the process may die between
  any two. A start is `LoadBlockIndex`, `ReplayBlocks`, its flush,
  `LoadChainTip` and `VerifyDB`. A UTXO set is represented by the block it
  belongs to, a list by the presence of its diff.
* **DeterministicMNs.** A block is built one transaction at a time, each with
  the checks of `CheckProRegTx` and its siblings against the list of the
  *previous* block and then with what `BuildNewListFromBlock` does to the new
  one. Spent collaterals, the payment and the confirmation follow at the end.
  A diff names added masternodes by their transaction and updated or removed ones
  by internal id, and `ApplyDiff` finds these again by id, as in the code. The
  entries of the legacy list that a registration removes are left out.
  A failed assertion, an exception and a refusal are values of `err`.
* **DMNManager.** `ProcessBlock` is two critical sections (the list and its
  clean-up are apart); the EvoDB transaction around it is committed or rolled
  back by the caller. `Content` fixes what a block does to the list.
* **ChainActivation.** `ActivateBestChain` is one call at a time
  (`m_cs_chainstate`); `stage` is where it is, and between two rounds cs_main is
  free. One step of `ActivateBestChainStep` stands for all the `ConnectTip` and
  `DisconnectTip` it does before it looks at the work again, since the lock is
  held throughout. Sequence ids and addresses decide ties as
  `CBlockIndexWorkComparator` does; after a restart all ids are 0. `BadContext` is
  what `ContextualCheckBlock` refuses; blocks that fail `CheckBlock` are refused by
  `ProcessNewBlock` before they are indexed. Two histories record what
  `ReconsiderBlock` does not put right: `left`, the blocks that keep a mark whose
  cause it clears, and `omitted`, the blocks as good as the tip that it clears
  without making them candidates, until `InvalidateBlock` or a restart collects
  the candidates anew.
* **CoinsCache.** One action per kind of operation; a read goes down the stack and
  fills the caches on its way, as the code does. Coins are compared for equality
  only; a tree is known by its root. `AddCoins` without look-up is only called
  for outputs that do not exist, as its callers see to, so the `logic_error` of
  `AddCoin` does not occur. The flush of `pcoinsTip` is one step here; its batches
  are in `CoinsReplay`. `DisconnectBlock` goes back to the root in the index of the
  previous block, which that block pushed.
* **CoinsReplay.** `ConnectTip` and `DisconnectTip` are a step each. A batch of a
  flush takes any non-empty set of the DIRTY coins, since the map has no order
  and the batch size is a setting. A coin is known by its height, so that one
  transaction in two branches makes different coins.
* **CheckQueue.** Each critical section of the queue's mutex is a step; checks are
  done outside. Condition variables may wake spuriously, threads start late and
  are interrupted at any time.
* **Mempool.** `AcceptToMemoryPool`, `ConnectTip` and `DisconnectTip` are steps
  under `cs_main` and the pool's lock. `UpdateMempoolForReorg` is one step per
  transaction put back, and a last one for the links, `removeForReorg` and the
  limits; nobody else runs in between (`phase`). Which transaction is evicted,
  which has expired and which is refused by fees, scripts or package limits is
  a choice. One sum per entry stands for size, count, fees and sigops. The end of
  a round of `ActivateBestChain` queues a notice of its tip; notices are delivered
  in order at any later moment, within a reorganisation too.
* **ValidationQueue.** Each acquisition of a mutex is a step, so the window
  between testing `m_are_callbacks_running` and scheduling the task is there.
  Callbacks are numbered in the order queued; they take `cs_main` and return (an
  exception out of one would end the process). The threads of the proof-of-work
  miner, interrupted and not joined at shutdown, are left out.

## 3. The runs

`tlc -workers 2 -config X.cfg M` for each; all passing runs are exhaustive.

| Run | Bounds | Shows |
| --- | --- | --- |
| `evodb` | 2 keys, 2 values of different sizes | `memoryUsage` is exact, and `EvoDB` implements `AtomicStore` |
| `chainstate` | 6 blocks with a fork, V6 rules from height 2, 2 crashes at any point | coins only name indexed blocks; no list below the EvoDB's best block is lost; the EvoDB follows the tip and every restart succeeds, unless a crash tore coins and EvoDB apart |
| `dmn_list` | 2 masternodes, 2 collaterals, addresses, keys; 5 blocks, 2 transactions in the first and third, 1 in the others; blocks also just checked | the three maps mirror each other, ids are unique, nothing throws, assertions fail only for a null operator key, the stored diff rebuilds the list, confirmation comes at the right height and payments go round |
| `dmn_manager` | 3 blocks and a fork of 1, cache of 1, snapshots every 4, 1 late notification | caches are exact and every list can be had at any time |
| `queue` | 2 scheduler threads, 1 importing thread, 1 RPC thread, 2 calls, shutdown at any time | serial, ordered, no lost wake-up, drained at exit, and everything queued is run |
| `activation` | 5 blocks in 2 branches, one forked again above its first block, one block refused on receipt and one on connection, 2 RPC calls on any blocks, restarts | bookkeeping exact and tip best when idle but for what `reconsiderblock` leaves behind, active chain good, every call ends |
| `check_queue` | 2 workers, blocks of up to 4 checks, one failing | every verdict is exact, the queue is idle for the next block, the master is woken and gets out |
| `coins` | 1 outpoint, 2 coins, 1 nullifier, 2 anchors, 2 caches | DIRTY and FRESH are true, each operation has exactly its effect on what callers see, the best anchor can be read |
| `coins_replay` | 6 blocks in 2 branches that share transactions, 4 outpoints, batches of any coins, any number of crashes | coins are exactly those of the tip, and every block can be disconnected cleanly |
| `mempool` | 10 transactions, 5 blocks in 2 branches, pool and queue of 4, 1 pending notice | the pool can be mined, links and sums are exact, indexes are exact at every moment |

Two runs fail on purpose; each states what the repository says of the program,
and the findings in `PROJECT.json` quote the line.

| Run | Property | What happens |
| --- | --- | --- |
| `coins_sapling` | `SaplingExact` | nullifiers and anchors are only in the last batch of a flush; after a crash before it the replay rolls the coins forward and not them, and marks the database consistent |
| `activation_invalidate` | `ActiveChainGood` | a block invalidated between two rounds is connected again, since the choice of the earlier round is kept |

### Named exceptions

Some properties of the passing runs make an exception for a case that the code
does not handle. For each there is a configuration that states the property
without the exception; TLC finds it violated and prints a behaviour that leads
there:

| Property with the exception | Without it | What happens |
| --- | --- | --- |
| `EvoDBFollowsTip` | `ReplayIsComplete`, `ChainStateReplay.cfg` | a crash between two coins batches is replayed for the coins, but the EvoDB writes of the replay (`validation.cpp:3764`) are rolled back by `VerifyDB`'s transaction |
| `OnlyRevokedAssert` | `NeverAsserts`, `DeterministicMNsAsserts.cfg` | spending the collateral of a revoked masternode reaches the assertion on the null operator key (`deterministicmns.h:468`) |
| `WaitersGoOn` | `CallsReturn`, `ValidationQueueCall.cfg` | `sendrawtransaction` of a transaction already in the mempool waits for a promise nobody has (`rawtransaction.cpp:837`) |
| `CallbacksRun`, `WaitersGoOn` | `CleanExit`, `ValidationQueueExit.cfg` | a thread of the thread group waits for the queue when the scheduler thread has already left (`init.cpp:243`) |
| `FailedHaveCause`, `CandidatesExact`, `TipIsBest` | `AllFailedHaveCause`, `ChainActivationReconsider.cfg` | `reconsiderblock` clears the ancestors of its block, and not a sibling that was marked because of one of them (`validation.cpp:2438`); nor does a cleared ancestor become a candidate, so that a later round that fails half way may end on a worse tip. The first is excepted through `left`, the second through `omitted` |
| `PoolMinable`, `LinksExact` | `ReorgLeavesMinable`, `MempoolTrim.cfg` | `TrimToSize` (`validation.cpp:649`) evicts a transaction that was just put back, together with the descendants it is linked to; a child that was in the pool all along is not linked yet and stays without its parent |

Not in the configurations but true in the same runs: `TypeOK` of each module (and
proved where the module has proofs), `ValidHaveService`, `BatchEmpty`, and
`NeverAsserts` of `ChainActivation`.

### Why the bounds are enough

* `evodb`: operations on different keys are independent; two keys show that one
  is left alone, two values that the last write wins and that sizes are right.
* `chainstate`: the branch is two blocks long on each side, so a reorganisation
  disconnects and connects several V6 blocks between two flushes; the second
  crash can hit the recovery from the first.
* `dmn_list`: a property has at most one other owner to conflict with, and one key
  may be owner and operator of the same masternode. Two transactions in a block
  are needed for what is checked against the previous list and applied to the
  new one. Outpoints, addresses and keys are compared for equality only, hence
  the symmetry. Five blocks let both masternodes be paid, banned and revived; the
  blocks with two transactions (`MCMaxTxs`) are those where a masternode can be
  registered and changed, and where it has been confirmed.
* `dmn_manager`: with a cache of 1 every list leaves the cache while it is still
  needed. The first block of the enforcement is a snapshot, so a list takes up to
  two diffs; the periodic snapshot, stored the same way, is not reached.
* `queue`: more scheduler threads than the one the node starts. `Backlog` is 0
  so that the wait in `ActivateBestChain`, which needs ten callbacks in the
  code, happens. The theorems are for any number of threads.
* `activation`: one branch forks above its first block, so that a failed block has
  descendants on two sides of which `reconsiderblock` is given one. The branches
  allow a reorganisation over several blocks that fails half way, a block whose
  parent's data is missing, and equal work on both sides. Two RPC calls allow
  invalidate and reconsider; the invariants also hold, in more time, with three of
  them, and on a tree with a third branch and two blocks that fail when connected. `InvalidateAnytime` is FALSE: see
  `activation_invalidate`.
* `check_queue`: batches shrink as the queue empties, so four checks make a worker
  and the master hold batches at once while another has not entered the loop.
* `coins`: entries of different outpoints do not meet in any operation, nor do
  coins, nullifiers and anchors; two coins tell an overwrite from the original.
  The theorems are for any sets.
* `coins_replay`: one branch is one block longer, so a replay rolls back two and
  forward three blocks; one block spends an output it creates itself, and two
  transactions are in both branches in different blocks and order.
* `mempool`: a chain of three transactions is the shortest in which one is put
  back, one is dropped and one was in the pool all along. Sizes are powers of two,
  so a wrong sum cannot come out right. With a pool of four, evictions also come
  while blocks are put back (the exception above) and outside reorganisations. One
  pending notice is enough for a list that is late, by a block or by a
  reorganisation; with two (172,294 states) the run passes as well.

`CHECK_DEADLOCK FALSE` is set for the queue only, where the system really stops
after its exit.

### Fairness

Only threads that can go on by themselves are assumed to do so: weak fairness of
start-up (`ChainState`: one thread running straight-line code), of each thread's
own steps in `ValidationQueue` (an uncontended mutex is acquired in the end, and
callbacks return), and of the thread inside `AcceptBlock` or `ActivateBestChain`
(`ChainActivation`), and of the master and each worker in `CheckQueue` (a check
returns, and a notified thread gets the mutex). Nobody has to send a block, call
an RPC, crash, flush or shut down.
`ActivationEnds` relies on the bound on RPC calls: blocks and RPCs that arrive
for ever between the rounds can keep a call going for ever.

## 4. What is proved

The theorems hold for every value of the constants that satisfies the named
assumptions: `None` is not a value and sizes are natural (EvoDB); ranks are
distinct, outpoints, services and keys are different things, none of them
`Null`, and the bounds are numbers (masternode lists); threads have one role each
(both queues); the markers of the coins cache are not coins or roots, and
"extends" on trees is a strict order in which the empty tree extends nothing (coins).

* **`EvoDBProofs`.** `TypeCorrect` and `BatchEmptyCorrect` by the invariant
  `TypeOK /\ BatchEmpty`: an overlay that holds a key both as write and as
  delete would be committed differently from how it is read, so the lemmas about
  `Write`, `Erase` and `Commit` keep it from arising.
  `EvoDBRefinesAtomicStore`: every step maps to a step of `AtomicStore` or
  changes nothing, with `disk`, `CommittedView` and `View(cur, CommittedView)`
  as its three stores; the main lemma is that viewing through a
  committed overlay equals viewing through both.
* **`DeterministicMNListProofs`.** For each operation what it does to a
  well-formed list: `AddMN`, `UpdateMN` and `RemoveMN` keep the property map and
  the ids exact, or fail in a way the lemma names.
* **`DeterministicMNsProofs`.** The invariants of `dmn_list`, `DiffRebuildsList`
  apart, as theorems, for any number of masternodes, keys, transactions and
  blocks. `IInv` is `TypeOK`, `ChainInv` about the list of the tip and `BlockInv`
  about the list being built. The properties alone are not inductive: `BlockInv`
  says what a masternode carries over from the previous list (`Carried`: id,
  registration, last payment) and that its collateral is among the coins still
  there or about to be spent; `ChainInv` bounds all heights by the tip and has,
  for `FairPayment`, that whoever is owed a payment was last paid strictly earlier
  (`OwedFirst`). Each kind of transaction has a lemma `...Outcome`.
* **`ValidationQueueProofs`.** Safety of the queue for any number of scheduler
  threads, importing threads and callers. `IInv` adds which stages each kind of
  thread can be in and that the others are gone once they are joined (`StageOK`),
  that the flag is set exactly while one thread runs a callback (`OneRuns`), that
  the finished callbacks are the started ones without the running one
  (`FinishedExact`), and that nothing is left at the end. `WaitedAlwaysCaughtUp`
  is about whoever does wait for a promise; `SyncWithValidationInterfaceQueue` may
  return without waiting while the last callback is still running.
* **`CheckQueueProofs`.** Safety of the script check queue for any number of
  workers and checks and any batch size. `TypeOK` has that no check is
  held twice. The rest of the inductive invariant relates `nTodo` to the checks
  queued and held, `nTotal` and `nIdle` to the threads in the loop that hold a
  batch or sleep (`CountInv`), and `fAllOk` to the checks done so far
  (`VerdictInv`).
* **`CoinsCacheEntries`, `CoinsCacheAnchors`, `CoinsCacheProofs`.** `FlagsTrue`,
  `BestAnchorReadable` and `EffectExact` for any sets of outpoints, coins,
  nullifiers and roots, one lemma per action. The inductive invariant is `TypeOK`
  (which flags occur together: a clean entry is FRESH exactly if pruned, none is
  FRESH, DIRTY and pruned), `FlagsTrue`, the same for nullifiers and anchors (a
  clean entry shows what is below it), and that in each of the three states the
  best anchor is there, the empty tree too, and else only trees that the best one
  extends (`AllChained`). `EffectExact` is a statement about steps: from the
  invariant, each action of `CoinsCache` makes the step of `CoinsViews` with its
  name.

Only model-checked: everything under fairness (`RestartRecovers`, `CallbacksRun`,
`WaitersGoOn`, `ActivationEnds`, `WaitReturns`), which is out of the prover's
reach; `MemoryExact` (a sum over a set of keys), `DiffRebuildsList` (folds over
sequences), `CoinsReplay` and `Mempool` (folds over transactions, and walks along
links), which need induction over data; and, so far, `ChainState`, `DMNManager`
and `ChainActivation`.

## 5. What is not modelled

The components with status `not_modelled` in `PROJECT.json` give the reason one
by one: cryptography, scripts and serialization are pure functions whose verdict
is an input of the models; sockets and the user interfaces are I/O; the rest is
in the plan below. Inside the modelled parts, the following is left out: pruned
block files, disk errors other than those of `WriteBatch`, the transaction index
and the zerocoin database (chainstate); scripts, reward shares and the PoSe
penalty, which nothing in the program raises, and the legacy
masternode list, of which a registration removes the entry with its collateral
(masternode list); checkpoints that
revive failed blocks, and the warning state (chain selection); timed and repeating
tasks and the registration of listeners (scheduler); the memory accounting of the
coins cache, outputs that `AddCoin` ignores and the one-off `PruneInvalidEntries`;
fees, priorities, fee estimation, package limits and memory accounting (mempool),
which refuse a transaction or choose which one is evicted and are choices there.
Whether a provider update in the pool still finds its masternode is not asked:
`removeProTxSpentCollateralConflicts` uses a list that may be late (see the hazard
at `txmempool.cpp:764`).

## 6. Plan

1. **Sporks, tier-two synchronisation, masternode payments, budget**: one module
   each, with restarts and messages out of order, and one composition of
   synchronisation with the votes it counts.
2. `CoinsReplay` in place of the best-block abstraction of `ChainState`, and
   `Mempool` composed with `DeterministicMNs` for templates.
3. **Blocks in flight** of the message processing, and the **address manager**.
4. Composition of `ChainActivation` with the flush of `ChainState`, for crashes
   after `invalidateblock`.
5. Proofs: `ChainActivation` (`LinkedExact`, `ActiveChainGood`), `ChainState`
   (`ListDataClosed`, `CoinsPointIntoIndex`), `DMNManager` (`CachesExact`), and an
   abstract serial queue refined by `ValidationQueue`.
6. The **wallet**'s view of transactions over the callbacks of the queue.
