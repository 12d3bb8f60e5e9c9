------------------------------ MODULE Mempool ------------------------------
(***************************************************************************)
(* CTxMemPool (txmempool.h, txmempool.cpp) under the chain's changes       *)
(* (validation.cpp): acceptance of transactions, blocks connected and      *)
(* disconnected, and UpdateMempoolForReorg, which puts the transactions of *)
(* disconnected blocks back.  mapNextTx, the links between parents and     *)
(* children, the sums over ancestors and descendants, the Sapling          *)
(* nullifiers and the indexes of provider transactions are all kept.  One  *)
(* sum stands for size, count, fees and sigops, which are updated in the   *)
(* same calls.  Fees, standardness, scripts and package limits only refuse *)
(* a transaction, or choose which one is evicted: both are choices here.   *)
(***************************************************************************)
EXTENDS Integers, FiniteSets, FiniteSetsExt, Sequences, SequencesExt

CONSTANTS
    Tx,
    tx,             \* vin, vout, coinbase, lock, nullifiers, anchor, type,
                    \* collateral, addrs, keys and proTx of each transaction
    Size,           \* GetTxSize
    Outpoint,       \* <<transaction, index>>
    Nullifier,
    Addr,           \* addresses of masternodes
    Key,            \* owner and operator key ids
    Block, Genesis,
    Parent, Height, Ancestors,
    Txs,            \* vtx; every block is valid on top of its parent
    Maturity,       \* nCoinbaseMaturity
    MaxMempool,     \* -maxmempool, in transactions
    MaxQueued,      \* MAX_DISCONNECTED_TX_POOL_SIZE, in transactions
    MaxNotices,     \* callbacks pending before ActivateBestChain waits for the queue
    None

ASSUME MempoolAssumption ==
    /\ MaxMempool \in Nat \ {0} /\ MaxQueued \in Nat \ {0} /\ MaxNotices \in Nat \ {0} /\ Maturity \in Nat
    /\ Size \in [Tx -> Nat \ {0}]
    /\ None \notin Tx \cup Outpoint \cup Block
    /\ \A t \in Tx : tx[t].vin \cup tx[t].vout \subseteq Outpoint /\ tx[t].type \in {"plain", "proreg", "proup"}
    /\ \A b \in Block \ {Genesis} : Ancestors[b] = Ancestors[Parent[b]] \cup {b}

VARIABLES
    pool,       \* the CTxMemPool
    tip,        \* chainActive.Tip() and pcoinsTip
    mnTip,      \* tipIndex of deterministicMNManager
    notices,    \* the tips of the UpdatedBlockTip notices in the queue of callbacks
    phase,      \* idle, or the part of a reorganisation that holds the locks
    queued,     \* queuedTx of the DisconnectedBlockTransactions
    hashes,     \* vHashUpdate of UpdateMempoolForReorg
    trimmed     \* history: TrimToSize has evicted something while blocks were put back

vars == <<pool, tip, mnTip, notices, phase, queued, hashes, trimmed>>

EmptyPool ==
    [mapTx |-> {}, mapNextTx |-> [o \in Outpoint |-> None],
     parents |-> [t \in Tx |-> {}], children |-> [t \in Tx |-> {}],
     withAncestors |-> [t \in Tx |-> 0], withDescendants |-> [t \in Tx |-> 0],
     nullifiers |-> [n \in Nullifier |-> None], refs |-> {},
     collaterals |-> [o \in Outpoint |-> None], addresses |-> [a \in Addr |-> None],
     pubKeyIDs |-> [k \in Key |-> None]]

Init ==
    /\ pool = EmptyPool
    /\ tip = Genesis /\ mnTip = Genesis /\ notices = <<>>
    /\ phase = "idle" /\ queued = <<>> /\ hashes = <<>> /\ trimmed = FALSE

-----------------------------------------------------------------------------
(* The chain, as far as the mempool asks for it *)

ChainTxs(b) == UNION {Range(Txs[c]) : c \in Ancestors[b]}

Utxo(b) == UNION {tx[t].vout : t \in ChainTxs(b)} \ UNION {tx[t].vin : t \in ChainTxs(b)}

SpentNullifiers(b) == UNION {tx[t].nullifiers : t \in ChainTxs(b)}

CoinHeight(o, b) == Height[CHOOSE c \in Ancestors[b] : o[1] \in Range(Txs[c])]

Immature(o, b) == tx[o[1]].coinbase /\ Height[b] + 1 - CoinHeight(o, b) < Maturity

\* CheckFinalTx
IsFinal(t, b) == tx[t].lock = 0 \/ tx[t].lock < Height[b] + 1

CollateralOf(t) == IF tx[t].collateral = None THEN <<t, 1>> ELSE tx[t].collateral

\* GetListForBlock, by the registrations in it.
MNList(b) == {t \in ChainTxs(b) : tx[t].type = "proreg" /\ CollateralOf(t) \in Utxo(b)}

-----------------------------------------------------------------------------
(* Walks along the links *)

Reach(links, S) ==
    LET R[X \in SUBSET Tx] == LET next == X \cup UNION {links[t] : t \in X} IN IF next = X THEN X ELSE R[next]
    IN  R[S]

\* CalculateDescendants, for all of S.
CalculateDescendants(p, S) == Reach(p.children, S)

\* CalculateMemPoolAncestors from the links, and from the inputs for a new entry.
LinkedAncestors(p, t) == Reach(p.parents, p.parents[t])

PoolParents(p, t) == {o[1] : o \in tx[t].vin} \cap p.mapTx

CalculateMemPoolAncestors(p, t) == Reach(p.parents, PoolParents(p, t))

TotalSize(S) == MapThenSumSet(LAMBDA t : Size[t], S)

-----------------------------------------------------------------------------
(* Adding and removing entries *)

\* emplace does not overwrite; erase does not ask who entered the key.
Emplace(f, S, t) == [k \in DOMAIN f |-> IF k \in S /\ f[k] = None THEN t ELSE f[k]]

Erase(f, S) == [k \in DOMAIN f |-> IF k \in S THEN None ELSE f[k]]

\* A registration refers to the transaction of its collateral.
Refs(t) ==
    IF tx[t].type = "proup" THEN {<<tx[t].proTx, t>>}
    ELSE IF tx[t].type = "proreg" /\ tx[t].collateral # None THEN {<<t, tx[t].collateral[1]>>}
    ELSE {}

addUncheckedSpecialTx(p, t) ==
    [p EXCEPT !.refs        = @ \cup Refs(t),
              !.collaterals = Emplace(@, {tx[t].collateral}, t),
              !.addresses   = Emplace(@, tx[t].addrs, t),
              !.pubKeyIDs   = Emplace(@, tx[t].keys, t)]

\* Mutant: the key ids stay in the index.
removeUncheckedSpecialTxKeepsKeys(p, t) ==
    [p EXCEPT !.refs        = @ \ Refs(t),
              !.collaterals = Erase(@, {tx[t].collateral}),
              !.addresses   = Erase(@, tx[t].addrs)]

removeUncheckedSpecialTx(p, t) ==
    [p EXCEPT !.refs        = @ \ Refs(t),
              !.collaterals = Erase(@, {tx[t].collateral}),
              !.addresses   = Erase(@, tx[t].addrs),
              !.pubKeyIDs   = Erase(@, tx[t].keys)]

addUnchecked(p, t) ==
    LET ancestors == CalculateMemPoolAncestors(p, t)
        linked == [p EXCEPT
            !.mapTx           = @ \cup {t},
            !.mapNextTx       = Emplace(@, tx[t].vin, t),
            !.parents[t]      = PoolParents(p, t),
            !.children        = [x \in Tx |-> IF x \in PoolParents(p, t) THEN @[x] \cup {t} ELSE @[x]],
            !.withAncestors[t]   = Size[t] + TotalSize(ancestors),
            !.withDescendants = [x \in Tx |-> IF x \in ancestors THEN @[x] + Size[t] ELSE IF x = t THEN Size[t] ELSE @[x]],
            !.nullifiers      = [n \in Nullifier |-> IF n \in tx[t].nullifiers THEN t ELSE @[n]]]
    IN  addUncheckedSpecialTx(linked, t)

removeUnchecked(p, t) ==
    removeUncheckedSpecialTx(
        [p EXCEPT !.mapTx = @ \ {t},
                  !.mapNextTx = Erase(@, tx[t].vin),
                  !.nullifiers = Erase(@, tx[t].nullifiers),
                  !.parents[t] = {}, !.children[t] = {},
                  !.withAncestors[t] = 0, !.withDescendants[t] = 0], t)

\* UpdateForRemoveFromMempool: the sums first, then the links.
UpdateForRemoval(p, stage, updateDescendants) ==
    LET above(x) == {r \in stage \ {x} : x \in CalculateDescendants(p, {r})}
        below(x) == {r \in stage : x \in LinkedAncestors(p, r)}
        children == [x \in Tx |-> {c \in p.children[x] : ~(c \in stage /\ x \in p.parents[c])}]
    IN  [p EXCEPT
            !.withAncestors   = [x \in Tx |-> IF updateDescendants THEN @[x] - TotalSize(above(x)) ELSE @[x]],
            !.withDescendants = [x \in Tx |-> @[x] - TotalSize(below(x))],
            !.children        = children,
            !.parents         = [x \in Tx |-> {r \in @[x] : ~(r \in stage /\ x \in children[r])}]]

RemoveStaged(p, stage, updateDescendants) ==
    IF stage = {} THEN p
    ELSE FoldSet(LAMBDA t, q : removeUnchecked(q, t), UpdateForRemoval(p, stage, updateDescendants), stage)

\* Transactions S of the pool with all their descendants.
RemoveWithDescendants(p, S) == RemoveStaged(p, CalculateDescendants(p, S), FALSE)

\* A transaction outside the pool loses the children it has there.
removeRecursive(p, t) ==
    RemoveWithDescendants(p, IF t \in p.mapTx THEN {t} ELSE {p.mapNextTx[o] : o \in tx[t].vout} \ {None})

Expire(p, old) == RemoveWithDescendants(p, old \cap p.mapTx)

\* The pools that TrimToSize can leave: any entry may have the lowest score.
\* Evicting one is enough, the pool is over its limit by at most one.
TrimToSize(p) ==
    IF Cardinality(p.mapTx) > MaxMempool THEN {RemoveWithDescendants(p, {worst}) : worst \in p.mapTx} ELSE {p}

-----------------------------------------------------------------------------
(* AcceptToMemoryPool *)

\* A provider transaction may meet its own registration, never another one.
existsProviderTxConflict(p, t) ==
    \/ \E a \in tx[t].addrs : p.addresses[a] \notin {None, IF tx[t].type = "proup" THEN tx[t].proTx ELSE None}
    \/ \E k \in tx[t].keys : p.pubKeyIDs[k] \notin {None, IF tx[t].type = "proup" THEN tx[t].proTx ELSE None}
    \/ tx[t].collateral # None /\ (p.collaterals[tx[t].collateral] # None \/ p.mapNextTx[tx[t].collateral] # None)

\* The coin is in the mempool or in the chain.
HaveCoin(p, o) == IF o[1] \in p.mapTx THEN o \in tx[o[1]].vout ELSE o \in Utxo(tip)

\* What CheckSpecialTx asks of the chain; see DeterministicMNs for the rest.
CheckSpecialTx(t) ==
    /\ tx[t].type = "proup" => tx[t].proTx \in MNList(tip)
    /\ tx[t].collateral # None => tx[t].collateral \in Utxo(tip)

\* The checks that depend on the pool and the chain.
Acceptable(p, t) ==
    /\ ~tx[t].coinbase
    /\ ~existsProviderTxConflict(p, t)
    /\ IsFinal(t, tip)
    /\ t \notin p.mapTx
    /\ \A o \in tx[t].vin : p.mapNextTx[o] = None
    /\ \A n \in tx[t].nullifiers : p.nullifiers[n] = None
    /\ \A o \in tx[t].vout : ~HaveCoin(p, o)
    /\ \A o \in tx[t].vin : HaveCoin(p, o)
    /\ tx[t].nullifiers \cap SpentNullifiers(tip) = {}
    /\ tx[t].anchor # None => tx[t].anchor \in Ancestors[tip]
    /\ CheckSpecialTx(t)
    /\ \A o \in tx[t].vin \cap Utxo(tip) : ~Immature(o, tip)

\* A new transaction; entries of the set old have expired.
AcceptToMemoryPool(t, old) ==
    /\ phase = "idle"
    /\ Acceptable(pool, t)
    /\ pool' \in TrimToSize(Expire(addUnchecked(pool, t), old))
    /\ UNCHANGED <<tip, mnTip, notices, phase, queued, hashes, trimmed>>

-----------------------------------------------------------------------------
(* Blocks *)

\* Transactions that spend what t spends.
removeConflicts(p, t) ==
    RemoveWithDescendants(p, ({p.mapNextTx[o] : o \in tx[t].vin} \cup {p.nullifiers[n] : n \in tx[t].nullifiers})
                             \ {None, t})

\* References to transactions outside the pool are dropped.
removeProTxReferences(p, h) ==
    LET q == RemoveWithDescendants(p, {t \in p.mapTx : <<h, t>> \in p.refs})
    IN  [q EXCEPT !.refs = {r \in @ : r[1] # h}]

removeProTxSpentCollateralConflicts(p, t) ==
    LET named == {p.collaterals[o] : o \in tx[t].vin} \ {None}
        listed == {m \in MNList(mnTip) : CollateralOf(m) \in tx[t].vin}
    IN  FoldSet(LAMBDA h, q : removeProTxReferences(q, h), p, named \cup listed)

removeProTxConflicts(p, t) ==
    LET q == removeProTxSpentCollateralConflicts(p, t)
        users == {q.addresses[a] : a \in tx[t].addrs} \cup {q.pubKeyIDs[k] : k \in tx[t].keys}
                 \cup (IF tx[t].collateral = None THEN {} ELSE {q.collaterals[tx[t].collateral]})
    IN  RemoveWithDescendants(q, (users \ {t}) \cap q.mapTx)

removeForBlock(p, b) ==
    FoldLeft(LAMBDA q, t : removeProTxConflicts(
                               removeConflicts(IF t \in q.mapTx THEN RemoveStaged(q, {t}, TRUE) ELSE q, t), t),
             p, Txs[b])

\* The end of a round of ActivateBestChain puts the notice of the new tip into the queue.
Notify(b) ==
    /\ Len(notices) < MaxNotices
    /\ notices' = Append(notices, b)

\* One block on top of the tip is a round; in a reorganisation the round goes on.
ConnectTip(b) ==
    /\ phase \in {"idle", "disconnecting", "connecting"}
    /\ b # Genesis /\ Parent[b] = tip
    /\ pool' = removeForBlock(pool, b)
    /\ queued' = SelectSeq(queued, LAMBDA t : t \notin Range(Txs[b]))
    /\ tip' = b
    /\ phase' = IF phase = "idle" THEN "idle" ELSE "connecting"
    /\ IF phase = "idle" THEN Notify(b) ELSE UNCHANGED notices
    /\ UNCHANGED <<mnTip, hashes, trimmed>>

\* Transactions that spend from the root of the disconnected block.
removeWithAnchor(p, b) == RemoveWithDescendants(p, {t \in p.mapTx : tx[t].anchor = b})

\* The queue keeps the newest MaxQueued entries; the children of the others go.
DisconnectTip ==
    /\ phase \in {"idle", "disconnecting"}
    /\ tip # Genesis
    /\ LET all == queued \o Reverse(Txs[tip])
           drop == IF Len(all) > MaxQueued THEN Len(all) - MaxQueued ELSE 0
       IN  /\ queued' = SubSeq(all, drop + 1, Len(all))
           /\ pool' = removeWithAnchor(FoldLeft(removeRecursive, pool, SubSeq(all, 1, drop)), tip)
    /\ tip' = Parent[tip]
    /\ phase' = "disconnecting"
    /\ UNCHANGED <<mnTip, notices, hashes, trimmed>>

\* The scheduler runs the oldest notice, at any moment: the callback takes the lock of the
\* manager, not cs_main, and the chain may have gone on since.
UpdatedBlockTip ==
    /\ notices # <<>>
    /\ mnTip' = Head(notices) /\ notices' = Tail(notices)
    /\ UNCHANGED <<pool, tip, phase, queued, hashes, trimmed>>

-----------------------------------------------------------------------------
(* UpdateMempoolForReorg, under the locks of the reorganisation *)

\* fAddToMempool is false after an error.
StartUpdate(fAddToMempool) ==
    /\ phase \in {"disconnecting", "connecting"}
    /\ phase' = IF fAddToMempool THEN "adding" ELSE "erasing"
    /\ UNCHANGED <<pool, tip, mnTip, notices, queued, hashes, trimmed>>

\* Mutant: the children of a transaction that is not put back stay.
PutBackNotKeepsChildren(p, t) == p

\* The transaction does not make it; neither do its children.
PutBackNot(p, t) == removeRecursive(p, t)

\* The next transaction of the queue, refused or not by the other checks.
PutBack(refused) ==
    /\ phase \in {"adding", "erasing"} /\ queued # <<>>
    /\ LET t == Last(queued)
           p == IF tx[t].type = "proreg" THEN removeProTxReferences(pool, t) ELSE pool
           accepted == phase = "adding" /\ ~refused /\ Acceptable(p, t)
       IN  \/ /\ accepted
              /\ \E q \in TrimToSize(addUnchecked(p, t)) :
                    /\ pool' = IF t \in q.mapTx THEN q ELSE PutBackNot(q, t)
                    /\ hashes' = IF t \in q.mapTx THEN Append(hashes, t) ELSE hashes
                    /\ trimmed' = (trimmed \/ q # addUnchecked(p, t))
           \/ /\ ~accepted
              /\ pool' = PutBackNot(p, t)
              /\ UNCHANGED <<hashes, trimmed>>
    /\ queued' = Front(queued)
    /\ UNCHANGED <<tip, mnTip, notices, phase>>

\* Mutant: descendants that were put back themselves are counted again.
UpdateForDescendantsTwice(p, t, included) ==
    LET all == CalculateDescendants(p, {t}) \ {t}
    IN  [p EXCEPT !.withAncestors = [x \in Tx |-> IF x \in all THEN @[x] + Size[t] ELSE @[x]],
                  !.withDescendants[t] = @ + TotalSize(all)]

UpdateForDescendants(p, t, included) ==
    LET all == CalculateDescendants(p, {t}) \ ({t} \cup included)
    IN  [p EXCEPT !.withAncestors = [x \in Tx |-> IF x \in all THEN @[x] + Size[t] ELSE @[x]],
                  !.withDescendants[t] = @ + TotalSize(all)]

\* From the last of the hashes to the first.
UpdateTransactionsFromBlock(p, hs) ==
    LET included == Range(hs)
        update(q, t) ==
            LET new == {q.mapNextTx[o] : o \in tx[t].vout} \ ({None} \cup included)
                linked == [q EXCEPT !.children[t] = @ \cup new,
                                    !.parents = [x \in Tx |-> IF x \in new THEN @[x] \cup {t} ELSE @[x]]]
            IN  IF t \in q.mapTx THEN UpdateForDescendants(linked, t, included) ELSE q
    IN  FoldLeft(update, p, Reverse(hs))

removeForReorg(p) ==
    RemoveWithDescendants(p,
        {t \in p.mapTx : \/ ~IsFinal(t, tip)
                         \/ /\ \E o \in tx[t].vin : tx[o[1]].coinbase
                            /\ \E o \in tx[t].vin : /\ o[1] \notin p.mapTx
                                                    /\ o \notin Utxo(tip) \/ Immature(o, tip)})

\* InvalidateBlock, a failed round and one that ends on the old chain give no notice.
FinishUpdate(old) ==
    /\ phase \in {"adding", "erasing"} /\ queued = <<>>
    /\ pool' \in TrimToSize(Expire(removeForReorg(UpdateTransactionsFromBlock(pool, hashes)), old))
    /\ phase' = "idle" /\ hashes' = <<>>
    /\ Notify(tip) \/ UNCHANGED notices
    /\ UNCHANGED <<tip, mnTip, queued, trimmed>>

-----------------------------------------------------------------------------

Next ==
    \/ \E t \in Tx, old \in SUBSET pool.mapTx : AcceptToMemoryPool(t, old)
    \/ \E b \in Block : ConnectTip(b)
    \/ DisconnectTip
    \/ UpdatedBlockTip
    \/ \E fAddToMempool \in BOOLEAN : StartUpdate(fAddToMempool)
    \/ \E refused \in BOOLEAN : PutBack(refused)
    \/ \E old \in SUBSET pool.mapTx : FinishUpdate(old)

Spec == Init /\ [][Next]_vars

-----------------------------------------------------------------------------
(* Properties *)

\* Outside reorganisations, each transaction of the pool can be mined after
\* its parents: its inputs are in the chain or the pool, mature and unspent,
\* its nullifiers and anchor are good, it is final and not mined yet.
Minable(p) ==
    \A t \in p.mapTx :
        /\ t \notin ChainTxs(tip) /\ IsFinal(t, tip)
        /\ \A o \in tx[t].vin : /\ HaveCoin(p, o)
                                /\ o[1] \notin p.mapTx => ~Immature(o, tip)
        /\ tx[t].nullifiers \cap SpentNullifiers(tip) = {}
        /\ tx[t].anchor # None => tx[t].anchor \in Ancestors[tip]

\* UpdateMempoolForReorg, removeForBlock and eviction leave a pool in which
\* every transaction can be mined, unless TrimToSize evicted one while the
\* transactions of disconnected blocks were being put back.
PoolMinable == phase = "idle" /\ ~trimmed => Minable(pool)

\* "Make mempool consistent after a reorg": without that exception.
ReorgLeavesMinable == phase = "idle" => Minable(pool)

\* The sums of check(): each entry knows the size of itself with all its
\* ancestors, and with all its descendants, along the inputs and not only
\* along links that were made when it was added.
LinksExact ==
    phase = "idle" /\ ~trimmed =>
        LET parents == [t \in Tx |-> IF t \in pool.mapTx THEN PoolParents(pool, t) ELSE {}]
            children == [t \in Tx |-> {c \in pool.mapTx : t \in parents[c]}]
        IN  /\ pool.parents = parents /\ pool.children = children
            /\ \A t \in pool.mapTx :
                  /\ pool.withAncestors[t] = TotalSize(Reach(parents, {t}))
                  /\ pool.withDescendants[t] = TotalSize(Reach(children, {t}))

\* mapNextTx, the nullifiers and the indexes of provider transactions hold
\* exactly what the transactions of the pool use, at every moment: no two of
\* them use the same thing, and erasing a key never hits that of another.  Only
\* a registration may have lost its own reference, when its collateral was spent.
IndexesExact ==
    /\ \A o \in Outpoint : {t \in pool.mapTx : o \in tx[t].vin} = {pool.mapNextTx[o]} \ {None}
    /\ \A n \in Nullifier : {t \in pool.mapTx : n \in tx[t].nullifiers} = {pool.nullifiers[n]} \ {None}
    /\ \A o \in Outpoint : {t \in pool.mapTx : tx[t].collateral = o} = {pool.collaterals[o]} \ {None}
    /\ \A a \in Addr : {t \in pool.mapTx : a \in tx[t].addrs} = {pool.addresses[a]} \ {None}
    /\ \A k \in Key : {t \in pool.mapTx : k \in tx[t].keys} = {pool.pubKeyIDs[k]} \ {None}
    /\ \A t \in pool.mapTx : tx[t].type = "proup" => Refs(t) \subseteq pool.refs
    /\ \A r \in pool.refs : \E t \in pool.mapTx : r \in Refs(t)

=============================================================================
