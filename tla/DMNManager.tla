----------------------------- MODULE DMNManager -----------------------------
(***************************************************************************)
(* CDeterministicMNManager: which list a block has.  Lists are kept as     *)
(* snapshots every Period blocks and as one diff per block, in the EvoDB   *)
(* and in two caches in memory, and rebuilt by GetListForBlock.  The       *)
(* validation thread connects and disconnects blocks of a fixed tree;      *)
(* other threads ask for lists between any two critical sections, and      *)
(* tipIndex follows the tip through the queue of notifications.            *)
(* What a block does to the list is fixed by Content: masternodes that it  *)
(* registers, removes and pays (DeterministicMNs has the full rules).      *)
(***************************************************************************)
EXTENDS MNListDiff

CONSTANTS
    Block,      \* block index entries from the start of the enforcement on
    Root,       \* the last block before it
    Parent,     \* pprev
    Content,    \* what the block does
    DMNOf,      \* payload of the registration of each masternode
    Period,     \* DISK_SNAPSHOT_PERIOD
    CacheSize,  \* LIST_DIFFS_CACHE_SIZE
    MaxQueue,   \* bound: pending notifications
    Restarts    \* whether the process flushes, dies and starts again

VARIABLES
    tip,               \* chainActive.Tip()
    working,           \* block whose ProcessBlock has yet to clean the caches, or Null
    mnListsCache,
    mnListDiffsCache,
    db,                \* the EvoDB as the running transactions see it
    saved,             \* db before the transaction of the block being connected, or Null
    disk,              \* what is committed, with its tip
    tipIndex,
    queue              \* UpdatedBlockTip notifications on their way

vars == <<tip, working, mnListsCache, mnListDiffsCache, db, saved, disk, tipIndex, queue>>

Index == Block \cup {Root}

Height ==
    LET H[b \in Index] == IF b = Root THEN 0 ELSE H[Parent[b]] + 1
    IN  [b \in Index |-> H[b]]

\* b and the blocks below it, to the one before the enforcement.
Chain ==
    LET C[b \in Index] == IF b = Root THEN {Root} ELSE {b} \cup C[Parent[b]]
    IN  [b \in Index |-> C[b]]

Emplace(cache, k, v) == IF k \in DOMAIN cache THEN cache ELSE Put(cache, k, v)

Init ==
    /\ tip = Root /\ working = Null /\ tipIndex = Root /\ queue = <<>>
    /\ mnListsCache = EmptyMap /\ mnListDiffsCache = EmptyMap
    /\ db = [snapshots |-> EmptyMap, diffs |-> EmptyMap]
    /\ saved = Null /\ disk = [tip |-> Root, db |-> db]

-----------------------------------------------------------------------------
(* The list after a block, from the list before it.                        *)

BuildNewListFromBlock(l, b) ==
    LET Add(acc, h)  == AddMN(acc, h, [DMNOf[h] EXCEPT !.internalId = acc.nTotalRegisteredCount,
                                                       !.nRegisteredHeight = Height[b]])
        Pay(acc, h)  == UpdateMN(acc, h, [acc.mnMap[h] EXCEPT !.nLastPaidHeight = Height[b]])
        Drop(acc, h) == RemoveMN(acc, h)
    IN  FoldLeft(Pay, FoldLeft(Drop, FoldLeft(Add, l, Content[b].add), Content[b].drop), Content[b].pay)

IsSnapshot(b) == Height[b] % Period = 0 \/ Parent[b] = Root

-----------------------------------------------------------------------------
(* GetListForBlock: walk back to a list, collecting diffs, then apply them. *)
(* c is the pair of the two caches, d the database.                         *)

HasList(c, d, b) == b = Root \/ b \in DOMAIN c.lists \/ b \in DOMAIN d.snapshots

HasDiff(c, d, b) == b \in DOMAIN c.diffs \/ b \in DOMAIN d.diffs

DiffOf(c, d, b) == IF b \in DOMAIN c.diffs THEN c.diffs[b] ELSE d.diffs[b]

ListAt(c, d, b) ==
    IF b \in DOMAIN c.lists THEN c.lists[b]
    ELSE IF b \in DOMAIN d.snapshots THEN d.snapshots[b] ELSE EmptyList

\* The block the walk from b stops at.
Base(c, d, b) ==
    CHOOSE x \in Chain[b] :
       /\ HasList(c, d, x) \/ ~HasDiff(c, d, x)
       /\ \A y \in Chain[b] : Height[y] > Height[x] => ~HasList(c, d, y) /\ HasDiff(c, d, y)

ApplyFrom(c, d, x, b) ==
    LET L[y \in Chain[b]] ==
          IF y = x THEN ListAt(c, d, x)
          ELSE IF HasChanges(DiffOf(c, d, y)) THEN ApplyDiff(L[Parent[y]], DiffOf(c, d, y))
          ELSE L[Parent[y]]
    IN  L[b]

\* The list and the caches after a call for b, which throws when there is no data for a
\* block on the way; blocks before the enforcement have the empty list.
GetListForBlock(c, b) ==
    IF b = Root THEN [list |-> EmptyList, cache |-> c]
    ELSE LET x == Base(c, db, b)
             walked == {y \in Chain[b] : Height[y] > Height[x]}
             seen == [y \in walked |-> DiffOf(c, db, y)] @@ c.diffs
         IN  IF ~HasList(c, db, x)
             THEN [list |-> Fail(EmptyList, "throw"), cache |-> [c EXCEPT !.diffs = seen]]
             ELSE LET l == ApplyFrom(c, db, x, b)
                      based == Emplace(c.lists, x, ListAt(c, db, x))
                  IN  [list |-> l,
                       cache |-> [lists |-> IF b = tipIndex THEN Emplace(based, b, l) ELSE based,
                                  diffs |-> seen]]

Cache == [lists |-> mnListsCache, diffs |-> mnListDiffsCache]

SetCache(c) == mnListsCache' = c.lists /\ mnListDiffsCache' = c.diffs

-----------------------------------------------------------------------------
(* The validation thread.                                                  *)

\* Mutant: the list of every block is cached as it was built.
ProcessBlockCachesAll(b) ==
    \E got \in {GetListForBlock(Cache, Parent[b])} :
    \E newList \in {BuildNewListFromBlock(got.list, b)} :
    \E diff \in {BuildDiff(got.list, newList)} :
        /\ ~Failed(newList)
        /\ db' = [snapshots |-> IF IsSnapshot(b) THEN Put(db.snapshots, b, newList) ELSE db.snapshots,
                  diffs |-> Put(db.diffs, b, diff)]
        /\ SetCache([lists |-> Emplace(got.cache.lists, b, newList),
                     diffs |-> Emplace(got.cache.diffs, b, diff)])

\* The first critical section of ProcessBlock, for a block that is connected.
ProcessBlock(b) ==
    \E got \in {GetListForBlock(Cache, Parent[b])} :
    \E newList \in {BuildNewListFromBlock(got.list, b)} :
    \E diff \in {BuildDiff(got.list, newList)} :
        /\ ~Failed(newList)
        /\ db' = [snapshots |-> IF IsSnapshot(b) THEN Put(db.snapshots, b, newList) ELSE db.snapshots,
                  diffs |-> Put(db.diffs, b, diff)]
        /\ SetCache([lists |-> IF IsSnapshot(b) THEN Emplace(got.cache.lists, b, newList) ELSE got.cache.lists,
                     diffs |-> Emplace(got.cache.diffs, b, diff)])

ConnectBlock(b) ==
    /\ working = Null /\ Parent[b] = tip
    /\ ProcessBlock(b)
    /\ working' = b /\ saved' = db
    /\ UNCHANGED <<tip, disk, tipIndex, queue>>

\* A block that is only checked.
JustCheck(b) ==
    /\ working = Null /\ Parent[b] = tip
    /\ \E got \in {GetListForBlock(Cache, tip)} : SetCache(got.cache)
    /\ UNCHANGED <<tip, working, db, saved, disk, tipIndex, queue>>

CleanupCache(n) ==
    LET Kept(cache) == [x \in {y \in DOMAIN cache : (IF y = Root THEN -1 ELSE Height[y]) + CacheSize >= n} |-> cache[x]]
    IN  SetCache([lists |-> Kept(mnListsCache), diffs |-> Kept(mnListDiffsCache)])

\* The second critical section, and the rest of ConnectTip.
FinishConnect ==
    /\ working # Null
    /\ CleanupCache(Height[working])
    /\ tip' = working /\ working' = Null /\ saved' = Null
    /\ UNCHANGED <<db, disk, tipIndex, queue>>

\* ConnectTip fails after ProcessBlock: the transaction is rolled back, the caches are not.
FailConnect ==
    /\ working # Null
    /\ CleanupCache(Height[working])
    /\ working' = Null /\ db' = saved /\ saved' = Null
    /\ UNCHANGED <<tip, disk, tipIndex, queue>>

\* Mutant: the diff is erased from the database, too.
UndoBlockErases ==
    /\ SetCache([lists |-> Del(mnListsCache, tip), diffs |-> Del(mnListDiffsCache, tip)])
    /\ db' = [db EXCEPT !.diffs = Del(@, tip)]

\* The lists of the block and of its parent are needed when the diff has changes.
UndoBlock ==
    \E cur \in {GetListForBlock(Cache, tip)} :
    \E prev \in {GetListForBlock(cur.cache, Parent[tip])} :
    \E c \in {IF HasChanges(db.diffs[tip]) THEN prev.cache ELSE Cache} :
        /\ SetCache([lists |-> Del(c.lists, tip), diffs |-> Del(c.diffs, tip)])
        /\ db' = db

DisconnectBlock ==
    /\ working = Null /\ tip # Root
    /\ UndoBlock
    /\ tip' = Parent[tip]
    /\ UNCHANGED <<working, saved, disk, tipIndex, queue>>

Flush ==
    /\ Restarts /\ working = Null
    /\ disk' = [tip |-> tip, db |-> db]
    /\ UNCHANGED <<tip, working, mnListsCache, mnListDiffsCache, db, saved, tipIndex, queue>>

\* ActivateBestChain, after a step that may have connected several blocks.
NotifyTip ==
    /\ working = Null /\ Len(queue) < MaxQueue
    /\ tip # (IF queue = <<>> THEN tipIndex ELSE Last(queue))
    /\ queue' = Append(queue, tip)
    /\ UNCHANGED <<tip, working, mnListsCache, mnListDiffsCache, db, saved, disk, tipIndex>>

-----------------------------------------------------------------------------
(* Other threads.                                                          *)

UpdatedBlockTip ==
    /\ queue # <<>>
    /\ tipIndex' = Head(queue) /\ queue' = Tail(queue)
    /\ UNCHANGED <<tip, working, mnListsCache, mnListDiffsCache, db, saved, disk>>

\* The load thread, once after a start.
InitializeCurrentBlockTip ==
    /\ tipIndex = Null /\ working = Null
    /\ tipIndex' = tip
    /\ UNCHANGED <<tip, working, mnListsCache, mnListDiffsCache, db, saved, disk, queue>>

\* GetListAtChainTip, or GetListForBlock for a block of the active chain.
Query(b) ==
    /\ b \in Chain[tip] \/ b = tipIndex
    /\ \E got \in {GetListForBlock(Cache, b)} : SetCache(got.cache)
    /\ UNCHANGED <<tip, working, db, saved, disk, tipIndex, queue>>

\* The process dies and starts again.
Restart ==
    /\ Restarts
    /\ tip' = disk.tip /\ db' = disk.db /\ saved' = Null
    /\ working' = Null /\ tipIndex' = Null /\ queue' = <<>>
    /\ SetCache([lists |-> EmptyMap, diffs |-> EmptyMap])
    /\ disk' = disk

Next ==
    \/ \E b \in Block : ConnectBlock(b) \/ JustCheck(b)
    \/ FinishConnect \/ FailConnect \/ DisconnectBlock \/ Flush \/ NotifyTip
    \/ UpdatedBlockTip \/ InitializeCurrentBlockTip
    \/ \E b \in Block : Query(b)
    \/ Restart

Spec == Init /\ [][Next]_vars

-----------------------------------------------------------------------------
(* Properties.                                                             *)

\* The list of a block as a function of the chain below it: as built at a snapshot,
\* elsewhere as the diff rebuilds it.
ListOf ==
    LET L[b \in Index] ==
          IF b = Root THEN EmptyList
          ELSE LET old == L[Parent[b]]
                   new == BuildNewListFromBlock(old, b)
               IN  IF IsSnapshot(b) THEN new ELSE ApplyDiff(old, BuildDiff(old, new))
    IN  [b \in Index |-> L[b]]

DiffFrom == [b \in Block |-> BuildDiff(ListOf[Parent[b]], BuildNewListFromBlock(ListOf[Parent[b]], b))]

\* The caches and the database hold lists and diffs of known blocks.
TypeOK ==
    /\ tip \in Index /\ working \in Block \cup {Null}
    /\ tipIndex \in Index \cup {Null} /\ queue \in BoundedSeq(Index, MaxQueue)
    /\ DOMAIN mnListsCache \cup DOMAIN db.snapshots \subseteq Index
    /\ DOMAIN mnListDiffsCache \cup DOMAIN db.diffs \subseteq Block
    /\ working # Null => Parent[working] = tip /\ working \in DOMAIN db.diffs

\* A cached list or diff is the one of its block, whatever was disconnected, rolled back,
\* only checked or asked for by another thread in between: emplace never needs to overwrite.
CachesExact ==
    /\ \A b \in DOMAIN mnListsCache : mnListsCache[b] = ListOf[b]
    /\ \A b \in DOMAIN mnListDiffsCache : mnListDiffsCache[b] = DiffFrom[b]
    /\ \A b \in DOMAIN db.snapshots : db.snapshots[b] = ListOf[b]
    /\ \A b \in DOMAIN db.diffs : db.diffs[b] = DiffFrom[b]

\* The list of every block of the active chain, and of the tip that GetListAtChainTip
\* still believes in, can be had at any time, is that of the block, and asking for it
\* never ends in "No masternode list data found".
ListsObtainable ==
    \A b \in Chain[tip] \cup ({tipIndex} \ {Null}) : GetListForBlock(Cache, b).list = ListOf[b]

=============================================================================
