------------------------------- MODULE EvoDB -------------------------------
(***************************************************************************)
(* CEvoDB (evo/evodb.h, evo/evodb.cpp): two CDBTransactions stacked over   *)
(* LevelDB.  Callers write into curDBTransaction; a scoped committer moves *)
(* it into rootDBTransaction or clears it; CommitRootTransaction moves the *)
(* root transaction through rootBatch to the disk.                         *)
(***************************************************************************)
EXTENDS DBTransaction, Integers, Functions

CONSTANTS
    KeySize,    \* serialized size of a key
    ValueSize   \* serialized size of a value

ASSUME SizeAssumption ==
    /\ KeySize \in [Key -> Nat]
    /\ ValueSize \in [Value -> Nat]

VARIABLES
    disk,       \* contents of the LevelDB database (db)
    batch,      \* rootBatch
    root,       \* rootDBTransaction
    cur,        \* curDBTransaction
    mem,        \* memoryUsage of cur and of root
    scope,      \* TRUE while a CEvoDBScopedCommitter has neither committed nor rolled back
    status      \* "ok", "throw" after a failed WriteBatch, "assert" after a failed assert

vars == <<disk, batch, root, cur, mem, scope, status>>

-----------------------------------------------------------------------------
(* memoryUsage: what each operation of a transaction adds to its estimate  *)
(* ("signed, just in case we made an error in the calculations").          *)

EntrySize(k, v) == KeySize[k] + ValueSize[v]

\* The bytes held back for a pending write of k in t.
PendingSize(t, k) == IF t.writes[k] = None THEN 0 ELSE EntrySize(k, t.writes[k])

DeleteSize(t, k) == IF k \in t.deletes THEN KeySize[k] ELSE 0

\* Mutant: the bytes of a dropped delete mark stay in the estimate.
TxWriteMemKeepsDelete(t, k, v) == EntrySize(k, v) - PendingSize(t, k)

TxWriteMem(t, k, v) == EntrySize(k, v) - PendingSize(t, k) - DeleteSize(t, k)

TxEraseMem(t, k) == (KeySize[k] - DeleteSize(t, k)) - PendingSize(t, k)

\* The change Commit() makes to the target's estimate on account of key k.
TxCommitKeyMem(t, target, k) ==
    IF t.writes[k] # None THEN TxWriteMem(target, k, t.writes[k])
    ELSE IF k \in t.deletes THEN TxEraseMem(target, k) ELSE 0

TxCommitMem(t, target) == SumFunction([k \in Key |-> TxCommitKeyMem(t, target, k)])

\* What an exact accounting of the overlay would give.
ExactMem(t) == SumFunction([k \in Key |-> PendingSize(t, k) + DeleteSize(t, k)])

-----------------------------------------------------------------------------

RootView == View(root, disk)

\* Read(key) of every key at once.
CurView == View(cur, RootView)

Init ==
    /\ disk \in Store
    /\ batch = Clean
    /\ root = Clean
    /\ cur = Clean
    /\ mem = [cur |-> 0, root |-> 0]
    /\ scope = FALSE
    /\ status = "ok"

BeginTransaction ==
    /\ status = "ok"
    /\ ~scope
    /\ scope' = TRUE
    /\ UNCHANGED <<disk, batch, root, cur, mem, status>>

\* Write and Erase do not ask for a committer: they may come outside a scope.
Write(k, v) ==
    /\ status = "ok"
    /\ cur' = TxWrite(cur, k, v)
    /\ mem' = [mem EXCEPT !.cur = @ + TxWriteMem(cur, k, v)]
    /\ UNCHANGED <<disk, batch, root, scope, status>>

Erase(k) ==
    /\ status = "ok"
    /\ cur' = TxErase(cur, k)
    /\ mem' = [mem EXCEPT !.cur = @ + TxEraseMem(cur, k)]
    /\ UNCHANGED <<disk, batch, root, scope, status>>

CommitCurTransaction ==
    /\ status = "ok"
    /\ scope
    /\ root' = TxCommit(cur, root)
    /\ cur' = Clean
    /\ mem' = [cur |-> 0, root |-> mem.root + TxCommitMem(cur, root)]
    /\ scope' = FALSE
    /\ UNCHANGED <<disk, batch, status>>

\* Rollback(), also run by the destructor of a committer that did nothing.
RollbackCurTransaction ==
    /\ status = "ok"
    /\ scope
    /\ cur' = Clean
    /\ mem' = [mem EXCEPT !.cur = 0]
    /\ scope' = FALSE
    /\ UNCHANGED <<disk, batch, root, status>>

\* The assert at the head of CommitRootTransaction.
CommitRootTransactionAssert ==
    /\ status # "assert"
    /\ ~IsClean(cur)
    /\ status' = "assert"
    /\ UNCHANGED <<disk, batch, root, cur, mem, scope>>

CommitRootTransaction ==
    /\ status # "assert"
    /\ IsClean(cur)
    /\ disk' = View(TxCommit(root, batch), disk)
    /\ batch' = Clean
    /\ root' = Clean
    /\ mem' = [mem EXCEPT !.root = 0]
    /\ UNCHANGED <<cur, scope, status>>

\* WriteBatch throws: the root transaction is already cleared, the batch keeps
\* its operations, and the node shuts down, trying the flush once more.
CommitRootTransactionThrow ==
    /\ status # "assert"
    /\ IsClean(cur)
    /\ batch' = TxCommit(root, batch)
    /\ root' = Clean
    /\ mem' = [mem EXCEPT !.root = 0]
    /\ status' = "throw"
    /\ UNCHANGED <<disk, cur, scope>>

\* The process ends, whatever the reason, and is started again.
Restart ==
    /\ batch' = Clean
    /\ root' = Clean
    /\ cur' = Clean
    /\ mem' = [cur |-> 0, root |-> 0]
    /\ scope' = FALSE
    /\ status' = "ok"
    /\ UNCHANGED disk

Next ==
    \/ BeginTransaction
    \/ \E k \in Key, v \in Value : Write(k, v)
    \/ \E k \in Key : Erase(k)
    \/ CommitCurTransaction
    \/ RollbackCurTransaction
    \/ CommitRootTransactionAssert
    \/ CommitRootTransaction
    \/ CommitRootTransactionThrow
    \/ Restart

Spec == Init /\ [][Next]_vars

-----------------------------------------------------------------------------
\* Every variable has its type, and an overlay never both writes and deletes
\* a key: Write drops the delete mark and Erase the pending write.
TypeOK ==
    /\ disk \in Store
    /\ {batch, root, cur} \subseteq Overlay
    /\ \A t \in {batch, root, cur}, k \in Key : k \in t.deletes => t.writes[k] = None
    /\ scope \in BOOLEAN
    /\ status \in {"ok", "throw", "assert"}

\* A WriteBatch that succeeds empties rootBatch, so that while the node runs
\* the batch hides nothing from readers.
BatchEmpty == status = "ok" => batch = Clean

\* memoryUsage of both transactions is the exact sum of the sizes of their
\* pending keys, values and deletes, through every order of Write, Erase,
\* Commit and Clear; in particular it is never negative.
MemoryExact == mem = [cur |-> ExactMem(cur), root |-> ExactMem(root)]

\* The committed store: what root and a batch still to be written add to disk.
CommittedView == View(root, View(batch, disk))

Abstract == INSTANCE AtomicStore
    WITH durable <- disk, committed <- CommittedView, view <- View(cur, CommittedView)

\* Read, Write, Erase, Commit, Rollback and CommitRootTransaction over the
\* stacked transactions behave as one atomic store: a commit publishes exactly
\* the pending operations, a rollback undoes exactly them, a crash loses
\* exactly what CommitRootTransaction has not written.
AtomicStoreSpec == Abstract!Spec

=============================================================================
