---------------------------- MODULE EvoDBProofs ----------------------------
(***************************************************************************)
(* The stacked transactions of CEvoDB implement one atomic store, for any  *)
(* sets of keys and values.                                                *)
(***************************************************************************)
EXTENDS EvoDB, TLAPS

Inv == TypeOK /\ BatchEmpty

\* Write, Erase, Commit and Clear (dbwrapper.h) keep an overlay well formed:
\* no key is both written and deleted.
WellFormed(t) == t \in Overlay /\ \A k \in Key : k \in t.deletes => t.writes[k] = None

LEMMA CleanWellFormed == WellFormed(Clean)
BY DEF WellFormed, Clean, Overlay, Store, EmptyStore

LEMMA WriteWellFormed ==
    ASSUME NEW t, WellFormed(t), NEW k \in Key, NEW v \in Value
    PROVE  WellFormed(TxWrite(t, k, v))
BY DEF WellFormed, TxWrite, Overlay, Store

LEMMA EraseWellFormed ==
    ASSUME NEW t, WellFormed(t), NEW k \in Key
    PROVE  WellFormed(TxErase(t, k))
BY DEF WellFormed, TxErase, Overlay, Store

LEMMA CommitWellFormed ==
    ASSUME NEW t, WellFormed(t), NEW u, WellFormed(u)
    PROVE  WellFormed(TxCommit(t, u))
BY DEF WellFormed, TxCommit, Overlay, Store

\* A store seen through an overlay is a store.
LEMMA ViewType ==
    ASSUME NEW t, WellFormed(t), NEW s \in Store
    PROVE  View(t, s) \in Store
BY DEF WellFormed, View, TxRead, Overlay, Store

\* A clean transaction hides nothing (Read falls through to the parent).
LEMMA ViewClean ==
    ASSUME NEW s \in Store
    PROVE  View(Clean, s) = s
BY DEF View, TxRead, Clean, EmptyStore, Store

\* IsClean recognises exactly the cleared transaction.
LEMMA IsCleanClean ==
    ASSUME NEW t \in Overlay, IsClean(t)
    PROVE  t = Clean
BY DEF IsClean, Clean, Overlay

\* Commit moves an overlay into its target without changing what is read.
LEMMA ViewCommit ==
    ASSUME NEW t, WellFormed(t), NEW u, WellFormed(u), NEW s \in Store
    PROVE  View(TxCommit(t, u), s) = View(t, View(u, s))
<1>. DEFINE c == TxCommit(t, u)
<1>1. ASSUME NEW k \in Key
      PROVE  TxRead(c, s, k) = TxRead(t, View(u, s), k)
  <2>1. View(u, s)[k] = TxRead(u, s, k)
    BY DEF View
  <2>2. c.writes[k] = IF t.writes[k] # None THEN t.writes[k]
                      ELSE IF k \in t.deletes THEN None ELSE u.writes[k]
    BY DEF TxCommit
  <2>3. k \in c.deletes <=> (k \in u.deletes \/ k \in t.deletes) /\ t.writes[k] = None
    BY DEF TxCommit
  <2>. QED
    BY <2>1, <2>2, <2>3 DEF TxRead, WellFormed
<1>. QED
  BY <1>1, Zenon DEF View

\* A write shows in the view as an update of the key.
LEMMA ViewWrite ==
    ASSUME NEW t, WellFormed(t), NEW s \in Store, NEW k \in Key, NEW v \in Value
    PROVE  View(TxWrite(t, k, v), s) = [View(t, s) EXCEPT ![k] = v]
BY NoneAssumption, Zenon DEF View, TxRead, TxWrite, WellFormed, Overlay, Store

\* An erase shows in the view as the absence of the key.
LEMMA ViewErase ==
    ASSUME NEW t, WellFormed(t), NEW s \in Store, NEW k \in Key
    PROVE  View(TxErase(t, k), s) = [View(t, s) EXCEPT ![k] = None]
BY Zenon DEF View, TxRead, TxErase, WellFormed, Overlay, Store

-----------------------------------------------------------------------------

\* TypeOK, overlay by overlay.
TypeParts ==
    /\ disk \in Store
    /\ WellFormed(batch) /\ WellFormed(root) /\ WellFormed(cur)
    /\ scope \in BOOLEAN
    /\ status \in {"ok", "throw", "assert"}

LEMMA TypeByParts == TypeOK <=> TypeParts
BY DEF TypeOK, TypeParts, WellFormed

LEMMA InitInv == Init => Inv
BY CleanWellFormed, TypeByParts, Zenon DEF Init, Inv, BatchEmpty, TypeParts

LEMMA NextInv == Inv /\ [Next]_vars => Inv'
<1>. SUFFICES ASSUME Inv, [Next]_vars PROVE Inv'
  OBVIOUS
<1>. USE CleanWellFormed, TypeByParts DEF Inv, BatchEmpty, TypeParts
<1>0. TypeOK' <=> TypeParts'
  BY TypeByParts, PTL
<1>1. CASE BeginTransaction
  BY <1>0, <1>1 DEF BeginTransaction
<1>2. ASSUME NEW k \in Key, NEW v \in Value, Write(k, v) PROVE Inv'
  BY <1>0, <1>2, WriteWellFormed DEF Write
<1>3. ASSUME NEW k \in Key, Erase(k) PROVE Inv'
  BY <1>0, <1>3, EraseWellFormed DEF Erase
<1>4. CASE CommitCurTransaction
  BY <1>0, <1>4, CommitWellFormed, Zenon DEF CommitCurTransaction
<1>5. CASE RollbackCurTransaction
  BY <1>0, <1>5, Zenon DEF RollbackCurTransaction
<1>6. CASE CommitRootTransactionAssert
  BY <1>0, <1>6 DEF CommitRootTransactionAssert
<1>7. CASE CommitRootTransaction
  BY <1>0, <1>7, CommitWellFormed, ViewType DEF CommitRootTransaction
<1>8. CASE CommitRootTransactionThrow
  BY <1>0, <1>8, CommitWellFormed DEF CommitRootTransactionThrow
<1>9. CASE Restart
  BY <1>0, <1>9, Zenon DEF Restart
<1>10. CASE UNCHANGED vars
  BY <1>0, <1>10 DEF vars
<1>. QED
  BY <1>1, <1>2, <1>3, <1>4, <1>5, <1>6, <1>7, <1>8, <1>9, <1>10 DEF Next

\* The overlays of CEvoDB are always well formed, whatever the order of Write,
\* Erase, Commit, Rollback, CommitRootTransaction and restarts.
THEOREM TypeCorrect == Spec => []TypeOK
<1>1. Inv => TypeOK
  BY DEF Inv
<1>. QED
  BY <1>1, InitInv, NextInv, PTL DEF Spec

\* While the node runs, rootBatch is empty: nothing committed is invisible.
THEOREM BatchEmptyCorrect == Spec => []BatchEmpty
<1>1. Inv => BatchEmpty
  BY DEF Inv
<1>. QED
  BY <1>1, InitInv, NextInv, PTL DEF Spec

-----------------------------------------------------------------------------
(* The refinement: every step of CEvoDB is a step of the atomic store.     *)

LEMMA InitRefines == Init => Abstract!Init
BY ViewClean DEF Init, Abstract!Init, Abstract!Store, Store, CommittedView

LEMMA NextRefines == Inv /\ [Next]_vars => [Abstract!Next]_(Abstract!vars)
<1>. SUFFICES ASSUME Inv, [Next]_vars PROVE [Abstract!Next]_(Abstract!vars)
  OBVIOUS
<1>. DEFINE pending == View(cur, CommittedView)
<1>0. /\ disk \in Store
      /\ WellFormed(batch) /\ WellFormed(root) /\ WellFormed(cur)
      /\ View(batch, disk) \in Store
      /\ CommittedView \in Store
      /\ pending \in Store
  BY TypeByParts, ViewType DEF Inv, TypeParts, CommittedView
<1>1. ASSUME UNCHANGED <<disk, batch, root, cur>> PROVE UNCHANGED Abstract!vars
  BY <1>1 DEF Abstract!vars, CommittedView
<1>2. ASSUME NEW k \in Key, NEW v \in Value, Write(k, v) PROVE Abstract!Put(k, v)
  <2>1. CommittedView' = CommittedView /\ disk' = disk
    BY <1>2 DEF Write, CommittedView
  <2>2. cur' = TxWrite(cur, k, v)
    BY <1>2 DEF Write
  <2>. QED
    BY <1>0, <2>1, <2>2, ViewWrite DEF Abstract!Put
<1>3. ASSUME NEW k \in Key, Erase(k) PROVE Abstract!Put(k, None)
  <2>1. CommittedView' = CommittedView /\ disk' = disk
    BY <1>3 DEF Erase, CommittedView
  <2>2. cur' = TxErase(cur, k)
    BY <1>3 DEF Erase
  <2>. QED
    BY <1>0, <2>1, <2>2, ViewErase DEF Abstract!Put
<1>4. ASSUME CommitCurTransaction PROVE Abstract!Commit
  <2>1. /\ disk' = disk /\ batch' = batch
        /\ root' = TxCommit(cur, root) /\ cur' = Clean
    BY <1>4 DEF CommitCurTransaction
  <2>2. CommittedView' = pending
    BY <1>0, <2>1, ViewCommit DEF CommittedView
  <2>3. View(cur, CommittedView)' = pending
    BY <1>0, <2>1, <2>2, ViewClean
  <2>. QED
    BY <2>1, <2>2, <2>3 DEF Abstract!Commit
<1>5. ASSUME RollbackCurTransaction PROVE Abstract!Rollback
  <2>1. disk' = disk /\ CommittedView' = CommittedView /\ cur' = Clean
    BY <1>5 DEF RollbackCurTransaction, CommittedView
  <2>. QED
    BY <1>0, <2>1, ViewClean DEF Abstract!Rollback
<1>6. ASSUME CommitRootTransaction PROVE Abstract!Persist
  <2>1. cur = Clean /\ cur' = Clean
    BY <1>6, <1>0, IsCleanClean DEF CommitRootTransaction, WellFormed
  <2>2. disk' = View(TxCommit(root, batch), disk) /\ batch' = Clean /\ root' = Clean
    BY <1>6 DEF CommitRootTransaction
  <2>3. disk' = CommittedView
    BY <1>0, <2>2, ViewCommit DEF CommittedView
  <2>4. CommittedView' = CommittedView
    BY <1>0, <2>2, <2>3, ViewClean DEF CommittedView
  <2>. QED
    BY <1>0, <2>1, <2>3, <2>4, ViewClean DEF Abstract!Persist
<1>7. ASSUME CommitRootTransactionThrow PROVE UNCHANGED Abstract!vars
  <2>1. disk' = disk /\ cur' = cur /\ batch' = TxCommit(root, batch) /\ root' = Clean
    BY <1>7 DEF CommitRootTransactionThrow
  <2>2. View(batch', disk) = CommittedView
    BY <1>0, <2>1, ViewCommit DEF CommittedView
  <2>3. CommittedView' = CommittedView
    BY <1>0, <2>1, <2>2, ViewClean DEF CommittedView
  <2>. QED
    BY <2>1, <2>3 DEF Abstract!vars
<1>8. ASSUME Restart PROVE Abstract!Crash
  <2>1. disk' = disk /\ batch' = Clean /\ root' = Clean /\ cur' = Clean
    BY <1>8 DEF Restart
  <2>2. CommittedView' = disk
    BY <1>0, <2>1, ViewClean DEF CommittedView
  <2>. QED
    BY <1>0, <2>1, <2>2, ViewClean DEF Abstract!Crash
<1>9. CASE BeginTransaction \/ CommitRootTransactionAssert \/ UNCHANGED vars
  BY <1>9, <1>1 DEF BeginTransaction, CommitRootTransactionAssert, vars
<1>. QED
  BY <1>2, <1>3, <1>4, <1>5, <1>6, <1>7, <1>8, <1>9 DEF Next, Abstract!Next

\* The EvoDB is an atomic store for every set of keys and values: what it
\* reads, commits, rolls back, persists and loses in a crash is what the
\* single-transaction store of AtomicStore does.
THEOREM EvoDBRefinesAtomicStore == Spec => AtomicStoreSpec
BY InitInv, NextInv, InitRefines, NextRefines, PTL DEF Spec, Abstract!Spec, AtomicStoreSpec

=============================================================================
