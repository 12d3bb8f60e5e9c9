-------------------------- MODULE CoinsCacheProofs --------------------------
(***************************************************************************)
(* The caches of coins, nullifiers and anchors show exactly the plain      *)
(* states of CoinsViews: flushes and crashes, and the theorems.  The lemmas *)
(* about one key and about the other operations are in CoinsCacheEntries   *)
(* and CoinsCacheAnchors.                                                  *)
(***************************************************************************)
EXTENDS CoinsCacheAnchors

(* Flushes and crashes *)

\* An empty cache shows what is below, and so does one with only the best anchor.
LEMMA EmptyAbove ==
    ASSUME NEW s \in V!State
    PROVE  /\ Above(EmptyCache, s) = s
           /\ \A c \in Cache : c.hashSaplingAnchor \in {Null, s.best} => Above(Flushed(c), s) = s
<1>1. /\ s = [coins |-> s.coins, nullifiers |-> s.nullifiers, anchors |-> s.anchors, best |-> s.best]
      /\ s.coins = [o \in Outpoint |-> s.coins[o]]
      /\ s.nullifiers = {n \in Nullifier : n \in s.nullifiers}
      /\ s.anchors = {r \in Root : r \in s.anchors}
  BY DEF V!State
<1>2. ASSUME NEW c, c.coins = EmptyCache.coins, c.nullifiers = EmptyCache.nullifiers,
             c.anchors = EmptyCache.anchors, c.hashSaplingAnchor \in {Null, s.best}
      PROVE  Above(c, s) = s
  <2>1. [o \in Outpoint |-> CoinAt(c.coins, o, s.coins[o])] = s.coins
    BY <1>1, <1>2 DEF CoinAt, EmptyCache
  <2>2. {n \in Nullifier : FlagAt(c.nullifiers, n, n \in s.nullifiers)} = s.nullifiers
    BY <1>1, <1>2 DEF FlagAt, EmptyCache
  <2>3. {r \in Root : FlagAt(c.anchors, r, r \in s.anchors)} = s.anchors
    BY <1>1, <1>2 DEF FlagAt, EmptyCache
  <2>4. (IF c.hashSaplingAnchor = Null THEN s.best ELSE c.hashSaplingAnchor) = s.best
    BY <1>2, SMTT(60)
  <2> QED  BY <1>1, <2>1, <2>2, <2>3, <2>4 DEF Above
<1>3. Above(EmptyCache, s) = s
  BY <1>2 DEF EmptyCache
<1>4. ASSUME NEW c \in Cache, c.hashSaplingAnchor \in {Null, s.best}
      PROVE  Above(Flushed(c), s) = s
  <2>1. /\ Flushed(c).coins = EmptyCache.coins /\ Flushed(c).nullifiers = EmptyCache.nullifiers
        /\ Flushed(c).anchors = EmptyCache.anchors /\ Flushed(c).hashSaplingAnchor = c.hashSaplingAnchor
    BY DEF Flushed, WithAnchors
  <2> QED  BY <1>2, <1>4, <2>1
<1> QED  BY <1>3, <1>4

\* The three levels show plain states.
LEMMA States ==
    ASSUME IInv
    PROVE  DBState \in V!State /\ TipState \in V!State /\ ViewState \in V!State
<1>1. DBState \in V!State
  BY CoinsAssumption, SMTT(60) DEF IInv, Typed, Database, DBState, DBAnchors, DBBestAnchor, V!State
<1>2. \A x \in Outpoint : /\ Val(tip.coins[x], db.coins[x]) \in CoinVal
                          /\ Val(view.coins[x], Val(tip.coins[x], db.coins[x])) \in CoinVal
  BY Entries DEF IInv, CoinsGood, Good, Val, Entry
<1>3. \A x \in Outpoint : /\ TipState.coins[x] = Val(tip.coins[x], db.coins[x])
                          /\ ViewState.coins[x] = Val(view.coins[x], Val(tip.coins[x], db.coins[x]))
  BY ViewCoins, ZenonT(30)
<1>4. TipBest \in Root /\ GetBestAnchor \in Root
  BY BestAsked, SMTT(60)
<1>5. TipState \in V!State
  <2>1. TipState.coins \in [Outpoint -> CoinVal] /\ TipState.best \in Root
    BY <1>2, <1>3, <1>4, ViewFlags, ZenonT(30) DEF TipState, Above
  <2> QED  BY <2>1 DEF TipState, Above, V!State, CoinVal
<1>6. ViewState \in V!State
  <2>1. ViewState.coins \in [Outpoint -> CoinVal] /\ ViewState.best \in Root
    BY <1>2, <1>3, <1>4, ViewFlags, ZenonT(30) DEF ViewState, Above
  <2> QED  BY <2>1 DEF ViewState, Above, V!State, CoinVal
<1> QED  BY <1>1, <1>5, <1>6

\* The empty cache.
LEMMA EmptyIs ==
    /\ EmptyCache \in Cache
    /\ \A x \in Outpoint : EmptyCache.coins[x] = Absent
    /\ \A x \in Nullifier : EmptyCache.nullifiers[x] = Absent
    /\ \A x \in Root : EmptyCache.anchors[x] = Absent
    /\ EmptyCache.hashSaplingAnchor = Null
BY DEF EmptyCache, Cache

\* A view that is dropped leaves what pcoinsTip shows.
LEMMA DiscardStep ==
    ASSUME IInv, view' = EmptyCache, UNCHANGED <<db, tip>>
    PROVE  IInv' /\ V!Discard
<1>1. DBState' = DBState /\ TipState' = TipState
  BY ZenonT(30) DEF DBState, TipState, Above, DBAnchors, DBBestAnchor
<1>2. ViewState' = TipState
  BY <1>1, States, EmptyAbove DEF ViewState
<1>3. Typed' /\ AllChained'
  BY <1>1, <1>2, EmptyIs DEF IInv, Typed, AllChained, StateChained
<1>4. CoinsGood'
  BY EmptyIs, Entries, ZenonT(30) DEF IInv, CoinsGood, Good, FlagsFit, Entry
<1>5. NullifiersGood' /\ AnchorsGood'
  BY EmptyIs, FlagOne, ZenonT(30) DEF IInv, NullifiersGood, AnchorsGood, DBAnchors
<1> QED  BY <1>1, <1>2, <1>3, <1>4, <1>5 DEF IInv, V!Discard

\* What is left after a crash is what is durable.
LEMMA CrashStep ==
    ASSUME IInv, Crash
    PROVE  IInv' /\ V!Crash
<1>0. tip' = EmptyCache /\ view' = EmptyCache /\ UNCHANGED db
  BY DEF Crash
<1>1. DBState' = DBState
  BY <1>0 DEF DBState, DBAnchors, DBBestAnchor
<1>2. TipState' = DBState
  BY <1>0, <1>1, States, EmptyAbove DEF TipState
<1>3. ViewState' = DBState
  BY <1>0, <1>2, States, EmptyAbove DEF ViewState
<1>4. Typed' /\ AllChained'
  BY <1>0, <1>1, <1>2, <1>3, EmptyIs DEF IInv, Typed, AllChained, StateChained
<1>5. CoinsGood'
  BY <1>0, EmptyIs, Entries, ZenonT(30) DEF IInv, CoinsGood, Good, FlagsFit, Entry
<1>6. NullifiersGood' /\ AnchorsGood'
  BY <1>0, EmptyIs, FlagOne, ZenonT(30) DEF IInv, NullifiersGood, AnchorsGood, DBAnchors
<1> QED  BY <1>1, <1>2, <1>3, <1>4, <1>5, <1>6 DEF IInv, V!Crash

\* A flushed view shows the same one level below.
LEMMA FlushViewStep ==
    ASSUME IInv, FlushView
    PROVE  IInv' /\ V!Flush
<1> DEFINE C == BatchWriteCoins(view.coins, tip.coins)
           N == BatchWriteFlags(view.nullifiers, tip.nullifiers)
           A == BatchWriteFlags(view.anchors, tip.anchors)
<1>1. /\ tip'.coins = C /\ tip'.nullifiers = N /\ tip'.anchors = A
      /\ tip'.hashSaplingAnchor = view.hashSaplingAnchor
      /\ tip' = [coins |-> C, nullifiers |-> N, anchors |-> A, hashSaplingAnchor |-> view.hashSaplingAnchor]
      /\ view' = EmptyCache /\ UNCHANGED db
      /\ view.hashSaplingAnchor # Null
  BY DEF FlushView, BatchWrite
<1>2. /\ C = [x \in Outpoint |-> BatchWriteCoin(view.coins[x], tip.coins[x])]
      /\ N = [x \in Nullifier |-> BatchWriteFlag(view.nullifiers[x], tip.nullifiers[x])]
      /\ A = [x \in Root |-> BatchWriteFlag(view.anchors[x], tip.anchors[x])]
  BY DEF IInv, Typed, Cache, BatchWriteCoins, BatchWriteFlags
<1> HIDE DEF C, N, A
<1>3. \A x \in Outpoint : /\ Good(db.coins[x], C[x], Absent) /\ C[x] \in Entry
                          /\ Val(C[x], db.coins[x]) = Val(view.coins[x], Val(tip.coins[x], db.coins[x]))
  BY <1>2, FlushOne, ZenonT(30) DEF IInv, CoinsGood, Good
<1>4. \A x \in Nullifier : /\ FlagGood(x \in db.nullifiers, N[x], Absent) /\ N[x] \in Flag
                           /\ Entered(N[x], x \in db.nullifiers)
                                <=> Entered(view.nullifiers[x], Entered(tip.nullifiers[x], x \in db.nullifiers))
  <2> SUFFICES ASSUME NEW x \in Nullifier
               PROVE  /\ FlagGood(x \in db.nullifiers, N[x], Absent) /\ N[x] \in Flag
                      /\ Entered(N[x], x \in db.nullifiers)
                           <=> Entered(view.nullifiers[x], Entered(tip.nullifiers[x], x \in db.nullifiers))
    OBVIOUS
  <2> DEFINE b == x \in db.nullifiers
  <2>1. FlagGood(b, tip.nullifiers[x], view.nullifiers[x])
    BY DEF IInv, NullifiersGood
  <2>2. N[x] = BatchWriteFlag(view.nullifiers[x], tip.nullifiers[x])
    BY <1>2, SMTT(60)
  <2> HIDE DEF b
  <2>3. FlagGood(b, N[x], Absent) /\ N[x] \in Flag
        /\ (Entered(N[x], b) <=> Entered(view.nullifiers[x], Entered(tip.nullifiers[x], b)))
    BY <2>1, <2>2, FlagFlush, SMTT(60)
  <2> QED  BY <2>3, ZenonT(30) DEF b
<1>5. \A x \in Root : /\ FlagGood(x \in DBAnchors(db), A[x], Absent) /\ A[x] \in Flag
                      /\ Entered(A[x], x \in DBAnchors(db))
                           <=> Entered(view.anchors[x], Entered(tip.anchors[x], x \in DBAnchors(db)))
  <2> SUFFICES ASSUME NEW x \in Root
               PROVE  /\ FlagGood(x \in DBAnchors(db), A[x], Absent) /\ A[x] \in Flag
                      /\ Entered(A[x], x \in DBAnchors(db))
                           <=> Entered(view.anchors[x], Entered(tip.anchors[x], x \in DBAnchors(db)))
    OBVIOUS
  <2> DEFINE b == x \in DBAnchors(db)
  <2>1. FlagGood(b, tip.anchors[x], view.anchors[x])
    BY DEF IInv, AnchorsGood
  <2>2. A[x] = BatchWriteFlag(view.anchors[x], tip.anchors[x])
    BY <1>2
  <2> HIDE DEF b
  <2>3. FlagGood(b, A[x], Absent) /\ A[x] \in Flag
        /\ (Entered(A[x], b) <=> Entered(view.anchors[x], Entered(tip.anchors[x], b)))
    BY <2>1, <2>2, FlagFlush, SMTT(60)
  <2> QED  BY <2>3, SMTT(60) DEF b
<1>6. Typed'
  <2>1. /\ C \in [Outpoint -> Entry] /\ N \in [Nullifier -> Flag] /\ A \in [Root -> Flag]
        /\ view.hashSaplingAnchor \in Root \cup {Null}
    BY <1>2, <1>3, <1>4, <1>5, ZenonT(30) DEF IInv, Typed, Cache
  <2> QED  BY <1>1, <2>1, EmptyIs DEF IInv, Typed, Cache, Entry, Flag
<1>7. DBState' = DBState /\ DBState.coins = db.coins /\ DBState.nullifiers = db.nullifiers
        /\ DBState.anchors = DBAnchors(db) /\ DBState.best = DBBestAnchor(db)
  BY <1>1 DEF DBState, DBAnchors, DBBestAnchor
<1>8. TipState' = ViewState
  <2>1. TipState' = Above(tip', DBState)
    BY <1>7, SMTT(60) DEF TipState
  <2>2. Above(tip', DBState).coins = ViewState.coins
    <3>1. Above(tip', DBState).coins = [x \in Outpoint |-> Val(C[x], db.coins[x])]
      BY <1>1, <1>7, SMTT(60) DEF Above, CoinAt, Val
    <3>2. ViewState.coins = [x \in Outpoint |-> Val(view.coins[x], Val(tip.coins[x], db.coins[x]))]
      BY ViewCoins, SMTT(60)
    <3> QED  BY <1>3, <3>1, <3>2, SMTT(60)
  <2>3. Above(tip', DBState).nullifiers = ViewState.nullifiers
    <3>1. Above(tip', DBState).nullifiers = {x \in Nullifier : Entered(N[x], x \in db.nullifiers)}
      BY <1>1, <1>7, SMTT(60) DEF Above, FlagAt, Entered
    <3>2. \A x \in Nullifier : x \in ViewState.nullifiers
             <=> Entered(view.nullifiers[x], Entered(tip.nullifiers[x], x \in db.nullifiers))
      BY ViewFlags DEF Entered
    <3>3. ViewState.nullifiers \subseteq Nullifier
      BY ViewFlags
    <3> QED  BY <1>4, <3>1, <3>2, <3>3, SMTT(60)
  <2>4. Above(tip', DBState).anchors = ViewState.anchors
    <3>1. Above(tip', DBState).anchors = {x \in Root : Entered(A[x], x \in DBAnchors(db))}
      BY <1>1, <1>7, SMTT(60) DEF Above, FlagAt, Entered
    <3>2. \A x \in Root : x \in ViewState.anchors
             <=> Entered(view.anchors[x], Entered(tip.anchors[x], x \in DBAnchors(db)))
      BY ViewFlags DEF Entered
    <3>3. ViewState.anchors \subseteq Root
      BY ViewFlags
    <3> QED  BY <1>5, <3>1, <3>2, <3>3, SMTT(60)
  <2>5. Above(tip', DBState).best = ViewState.best
    BY <1>1, ViewFlags, ZenonT(30) DEF Above, GetBestAnchor
  <2> QED  BY <2>1, <2>2, <2>3, <2>4, <2>5, ZenonT(30) DEF ViewState, Above
<1>9. ViewState' = ViewState
  BY <1>1, <1>8, States, EmptyAbove DEF ViewState
<1>10. CoinsGood' /\ NullifiersGood' /\ AnchorsGood' /\ AllChained'
  <2>1. CoinsGood'
    BY <1>1, <1>3, EmptyIs, SMTT(60) DEF CoinsGood
  <2>2. NullifiersGood'
    BY <1>1, <1>4, EmptyIs, SMTT(60) DEF NullifiersGood
  <2>3. AnchorsGood'
    BY <1>1, <1>5, EmptyIs DEF AnchorsGood, DBAnchors
  <2>4. AllChained'
    BY <1>7, <1>8, <1>9 DEF IInv, AllChained, StateChained
  <2> QED  BY <2>1, <2>2, <2>3, <2>4, SMTT(60)
<1> QED  BY <1>6, <1>7, <1>8, <1>9, <1>10, SMTT(60) DEF IInv, V!Flush

\* A flushed pcoinsTip shows the same in the database.
LEMMA FlushTipStep ==
    ASSUME IInv, FlushTip
    PROVE  IInv' /\ V!Persist
<1> DEFINE C == DBWriteCoins(tip.coins, db.coins, Outpoint)
           N == DBWriteFlags(tip.nullifiers, db.nullifiers)
           A == DBWriteFlags(tip.anchors, db.anchors)
           B == IF tip.hashSaplingAnchor = Null THEN db.best ELSE tip.hashSaplingAnchor
<1>1. /\ db' = [coins |-> C, nullifiers |-> N, anchors |-> A \ {EmptyRoot}, best |-> B]
      /\ tip' = Flushed(tip) /\ view = EmptyCache /\ view' = EmptyCache
  BY DEF FlushTip, BatchWriteDB
<1>2. C = TipState.coins /\ C \in [Outpoint -> CoinVal]
  <2>1. \A x \in Outpoint : /\ (IF tip.coins[x] # Absent /\ tip.coins[x].dirty THEN tip.coins[x].coin ELSE db.coins[x])
                                 = Val(tip.coins[x], db.coins[x])
                            /\ Val(tip.coins[x], db.coins[x]) \in CoinVal
    <3> SUFFICES ASSUME NEW x \in Outpoint
                 PROVE  /\ (IF tip.coins[x] # Absent /\ tip.coins[x].dirty THEN tip.coins[x].coin ELSE db.coins[x])
                             = Val(tip.coins[x], db.coins[x])
                        /\ Val(tip.coins[x], db.coins[x]) \in CoinVal
      BY ZenonT(30)
    <3>1. Good(db.coins[x], tip.coins[x], Absent)
      BY <1>1, EmptyIs DEF IInv, CoinsGood
    <3> QED  BY <3>1, PersistOne
  <2>2. C = [x \in Outpoint |-> Val(tip.coins[x], db.coins[x])]
    BY <2>1 DEF DBWriteCoins
  <2>3. TipState.coins = [x \in Outpoint |-> Val(tip.coins[x], db.coins[x])]
    BY ZenonT(30) DEF TipState, DBState, Above, CoinAt, Val
  <2> HIDE DEF C
  <2> QED  BY <2>1, <2>2, <2>3
<1>3. N = TipState.nullifiers /\ N \subseteq Nullifier
  <2>0. DOMAIN tip.nullifiers = Nullifier
    BY DEF IInv, Typed, Cache
  <2>1. \A x \in Nullifier : (IF tip.nullifiers[x] # Absent /\ tip.nullifiers[x].dirty
                              THEN tip.nullifiers[x].entered ELSE x \in db.nullifiers)
                               <=> Entered(tip.nullifiers[x], x \in db.nullifiers)
    BY ZenonT(30) DEF IInv, NullifiersGood, FlagGood, FlagFits, Entered
  <2>2. N = {x \in Nullifier : Entered(tip.nullifiers[x], x \in db.nullifiers)}
    BY <2>0, <2>1 DEF DBWriteFlags
  <2> HIDE DEF N
  <2> QED  BY <2>2, ViewFlags
<1>4. (A \ {EmptyRoot}) \cup {EmptyRoot} = TipState.anchors /\ A \subseteq Root
  <2>0. DOMAIN tip.anchors = Root
    BY DEF IInv, Typed, Cache
  <2>1. \A x \in Root \ {EmptyRoot} :
           (IF tip.anchors[x] # Absent /\ tip.anchors[x].dirty THEN tip.anchors[x].entered ELSE x \in db.anchors)
             <=> Entered(tip.anchors[x], x \in DBAnchors(db))
    <3> SUFFICES ASSUME NEW x \in Root \ {EmptyRoot}
                 PROVE  (IF tip.anchors[x] # Absent /\ tip.anchors[x].dirty
                         THEN tip.anchors[x].entered ELSE x \in db.anchors)
                          <=> Entered(tip.anchors[x], x \in DBAnchors(db))
      OBVIOUS
    <3>1. x \in DBAnchors(db) <=> x \in db.anchors
      BY DEF DBAnchors
    <3>2. FlagGood(x \in DBAnchors(db), tip.anchors[x], view.anchors[x])
      BY DEF IInv, AnchorsGood
    <3> QED  BY <3>1, <3>2, ZenonT(30) DEF FlagGood, FlagFits, Entered
  <2>2. \A x \in Root \ {EmptyRoot} : x \in A <=> x \in TipState.anchors
    BY <2>0, <2>1, ViewFlags DEF DBWriteFlags
  <2>3. A \subseteq Root
    BY <2>0 DEF DBWriteFlags
  <2>4. EmptyRoot \in TipState.anchors /\ TipState.anchors \subseteq Root
    BY ViewFlags DEF IInv, AllChained, StateChained, Chained
  <2> HIDE DEF A
  <2> QED  BY <2>2, <2>3, <2>4
<1>5. (IF B = Null THEN EmptyRoot ELSE B) = TipBest /\ B \in Root \cup {Null}
  BY CoinsAssumption DEF TipBest, DBBestAnchor, IInv, Typed, Cache, Database
<1> HIDE DEF C, N, A, B
<1>6. /\ db'.coins = C /\ db'.nullifiers = N /\ db'.anchors = A \ {EmptyRoot} /\ db'.best = B
      /\ db' \in Database
  BY <1>1, <1>2, <1>3, <1>4, <1>5 DEF Database, CoinVal
<1>7. DBState' = TipState
  <2>1. DBAnchors(db') = TipState.anchors /\ DBBestAnchor(db') = TipState.best
    BY <1>4, <1>5, <1>6, ViewFlags, ZenonT(30) DEF DBAnchors, DBBestAnchor
  <2> QED  BY <1>2, <1>3, <1>6, <2>1, ZenonT(30) DEF DBState, TipState, Above
<1>8. TipState' = TipState
  <2>1. tip \in Cache /\ tip.hashSaplingAnchor \in {Null, TipState.best}
    BY ViewFlags DEF IInv, Typed, TipBest
  <2>2. Above(Flushed(tip), TipState) = TipState
    BY <2>1, States, EmptyAbove
  <2> QED  BY <1>1, <1>7, <2>2, SMTT(60) DEF TipState
<1>9. ViewState = TipState /\ ViewState' = TipState
  BY <1>1, <1>8, States, EmptyAbove, SMTT(60) DEF ViewState
<1>10. /\ Flushed(tip) \in Cache
       /\ \A x \in Outpoint : Flushed(tip).coins[x] = Absent
       /\ \A x \in Nullifier : Flushed(tip).nullifiers[x] = Absent
       /\ \A x \in Root : Flushed(tip).anchors[x] = Absent
  BY EmptyIs DEF Flushed, WithAnchors, Cache, IInv, Typed
<1>11. CoinsGood'
  BY <1>1, <1>2, <1>6, <1>10, EmptyIs, ZenonT(30) DEF CoinsGood, Good, FlagsFit, Entry
<1>12. NullifiersGood' /\ AnchorsGood'
  <2>1. /\ \A x \in Nullifier : FlagGood(x \in db'.nullifiers, Absent, Absent)
        /\ \A x \in Root : FlagGood(x \in DBAnchors(db'), Absent, Absent)
    BY DEF FlagGood, FlagFits, Flag
  <2>2. /\ \A x \in Nullifier : tip'.nullifiers[x] = Absent /\ view'.nullifiers[x] = Absent
        /\ \A x \in Root : tip'.anchors[x] = Absent /\ view'.anchors[x] = Absent
    BY <1>1, <1>10, EmptyIs, SMTT(60)
  <2> QED  BY <2>1, <2>2 DEF NullifiersGood, AnchorsGood, DBAnchors
<1>13. Typed' /\ AllChained'
  BY <1>1, <1>6, <1>7, <1>8, <1>9, <1>10, EmptyIs DEF IInv, Typed, AllChained, StateChained
<1> QED  BY <1>7, <1>8, <1>9, <1>11, <1>12, <1>13, SMTT(60) DEF IInv, V!Persist

-----------------------------------------------------------------------------
(* The theorems *)

\* A new database: everything is empty.
LEMMA InitHolds == ASSUME Init PROVE IInv
<1>1. /\ db = [coins |-> [o \in Outpoint |-> NoCoin], nullifiers |-> {}, anchors |-> {}, best |-> Null]
      /\ tip = EmptyCache /\ view = EmptyCache
  BY ZenonT(30) DEF Init
<1>2. Typed
  BY <1>1, EmptyIs, ZenonT(30) DEF Typed, Database
<1>3. DBState \in V!State /\ DBState.anchors = {EmptyRoot} /\ DBState.best = EmptyRoot
  BY <1>1, CoinsAssumption, SMTT(60) DEF DBState, DBAnchors, DBBestAnchor, V!State
<1>4. TipState = DBState /\ ViewState = DBState
  BY <1>1, <1>3, EmptyAbove DEF TipState, ViewState
<1>5. AllChained
  BY <1>3, <1>4 DEF AllChained, StateChained, Chained
<1>6. CoinsGood
  BY <1>1, EmptyIs, ZenonT(30) DEF CoinsGood, Good, FlagsFit, Entry, CoinVal
<1>7. NullifiersGood /\ AnchorsGood
  BY <1>1, EmptyIs, SMTT(60) DEF NullifiersGood, AnchorsGood, FlagGood, FlagFits, Flag
<1> QED  BY <1>2, <1>5, <1>6, <1>7 DEF IInv

\* Every action keeps the invariant and has the effect of its name.
LEMMA NextHolds == ASSUME IInv, Next PROVE IInv' /\ Effect
<1>1. ASSUME NEW o \in Outpoint, Read(o) PROVE IInv' /\ Effect
  BY <1>1, ReadStep DEF Effect
<1>2. ASSUME NEW o \in Outpoint, Spend(o) PROVE IInv' /\ Effect
  BY <1>2, SpendStep DEF Effect
<1>3. ASSUME NEW o \in Outpoint, UncacheCoin(o) PROVE IInv' /\ Effect
  BY <1>3, UncacheStep DEF Effect
<1>4. ASSUME NEW o \in Outpoint, NEW c \in Coin, AddNewCoin(o, c) PROVE IInv' /\ Effect
  BY <1>4, AddNewStep DEF Effect
<1>5. ASSUME NEW o \in Outpoint, NEW c \in Coin, RestoreCoin(o, c) PROVE IInv' /\ Effect
  BY <1>5, RestoreStep DEF Effect
<1>6. ASSUME NEW n \in Nullifier, ReadNullifier(n) PROVE IInv' /\ Effect
  BY <1>6, ReadNullifierStep DEF Effect
<1>7. ASSUME NEW n \in Nullifier, NEW spent \in BOOLEAN, SetNullifiers(n, spent) PROVE IInv' /\ Effect
  <2>1. IInv' /\ V!SetNullifier(n, spent)
    BY <1>7, SetNullifierStep
  <2> QED  BY <1>7, <2>1 DEF Effect
<1>8. ASSUME NEW r \in Root, ReadAnchor(r) PROVE IInv' /\ Effect
  BY <1>8, ReadAnchorStep DEF Effect
<1>9. ASSUME NEW r \in Root, PushAnchor(r) PROVE IInv' /\ Effect
  BY <1>9, PushStep DEF Effect
<1>10. ASSUME NEW r \in Root, PopAnchor(r) PROVE IInv' /\ Effect
  BY <1>10, PopStep DEF Effect
<1>11. CASE FlushView
  BY <1>11, FlushViewStep DEF Effect
<1>12. CASE DiscardView
  BY <1>12, DiscardStep DEF Effect, DiscardView
<1>13. CASE FlushTip
  BY <1>13, FlushTipStep DEF Effect
<1>14. CASE Crash
  BY <1>14, CrashStep DEF Effect
<1> QED  BY <1>1, <1>2, <1>3, <1>4, <1>5, <1>6, <1>7, <1>8, <1>9, <1>10, <1>11, <1>12, <1>13, <1>14, SMTT(60) DEF Next

\* IInv is inductive.
THEOREM Inductive == Spec => []IInv
<1>1. Init => IInv
  BY InitHolds
<1>2. IInv /\ [Next]_vars => IInv'
  <2> SUFFICES ASSUME IInv, [Next]_vars PROVE IInv'
    OBVIOUS
  <2>1. CASE Next
    BY <2>1, NextHolds, SMTT(60)
  <2>2. CASE UNCHANGED vars
    <3>1. DBState' = DBState /\ TipState' = TipState /\ ViewState' = ViewState
      BY <2>2, ZenonT(30) DEF vars, DBState, TipState, ViewState, Above, DBAnchors, DBBestAnchor
    <3> QED  BY <2>2, <3>1 DEF vars, IInv, Typed, CoinsGood, NullifiersGood, AnchorsGood, AllChained,
                               StateChained, DBAnchors
  <2> QED  BY <2>1, <2>2
<1> QED  BY <1>1, <1>2, PTL DEF Spec

\* Types and flags: no entry of pcoinsTip or of a view has a combination of flags
\* that coins.h rules out.
THEOREM TypeCorrect == Spec => []TypeOK
<1>1. IInv => TypeOK
  BY ZenonT(30) DEF IInv, Typed, CoinsGood, Good, FlagsFit, TypeOK
<1> QED  BY <1>1, Inductive, PTL

\* DIRTY and FRESH mean what coins.h says, whatever the order of reads, changes,
\* flushes and crashes, so the check of BatchWrite never throws.
THEOREM FlagsAreTrue == Spec => []FlagsTrue
<1>1. IInv => FlagsTrue
  <2> SUFFICES ASSUME IInv PROVE FlagsTrue
    OBVIOUS
  <2>1. \A o \in Outpoint : Good(db.coins[o], tip.coins[o], view.coins[o])
                              /\ TipState.coins[o] = Val(tip.coins[o], db.coins[o])
    BY ViewCoins, ZenonT(30) DEF IInv, CoinsGood
  <2>2. \A o \in Outpoint :
          /\ tip.coins[o] # Absent => /\ ~tip.coins[o].dirty => tip.coins[o].coin = db.coins[o]
                                      /\ tip.coins[o].fresh => db.coins[o] = NoCoin
          /\ view.coins[o] # Absent => /\ ~view.coins[o].dirty => view.coins[o].coin = TipState.coins[o]
                                       /\ view.coins[o].fresh => TipState.coins[o] = NoCoin
    BY <2>1, Entries, ZenonT(30) DEF Good, FlagsFit, Val, Entry
  <2>3. ~FreshMisapplied(view.coins, tip.coins)
    BY <2>1, <2>2 DEF FreshMisapplied, Val
  <2> QED  BY <2>2, <2>3 DEF FlagsTrue
<1> QED  BY <1>1, Inductive, PTL

\* The tree of the best anchor is there at every level, and the valid anchors are
\* those of the chain.
THEOREM BestAnchorIsReadable == Spec => []BestAnchorReadable
<1>1. IInv => BestAnchorReadable
  BY DEF IInv, AllChained, StateChained, Chained, BestAnchorReadable
<1> QED  BY <1>1, Inductive, PTL

\* The caches implement the plain states of CoinsViews operation by operation.
THEOREM EffectIsExact == Spec => EffectExact
<1>1. IInv /\ [Next]_vars => [Effect]_vars
  BY NextHolds
<1> QED  BY <1>1, Inductive, PTL DEF Spec, EffectExact

=============================================================================
