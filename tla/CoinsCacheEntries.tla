------------------------- MODULE CoinsCacheEntries --------------------------
(***************************************************************************)
(* The entries of the caches, for any sets of outpoints, coins, nullifiers *)
(* and roots.  The argument is about one key at a time: Good and FlagGood  *)
(* say what the entries of one key at the three levels have to do with each *)
(* other, and each operation on coins or nullifiers is shown to keep it.   *)
(***************************************************************************)
EXTENDS CoinsCache, TLAPS

CoinVal == Coin \cup {NoCoin}

Entry == CoinEntry \cup {Absent}

Flag == FlagEntry \cup {Absent}

\* What is seen of an entry above a value.
Val(e, below) == IF e = Absent THEN below ELSE e.coin

Entered(e, below) == IF e = Absent THEN below ELSE e.entered

\* The flags of an entry, given what the level below shows.
FlagsFit(e, below) ==
    e # Absent => IF e.dirty THEN e.fresh => e.coin # NoCoin /\ below = NoCoin
                  ELSE e.coin = below /\ (e.fresh <=> e.coin = NoCoin)

\* One outpoint: its coin in the database, its entries in pcoinsTip and in the view.
Good(d, t, v) ==
    /\ d \in CoinVal /\ t \in Entry /\ v \in Entry
    /\ FlagsFit(t, d) /\ (t # Absent /\ t.coin = NoCoin => t.dirty)
    /\ FlagsFit(v, Val(t, d))

FlagFits(e, below) == e # Absent /\ ~e.dirty => e.entered = below

\* One nullifier or anchor.
FlagGood(d, t, v) ==
    /\ d \in BOOLEAN /\ t \in Flag /\ v \in Flag
    /\ FlagFits(t, d)
    /\ FlagFits(v, Entered(t, d))

-----------------------------------------------------------------------------
(* One key.  Fetch, Add and Spend are the new entries of the outpoint that *)
(* FetchCoin, AddCoin and SpendCoin leave in the map.                      *)

Fetch(e, base) ==
    IF e # Absent \/ base = Absent THEN e ELSE [coin |-> base, dirty |-> FALSE, fresh |-> base = NoCoin]

Cached(e) == IF e = Absent THEN Absent ELSE e.coin

SlotOf(e) == IF e = Absent THEN [coin |-> NoCoin, dirty |-> FALSE, fresh |-> FALSE] ELSE e

Added(e, c, overwrite) ==
    [coin |-> c, dirty |-> TRUE, fresh |-> SlotOf(e).fresh \/ (~overwrite /\ ~SlotOf(e).dirty)]

AddedNew(e, c) == [coin |-> c, dirty |-> TRUE, fresh |-> SlotOf(e).fresh \/ ~SlotOf(e).dirty]

SpentEntry(e, base) ==
    IF Fetch(e, base) = Absent THEN Absent
    ELSE IF Fetch(e, base).fresh THEN Absent
    ELSE [coin |-> NoCoin, dirty |-> TRUE, fresh |-> FALSE]

\* pcoinsTip's entry after the view was asked for the coin.
Asked(d, t, v) == IF v = Absent THEN Fetch(t, IF d = NoCoin THEN Absent ELSE d) ELSE t

\* An entry is not Absent, and has the three fields.
LEMMA Entries ==
    /\ NoCoin \notin Coin /\ Absent \notin CoinVal
    /\ \A e \in CoinEntry : e # Absent /\ e.coin \in CoinVal /\ e.dirty \in BOOLEAN /\ e.fresh \in BOOLEAN
    /\ \A c \in CoinVal, d, f \in BOOLEAN : [coin |-> c, dirty |-> d, fresh |-> f] \in CoinEntry
    /\ \A e \in FlagEntry : e # Absent /\ e.entered \in BOOLEAN /\ e.dirty \in BOOLEAN
    /\ \A b, d \in BOOLEAN : [entered |-> b, dirty |-> d] \in FlagEntry
BY CoinsAssumption DEF CoinVal, CoinEntry, FlagEntry

\* A read caches what is there and shows the same as before.
LEMMA ReadOne ==
    ASSUME NEW d, NEW t, NEW v, Good(d, t, v)
    PROVE  /\ Good(d, Asked(d, t, v), v) /\ Val(Asked(d, t, v), d) = Val(t, d)
           /\ Good(d, Asked(d, t, v), Fetch(v, Cached(Asked(d, t, v))))
           /\ Val(Fetch(v, Cached(Asked(d, t, v))), Val(t, d)) = Val(v, Val(t, d))
           /\ Val(Fetch(v, Cached(Asked(d, t, v))), NoCoin) = Val(v, Val(t, d))
BY Entries, ZenonT(30) DEF Good, Asked, Fetch, Cached, Val, FlagsFit, Entry, CoinVal

\* AddCoin, when the coin is not there or the caller says that it may be.
LEMMA AddOne ==
    ASSUME NEW d, NEW t, NEW v, Good(d, t, v), NEW c \in Coin, NEW overwrite \in BOOLEAN,
           overwrite \/ Val(v, Val(t, d)) = NoCoin
    PROVE  Good(d, t, Added(v, c, overwrite)) /\ Val(Added(v, c, overwrite), Val(t, d)) = c
BY Entries, ZenonT(30) DEF Good, Added, SlotOf, Val, FlagsFit, Entry, CoinVal

\* AddCoin without possible_overwrite.
LEMMA AddNewOne ==
    ASSUME NEW d, NEW t, NEW v, Good(d, t, v), NEW c \in Coin, Val(v, Val(t, d)) = NoCoin
    PROVE  Good(d, t, AddedNew(v, c)) /\ Val(AddedNew(v, c), Val(t, d)) = c
BY Entries, ZenonT(30) DEF Good, AddedNew, SlotOf, Val, FlagsFit, Entry, CoinVal

\* SpendCoin leaves nothing to see.
LEMMA SpendOne ==
    ASSUME NEW d, NEW t, NEW v, Good(d, t, v)
    PROVE  LET s == SpentEntry(v, Cached(Asked(d, t, v)))
           IN  Good(d, Asked(d, t, v), s) /\ Val(s, Val(t, d)) = NoCoin
BY Entries, ZenonT(30) DEF Good, SpentEntry, Asked, Fetch, Cached, Val, FlagsFit, Entry, CoinVal

\* BatchWrite into pcoinsTip shows what the view showed.
LEMMA FlushOne ==
    ASSUME NEW d, NEW t, NEW v, Good(d, t, v)
    PROVE  /\ Good(d, BatchWriteCoin(v, t), Absent)
           /\ Val(BatchWriteCoin(v, t), d) = Val(v, Val(t, d))
BY Entries, ZenonT(30) DEF Good, BatchWriteCoin, Val, FlagsFit, Entry, CoinVal

\* BatchWrite into the database.
LEMMA PersistOne ==
    ASSUME NEW d, NEW t, Good(d, t, Absent)
    PROVE  LET w == IF t # Absent /\ t.dirty THEN t.coin ELSE d
           IN  w = Val(t, d) /\ w \in CoinVal
BY Entries DEF Good, Val, FlagsFit, Entry, CoinVal

\* Flags: a read, a change, and the two flushes.
LEMMA FlagOne ==
    ASSUME NEW d, NEW t, NEW v, FlagGood(d, t, v)
    PROVE  /\ \A b \in BOOLEAN : FlagGood(d, t, [entered |-> b, dirty |-> TRUE])
           /\ FlagGood(d, BatchWriteFlag(v, t), Absent)
           /\ Entered(BatchWriteFlag(v, t), d) = Entered(v, Entered(t, d))
           /\ (IF t # Absent /\ t.dirty THEN t.entered ELSE d) = Entered(t, d)
           /\ t = Absent => FlagGood(d, [entered |-> d, dirty |-> FALSE], v)
           /\ v = Absent => FlagGood(d, t, [entered |-> Entered(t, d), dirty |-> FALSE])
           /\ FlagGood(d, t, Absent) /\ FlagGood(d, Absent, Absent)
BY Entries, ZenonT(30) DEF FlagGood, BatchWriteFlag, Entered, FlagFits, Flag

\* BatchWrite of one flag shows what the view showed.
LEMMA FlagFlush ==
    ASSUME NEW d, NEW t, NEW v, NEW w, FlagGood(d, t, v), w = BatchWriteFlag(v, t)
    PROVE  FlagGood(d, w, Absent) /\ w \in Flag /\ (Entered(w, d) <=> Entered(v, Entered(t, d)))
<1>1. FlagGood(d, w, Absent) /\ Entered(w, d) = Entered(v, Entered(t, d))
  BY FlagOne, ZenonT(30)
<1> QED  BY <1>1 DEF FlagGood

-----------------------------------------------------------------------------
(* The whole state *)

Typed == db \in Database /\ tip \in Cache /\ view \in Cache

CoinsGood == \A o \in Outpoint : Good(db.coins[o], tip.coins[o], view.coins[o])

NullifiersGood == \A n \in Nullifier : FlagGood(n \in db.nullifiers, tip.nullifiers[n], view.nullifiers[n])

AnchorsGood == \A r \in Root : FlagGood(r \in DBAnchors(db), tip.anchors[r], view.anchors[r])

\* The anchors of a state: the best one and those it grew from, down to the empty tree.
Chained(anchors, best) ==
    /\ best \in anchors /\ EmptyRoot \in anchors
    /\ \A r \in anchors \ {best} : <<best, r>> \in Extends

StateChained(s) == Chained(s.anchors, s.best)

AllChained == StateChained(DBState) /\ StateChained(TipState) /\ StateChained(ViewState)

IInv == Typed /\ CoinsGood /\ NullifiersGood /\ AnchorsGood /\ AllChained

\* The fields of a cache when one of them is replaced.
LEMMA SetField ==
    ASSUME NEW c \in Cache
    PROVE  /\ \A m \in [Outpoint -> Entry] : WithCoins(c, m) \in Cache
           /\ \A m \in [Nullifier -> Flag] : WithNullifiers(c, m) \in Cache
           /\ \A m \in [Root -> Flag], h \in Root \cup {Null} : WithAnchors(c, m, h) \in Cache
BY DEF Cache, Entry, Flag, WithCoins, WithNullifiers, WithAnchors

\* Replacing a field by itself.
LEMMA Same ==
    ASSUME NEW c \in Cache
    PROVE  /\ c = WithCoins(c, c.coins)
           /\ c = WithNullifiers(c, c.nullifiers)
           /\ c = WithAnchors(c, c.anchors, c.hashSaplingAnchor)
BY DEF Cache, WithCoins, WithNullifiers, WithAnchors

\* A step that only touches coins, keeps what pcoinsTip shows and keeps the flags right.
LEMMA CoinsStep ==
    ASSUME IInv, NEW T \in [Outpoint -> Entry], NEW W \in [Outpoint -> Entry],
           tip' = WithCoins(tip, T), view' = WithCoins(view, W), UNCHANGED db,
           \A x \in Outpoint : /\ Good(db.coins[x], T[x], W[x])
                               /\ Val(T[x], db.coins[x]) = Val(tip.coins[x], db.coins[x])
    PROVE  /\ IInv'
           /\ DBState' = DBState /\ TipState' = TipState
           /\ ViewState' = [coins |-> [x \in Outpoint |-> Val(W[x], TipState.coins[x])],
                            nullifiers |-> ViewState.nullifiers, anchors |-> ViewState.anchors,
                            best |-> ViewState.best]
<1>1. /\ tip'.coins = T /\ tip'.nullifiers = tip.nullifiers
      /\ tip'.anchors = tip.anchors /\ tip'.hashSaplingAnchor = tip.hashSaplingAnchor
      /\ view'.coins = W /\ view'.nullifiers = view.nullifiers
      /\ view'.anchors = view.anchors /\ view'.hashSaplingAnchor = view.hashSaplingAnchor
  BY DEF WithCoins
<1>2. tip' \in Cache /\ view' \in Cache
  BY SetField DEF IInv, Typed
<1>3. DBState' = DBState /\ DBState.coins = db.coins
  BY DEF DBState, DBAnchors, DBBestAnchor
<1>4. TipState' = TipState
  <2>0. \A x \in Outpoint : CoinAt(tip'.coins, x, DBState.coins[x]) = CoinAt(tip.coins, x, DBState.coins[x])
    <3> SUFFICES ASSUME NEW x \in Outpoint
                 PROVE  CoinAt(tip'.coins, x, DBState.coins[x]) = CoinAt(tip.coins, x, DBState.coins[x])
      OBVIOUS
    <3>1. Val(tip'.coins[x], db.coins[x]) = Val(tip.coins[x], db.coins[x]) /\ DBState.coins[x] = db.coins[x]
      BY <1>1, <1>3
    <3> QED  BY <3>1 DEF CoinAt, Val
  <2>1. Above(tip', DBState).coins = Above(tip, DBState).coins
    BY <2>0 DEF Above
  <2>2. Above(tip', DBState) = Above(tip, DBState)
    BY <1>1, <2>1, ZenonT(30) DEF Above
  <2> QED  BY <1>3, <2>2 DEF TipState
<1>5. ViewState' = [coins |-> [x \in Outpoint |-> Val(W[x], TipState.coins[x])],
                    nullifiers |-> ViewState.nullifiers, anchors |-> ViewState.anchors,
                    best |-> ViewState.best]
  <2>1. ViewState' = Above(view', TipState)
    BY <1>4 DEF ViewState
  <2>2. Above(view', TipState).coins = [x \in Outpoint |-> Val(W[x], TipState.coins[x])]
    BY <1>1 DEF CoinAt, Val, Above
  <2>3. /\ Above(view', TipState).nullifiers = ViewState.nullifiers
        /\ Above(view', TipState).anchors = ViewState.anchors
        /\ Above(view', TipState).best = ViewState.best
    BY <1>1 DEF Above, ViewState
  <2> QED  BY <2>1, <2>2, <2>3, ZenonT(30) DEF Above
<1>6. ViewState'.anchors = ViewState.anchors /\ ViewState'.best = ViewState.best
  BY <1>5
<1>7. CoinsGood' /\ NullifiersGood' /\ AnchorsGood' /\ Typed'
  BY <1>1, <1>2 DEF IInv, Typed, CoinsGood, NullifiersGood, AnchorsGood, DBAnchors
<1>8. AllChained'
  BY <1>3, <1>4, <1>6 DEF IInv, AllChained, StateChained
<1> QED  BY <1>3, <1>4, <1>5, <1>7, <1>8 DEF IInv

-----------------------------------------------------------------------------
(* Operations on coins *)

\* The map of pcoinsTip after it was asked for o, and its effect.
LEMMA AskedMap ==
    ASSUME IInv, NEW o \in Outpoint
    PROVE  /\ TipAsked(o) \in [Outpoint -> Entry]
           /\ TipAsked(o)[o] = Asked(db.coins[o], tip.coins[o], view.coins[o])
           /\ \A x \in Outpoint \ {o} : TipAsked(o)[x] = tip.coins[x]
           /\ CachedCoin(TipAsked(o), o) = Cached(TipAsked(o)[o])
           /\ Val(TipAsked(o)[o], db.coins[o]) = Val(tip.coins[o], db.coins[o])
<1>1. tip.coins \in [Outpoint -> Entry] /\ db.coins \in [Outpoint -> CoinVal]
  BY DEF IInv, Typed, Cache, Database, Entry, CoinVal
<1>2. Asked(db.coins[o], tip.coins[o], view.coins[o]) \in Entry
  BY ReadOne DEF IInv, CoinsGood, Good
<1>3. TipAsked(o) = [tip.coins EXCEPT ![o] = Asked(db.coins[o], tip.coins[o], view.coins[o])]
  BY <1>1, ZenonT(30) DEF TipAsked, TipFetch, FetchCoin, DBCoin, Asked, Fetch
<1>4. CachedCoin(TipAsked(o), o) = Cached(TipAsked(o)[o])
  BY DEF CachedCoin, Cached
<1>5. Val(Asked(db.coins[o], tip.coins[o], view.coins[o]), db.coins[o]) = Val(tip.coins[o], db.coins[o])
  BY ReadOne DEF IInv, CoinsGood
<1> QED  BY <1>1, <1>2, <1>3, <1>4, <1>5

\* The map of the view with another entry for o.
LEMMA ViewMap ==
    ASSUME IInv, NEW o \in Outpoint, NEW e \in Entry
    PROVE  /\ [view.coins EXCEPT ![o] = e] \in [Outpoint -> Entry]
           /\ [view.coins EXCEPT ![o] = e][o] = e
           /\ \A x \in Outpoint \ {o} : [view.coins EXCEPT ![o] = e][x] = view.coins[x]
           /\ view.coins \in [Outpoint -> Entry]
BY DEF IInv, Typed, Cache, Entry

\* What the view shows, coin by coin.
LEMMA ViewCoins ==
    ASSUME IInv
    PROVE  /\ ViewState.coins = [x \in Outpoint |-> Val(view.coins[x], TipState.coins[x])]
           /\ \A x \in Outpoint : TipState.coins[x] = Val(tip.coins[x], db.coins[x])
BY DEF ViewState, TipState, DBState, Above, CoinAt, Val

\* One outpoint changes: pcoinsTip shows the same of it, the view's entry becomes e.
LEMMA OneCoin ==
    ASSUME IInv, NEW o \in Outpoint, NEW e, NEW T \in [Outpoint -> Entry],
           \A x \in Outpoint \ {o} : T[x] = tip.coins[x],
           Val(T[o], db.coins[o]) = Val(tip.coins[o], db.coins[o]),
           Good(db.coins[o], T[o], e),
           tip' = WithCoins(tip, T), view' = WithCoins(view, [view.coins EXCEPT ![o] = e]),
           UNCHANGED db
    PROVE  IInv' /\ V!SetCoin(o, Val(e, TipState.coins[o]))
<1>1. e \in Entry
  BY DEF Good
<1> DEFINE W == [view.coins EXCEPT ![o] = e]
<1>2. /\ W \in [Outpoint -> Entry] /\ W[o] = e
      /\ \A x \in Outpoint \ {o} : W[x] = view.coins[x]
  BY <1>1, ViewMap
<1>3. view' = WithCoins(view, W)
  OBVIOUS
<1> HIDE DEF W
<1>4. \A x \in Outpoint : /\ Good(db.coins[x], T[x], W[x])
                          /\ Val(T[x], db.coins[x]) = Val(tip.coins[x], db.coins[x])
  <2>1. ASSUME NEW x \in Outpoint, x # o
        PROVE  Good(db.coins[x], T[x], W[x]) /\ T[x] = tip.coins[x]
    BY <1>2, <2>1 DEF IInv, CoinsGood
  <2> QED  BY <1>2, <2>1
<1>5. /\ IInv'
      /\ DBState' = DBState /\ TipState' = TipState
      /\ ViewState' = [coins |-> [x \in Outpoint |-> Val(W[x], TipState.coins[x])],
                       nullifiers |-> ViewState.nullifiers, anchors |-> ViewState.anchors,
                       best |-> ViewState.best]
  BY <1>2, <1>3, <1>4, CoinsStep, ZenonT(30)
<1>6. [x \in Outpoint |-> Val(W[x], TipState.coins[x])]
        = [ViewState.coins EXCEPT ![o] = Val(e, TipState.coins[o])]
  BY <1>2, ViewCoins
<1> QED  BY <1>5, <1>6 DEF V!SetCoin

\* Setting a coin to what it is changes nothing.
LEMMA SameCoin ==
    ASSUME IInv, NEW o \in Outpoint, V!SetCoin(o, ViewState.coins[o])
    PROVE  UNCHANGED V!vars
<1>1. [ViewState.coins EXCEPT ![o] = ViewState.coins[o]] = ViewState.coins
  BY ViewCoins
<1>2. ViewState' = ViewState
  BY <1>1, ZenonT(30) DEF V!SetCoin, ViewState, Above
<1> QED  BY <1>2 DEF V!SetCoin, V!vars

\* A read fills the caches and shows nothing new.
LEMMA ReadStep ==
    ASSUME IInv, NEW o \in Outpoint, Read(o)
    PROVE  IInv' /\ UNCHANGED V!vars
<1> DEFINE e == Fetch(view.coins[o], Cached(TipAsked(o)[o]))
<1>1. Good(db.coins[o], TipAsked(o)[o], e) /\ Val(e, TipState.coins[o]) = ViewState.coins[o]
  <2>1. Good(db.coins[o], tip.coins[o], view.coins[o])
    BY DEF IInv, CoinsGood
  <2>2. TipAsked(o)[o] = Asked(db.coins[o], tip.coins[o], view.coins[o])
    BY AskedMap
  <2>3. /\ TipState.coins[o] = Val(tip.coins[o], db.coins[o])
        /\ ViewState.coins[o] = Val(view.coins[o], TipState.coins[o])
    BY ViewCoins
  <2> QED  BY <2>1, <2>2, <2>3, ReadOne
<1>2. FetchCoin(view.coins, o, CachedCoin(TipAsked(o), o)) = [view.coins EXCEPT ![o] = e]
  BY AskedMap, ViewMap, ZenonT(30) DEF FetchCoin, Fetch, IInv, Typed, Cache
<1> HIDE DEF e
<1>3. IInv' /\ V!SetCoin(o, Val(e, TipState.coins[o]))
  BY <1>1, <1>2, AskedMap, OneCoin, ZenonT(30) DEF Read
<1> QED  BY <1>1, <1>3, SameCoin

\* A spent coin is gone from the view.
LEMMA SpendStep ==
    ASSUME IInv, NEW o \in Outpoint, Spend(o)
    PROVE  IInv' /\ V!SetCoin(o, NoCoin)
<1> DEFINE e == SpentEntry(view.coins[o], Cached(TipAsked(o)[o]))
<1>1. Good(db.coins[o], TipAsked(o)[o], e) /\ Val(e, TipState.coins[o]) = NoCoin
  <2>1. Good(db.coins[o], tip.coins[o], view.coins[o])
    BY DEF IInv, CoinsGood
  <2>2. TipAsked(o)[o] = Asked(db.coins[o], tip.coins[o], view.coins[o])
    BY AskedMap
  <2>3. TipState.coins[o] = Val(tip.coins[o], db.coins[o])
    BY ViewCoins
  <2> QED  BY <2>1, <2>2, <2>3, SpendOne
<1>2. SpendCoin(view.coins, o, CachedCoin(TipAsked(o), o)) = [view.coins EXCEPT ![o] = e]
  BY AskedMap, ViewMap, ZenonT(60) DEF SpendCoin, FetchCoin, SpentEntry, Fetch, IInv, Typed, Cache
<1> HIDE DEF e
<1> QED  BY <1>1, <1>2, AskedMap, OneCoin, ZenonT(30) DEF Spend

\* A coin that is not there is added without a look below.
LEMMA AddNewStep ==
    ASSUME IInv, NEW o \in Outpoint, NEW c \in Coin, AddNewCoin(o, c)
    PROVE  IInv' /\ V!SetCoin(o, c)
<1> DEFINE e == AddedNew(view.coins[o], c)
<1>1. Good(db.coins[o], tip.coins[o], e) /\ Val(e, TipState.coins[o]) = c
  <2>1. Good(db.coins[o], tip.coins[o], view.coins[o])
    BY DEF IInv, CoinsGood
  <2>2. /\ TipState.coins[o] = Val(tip.coins[o], db.coins[o])
        /\ Val(view.coins[o], Val(tip.coins[o], db.coins[o])) = NoCoin
    BY ViewCoins DEF AddNewCoin
  <2>3. Good(db.coins[o], tip.coins[o], e) /\ Val(e, Val(tip.coins[o], db.coins[o])) = c
    BY <2>1, <2>2, AddNewOne
  <2> QED  BY <2>2, <2>3
<1>2. AddCoin(view.coins, o, c, FALSE) = [view.coins EXCEPT ![o] = e]
  BY DEF AddCoin, Slot, AddedNew, SlotOf
<1>3. tip.coins \in [Outpoint -> Entry] /\ tip' = WithCoins(tip, tip.coins)
  BY Same DEF AddNewCoin, IInv, Typed, Cache, Entry
<1> HIDE DEF e
<1> QED  BY <1>1, <1>2, <1>3, OneCoin, ZenonT(30) DEF AddNewCoin

\* A coin is restored after HaveCoin told whether it is there.
LEMMA RestoreStep ==
    ASSUME IInv, NEW o \in Outpoint, NEW c \in Coin, RestoreCoin(o, c)
    PROVE  IInv' /\ V!SetCoin(o, c)
<1> DEFINE f == Fetch(view.coins[o], Cached(TipAsked(o)[o]))
           F == [view.coins EXCEPT ![o] = f]
           e == Added(f, c, HaveCoin(F, o))
<1>1. /\ Good(db.coins[o], TipAsked(o)[o], f)
      /\ TipState.coins[o] = Val(tip.coins[o], db.coins[o])
      /\ Val(TipAsked(o)[o], db.coins[o]) = Val(tip.coins[o], db.coins[o])
      /\ Val(f, TipState.coins[o]) = ViewState.coins[o]
      /\ Val(f, NoCoin) = ViewState.coins[o]
  <2>1. Good(db.coins[o], tip.coins[o], view.coins[o])
    BY DEF IInv, CoinsGood
  <2>2. TipAsked(o)[o] = Asked(db.coins[o], tip.coins[o], view.coins[o])
    BY AskedMap
  <2>3. /\ TipState.coins[o] = Val(tip.coins[o], db.coins[o])
        /\ ViewState.coins[o] = Val(view.coins[o], TipState.coins[o])
    BY ViewCoins
  <2> DEFINE d == db.coins[o]
             t == tip.coins[o]
             v == view.coins[o]
  <2>4. /\ Good(d, Asked(d, t, v), Fetch(v, Cached(Asked(d, t, v))))
        /\ Val(Asked(d, t, v), d) = Val(t, d)
        /\ Val(Fetch(v, Cached(Asked(d, t, v))), Val(t, d)) = Val(v, Val(t, d))
        /\ Val(Fetch(v, Cached(Asked(d, t, v))), NoCoin) = Val(v, Val(t, d))
    BY <2>1, ReadOne
  <2> QED  BY <2>2, <2>3, <2>4
<1>2. FetchCoin(view.coins, o, CachedCoin(TipAsked(o), o)) = F
  BY AskedMap, ViewMap, ZenonT(30) DEF FetchCoin, Fetch, IInv, Typed, Cache
<1>3. F \in [Outpoint -> Entry] /\ F[o] = f
  BY <1>1, ViewMap DEF Good
<1>4. HaveCoin(F, o) \/ Val(f, TipState.coins[o]) = NoCoin
  BY <1>1, <1>3, Entries DEF HaveCoin, CachedCoin, Val, Good, Entry, CoinVal
<1>5. Good(db.coins[o], TipAsked(o)[o], e) /\ Val(e, TipState.coins[o]) = c
  <2>1. HaveCoin(F, o) \in BOOLEAN
    BY DEF HaveCoin
  <2> HIDE DEF f, F
  <2> QED  BY <1>1, <1>4, <2>1, AddOne
<1>6. AddCoin(F, o, c, HaveCoin(F, o)) = [view.coins EXCEPT ![o] = e]
  <2>1. AddCoin(F, o, c, HaveCoin(F, o)) = [F EXCEPT ![o] = e]
    <3> HIDE DEF F
    <3> QED  BY <1>3 DEF AddCoin, Slot, Added, SlotOf
  <2>2. [F EXCEPT ![o] = e] = [view.coins EXCEPT ![o] = e]
    <3> HIDE DEF e
    <3> QED  BY ViewMap DEF IInv, Typed, Cache
  <2> QED  BY <2>1, <2>2
<1>7. /\ tip' = WithCoins(tip, TipAsked(o))
      /\ view' = WithCoins(view, AddCoin(F, o, c, HaveCoin(F, o)))
      /\ UNCHANGED db
  <2> HIDE DEF F
  <2> QED  BY <1>2 DEF RestoreCoin
<1> HIDE DEF e, F, f
<1> QED  BY <1>1, <1>5, <1>6, <1>7, AskedMap, OneCoin, ZenonT(30)

\* An entry without flags is what the database has.
LEMMA UncacheStep ==
    ASSUME IInv, NEW o \in Outpoint, UncacheCoin(o)
    PROVE  IInv' /\ UNCHANGED V!vars
<1> DEFINE T == Uncache(tip.coins, o)
           e == view.coins[o]
<1>1. tip.coins \in [Outpoint -> Entry] /\ e = Absent
  BY DEF IInv, Typed, Cache, Entry, UncacheCoin, EmptyCache
<1>2. /\ T \in [Outpoint -> Entry]
      /\ \A x \in Outpoint \ {o} : T[x] = tip.coins[x]
      /\ T[o] = tip.coins[o] \/ (T[o] = Absent /\ tip.coins[o] # Absent /\ ~tip.coins[o].dirty)
  BY <1>1 DEF Uncache, Entry
<1>3. Good(db.coins[o], T[o], e) /\ Val(T[o], db.coins[o]) = Val(tip.coins[o], db.coins[o])
  <2>1. Good(db.coins[o], tip.coins[o], Absent)
    BY <1>1 DEF IInv, CoinsGood
  <2> HIDE DEF T
  <2> QED  BY <1>1, <1>2, <2>1, Entries DEF Good, FlagsFit, Val, Entry, CoinVal
<1>4. view' = WithCoins(view, [view.coins EXCEPT ![o] = e])
  <2>1. view.coins = [view.coins EXCEPT ![o] = e]
    BY DEF IInv, Typed, Cache
  <2> QED  BY <2>1, Same DEF UncacheCoin, IInv, Typed
<1>5. tip' = WithCoins(tip, T) /\ UNCHANGED db
  BY DEF UncacheCoin
<1>6. Val(e, TipState.coins[o]) = ViewState.coins[o]
  BY ViewCoins
<1> HIDE DEF T, e
<1>7. IInv' /\ V!SetCoin(o, ViewState.coins[o])
  BY <1>2, <1>3, <1>4, <1>5, <1>6, OneCoin, ZenonT(30)
<1> QED  BY <1>7, SameCoin

-----------------------------------------------------------------------------
(* Operations on nullifiers *)

\* A step that only touches nullifiers and keeps what pcoinsTip shows.
LEMMA NullifiersStep ==
    ASSUME IInv, NEW T \in [Nullifier -> Flag], NEW W \in [Nullifier -> Flag],
           tip' = WithNullifiers(tip, T), view' = WithNullifiers(view, W), UNCHANGED db,
           \A x \in Nullifier : /\ FlagGood(x \in db.nullifiers, T[x], W[x])
                                /\ Entered(T[x], x \in db.nullifiers)
                                     <=> Entered(tip.nullifiers[x], x \in db.nullifiers)
    PROVE  /\ IInv'
           /\ DBState' = DBState /\ TipState' = TipState
           /\ ViewState' = [coins |-> ViewState.coins,
                            nullifiers |-> {x \in Nullifier : Entered(W[x], x \in TipState.nullifiers)},
                            anchors |-> ViewState.anchors, best |-> ViewState.best]
<1>1. /\ tip'.nullifiers = T /\ tip'.coins = tip.coins
      /\ tip'.anchors = tip.anchors /\ tip'.hashSaplingAnchor = tip.hashSaplingAnchor
      /\ view'.nullifiers = W /\ view'.coins = view.coins
      /\ view'.anchors = view.anchors /\ view'.hashSaplingAnchor = view.hashSaplingAnchor
  BY DEF WithNullifiers
<1>2. tip' \in Cache /\ view' \in Cache
  BY SetField DEF IInv, Typed
<1>3. DBState' = DBState /\ DBState.nullifiers = db.nullifiers
  BY DEF DBState, DBAnchors, DBBestAnchor
<1>4. TipState' = TipState
  <2>1. Above(tip', DBState).nullifiers = Above(tip, DBState).nullifiers
    BY <1>1, <1>3 DEF Above, FlagAt, Entered
  <2>2. Above(tip', DBState) = Above(tip, DBState)
    BY <1>1, <2>1, ZenonT(30) DEF Above
  <2> QED  BY <1>3, <2>2 DEF TipState
<1>5. ViewState' = [coins |-> ViewState.coins,
                    nullifiers |-> {x \in Nullifier : Entered(W[x], x \in TipState.nullifiers)},
                    anchors |-> ViewState.anchors, best |-> ViewState.best]
  <2>1. ViewState' = Above(view', TipState)
    BY <1>4 DEF ViewState
  <2>2. Above(view', TipState).nullifiers = {x \in Nullifier : Entered(W[x], x \in TipState.nullifiers)}
    BY <1>1, SMTT(60) DEF FlagAt, Entered, Above
  <2>3. /\ Above(view', TipState).coins = ViewState.coins
        /\ Above(view', TipState).anchors = ViewState.anchors
        /\ Above(view', TipState).best = ViewState.best
    BY <1>1, SMTT(60) DEF Above, ViewState
  <2> QED  BY <2>1, <2>2, <2>3, ZenonT(30) DEF Above
<1>6. ViewState'.anchors = ViewState.anchors /\ ViewState'.best = ViewState.best
  BY <1>5, SMTT(60)
<1>7. CoinsGood' /\ NullifiersGood' /\ AnchorsGood' /\ Typed'
  BY <1>1, <1>2 DEF IInv, Typed, CoinsGood, NullifiersGood, AnchorsGood, DBAnchors
<1>8. AllChained'
  BY <1>3, <1>4, <1>6 DEF IInv, AllChained, StateChained
<1> QED  BY <1>3, <1>4, <1>5, <1>7, <1>8 DEF IInv

\* What is shown of nullifiers and anchors, key by key.
LEMMA ViewFlags ==
    /\ TipState.nullifiers = {x \in Nullifier : Entered(tip.nullifiers[x], x \in db.nullifiers)}
    /\ ViewState.nullifiers = {x \in Nullifier : Entered(view.nullifiers[x], x \in TipState.nullifiers)}
    /\ TipState.anchors = {x \in Root : Entered(tip.anchors[x], x \in DBAnchors(db))}
    /\ ViewState.anchors = {x \in Root : Entered(view.anchors[x], x \in TipState.anchors)}
    /\ TipState.best = TipBest /\ ViewState.best = GetBestAnchor
BY ZenonT(30) DEF TipState, ViewState, DBState, Above, FlagAt, Entered, TipBest, GetBestAnchor

\* The flag of a nullifier is set in the view.
LEMMA SetNullifierStep ==
    ASSUME IInv, NEW n \in Nullifier, NEW spent \in BOOLEAN, SetNullifiers(n, spent)
    PROVE  IInv' /\ V!SetNullifier(n, spent)
<1> DEFINE e == [entered |-> spent, dirty |-> TRUE]
           W == [view.nullifiers EXCEPT ![n] = e]
<1>1. e \in Flag /\ tip.nullifiers \in [Nullifier -> Flag] /\ view.nullifiers \in [Nullifier -> Flag]
  BY Entries, ZenonT(30) DEF IInv, Typed, Cache, Flag
<1>2. W \in [Nullifier -> Flag] /\ W[n] = e /\ \A x \in Nullifier \ {n} : W[x] = view.nullifiers[x]
  BY <1>1
<1>3. tip' = WithNullifiers(tip, tip.nullifiers) /\ view' = WithNullifiers(view, W) /\ UNCHANGED db
  BY Same DEF SetNullifiers, SetNullifier, IInv, Typed
<1>4. \A x \in Nullifier : FlagGood(x \in db.nullifiers, tip.nullifiers[x], W[x])
  <2>1. FlagGood(n \in db.nullifiers, tip.nullifiers[n], view.nullifiers[n])
    BY DEF IInv, NullifiersGood
  <2>2. FlagGood(n \in db.nullifiers, tip.nullifiers[n], e)
    BY <2>1, Entries, ZenonT(30) DEF FlagGood, FlagFits, Flag
  <2> HIDE DEF W, e
  <2> QED  BY <1>2, <2>2 DEF IInv, NullifiersGood
<1> HIDE DEF W
<1>5. /\ IInv'
      /\ DBState' = DBState /\ TipState' = TipState
      /\ ViewState' = [coins |-> ViewState.coins,
                       nullifiers |-> {x \in Nullifier : Entered(W[x], x \in TipState.nullifiers)},
                       anchors |-> ViewState.anchors, best |-> ViewState.best]
  BY <1>1, <1>2, <1>3, <1>4, NullifiersStep
<1>6. {x \in Nullifier : Entered(W[x], x \in TipState.nullifiers)}
        = IF spent THEN ViewState.nullifiers \cup {n} ELSE ViewState.nullifiers \ {n}
  <2>1. e # Absent /\ e.entered = spent
    BY Entries, ZenonT(30)
  <2>2. Entered(W[n], n \in TipState.nullifiers) <=> spent
    BY <1>2, <2>1 DEF Entered
  <2>3. \A x \in Nullifier \ {n} : Entered(W[x], x \in TipState.nullifiers) <=> x \in ViewState.nullifiers
    BY <1>2, ViewFlags
  <2>4. ViewState.nullifiers \subseteq Nullifier
    BY ViewFlags
  <2> HIDE DEF e
  <2> QED  BY <2>2, <2>3, <2>4
<1> QED  BY <1>5, <1>6 DEF V!SetNullifier

\* A nullifier that was read is cached at both levels.
LEMMA ReadNullifierStep ==
    ASSUME IInv, NEW n \in Nullifier, ReadNullifier(n)
    PROVE  IInv' /\ UNCHANGED V!vars
<1> DEFINE b == n \in db.nullifiers
           t == IF tip.nullifiers[n] = Absent THEN [entered |-> b, dirty |-> FALSE] ELSE tip.nullifiers[n]
           v == [entered |-> t.entered, dirty |-> FALSE]
           T == [tip.nullifiers EXCEPT ![n] = t]
           W == [view.nullifiers EXCEPT ![n] = v]
<1>1. tip.nullifiers \in [Nullifier -> Flag] /\ view.nullifiers \in [Nullifier -> Flag]
  BY DEF IInv, Typed, Cache, Flag
<1>2. /\ t \in FlagEntry /\ v \in FlagEntry
      /\ FlagGood(b, t, v) /\ (Entered(t, b) <=> Entered(tip.nullifiers[n], b))
      /\ v.entered <=> Entered(tip.nullifiers[n], b)
  <2>1. FlagGood(b, tip.nullifiers[n], Absent)
    BY DEF IInv, NullifiersGood, ReadNullifier
  <2> QED  BY <1>1, <2>1, Entries, ZenonT(30) DEF FlagGood, FlagFits, Entered, Flag
<1>3. TipNullifiers(n) = T /\ TipNullifiers(n)[n] = t
  BY <1>1, ZenonT(30) DEF TipNullifiers, GetNullifier
<1>4. tip' = WithNullifiers(tip, T) /\ view' = WithNullifiers(view, W) /\ UNCHANGED db
  BY <1>1, <1>3, ZenonT(30) DEF ReadNullifier, GetNullifier
<1>5. /\ T \in [Nullifier -> Flag] /\ T[n] = t /\ \A x \in Nullifier \ {n} : T[x] = tip.nullifiers[x]
      /\ W \in [Nullifier -> Flag] /\ W[n] = v /\ \A x \in Nullifier \ {n} : W[x] = view.nullifiers[x]
  BY <1>1, <1>2 DEF Flag
<1> HIDE DEF t, v, T, W
<1>6. \A x \in Nullifier : /\ FlagGood(x \in db.nullifiers, T[x], W[x])
                           /\ Entered(T[x], x \in db.nullifiers)
                                <=> Entered(tip.nullifiers[x], x \in db.nullifiers)
  <2>1. ASSUME NEW x \in Nullifier, x # n
        PROVE  FlagGood(x \in db.nullifiers, T[x], W[x]) /\ T[x] = tip.nullifiers[x]
    BY <1>5, <2>1, SMTT(60) DEF IInv, NullifiersGood
  <2> QED  BY <1>2, <1>5, <2>1
<1>7. /\ IInv'
      /\ DBState' = DBState /\ TipState' = TipState
      /\ ViewState' = [coins |-> ViewState.coins,
                       nullifiers |-> {x \in Nullifier : Entered(W[x], x \in TipState.nullifiers)},
                       anchors |-> ViewState.anchors, best |-> ViewState.best]
  BY <1>4, <1>5, <1>6, NullifiersStep
<1>8. \A x \in Nullifier : Entered(W[x], x \in TipState.nullifiers)
                             <=> Entered(view.nullifiers[x], x \in TipState.nullifiers)
  <2>1. n \in TipState.nullifiers <=> Entered(tip.nullifiers[n], b)
    BY ViewFlags, SMTT(60)
  <2>2. v # Absent /\ view.nullifiers[n] = Absent
    BY <1>2, Entries DEF ReadNullifier
  <2>3. Entered(W[n], n \in TipState.nullifiers) <=> Entered(view.nullifiers[n], n \in TipState.nullifiers)
    BY <1>2, <1>5, <2>1, <2>2 DEF Entered
  <2> QED  BY <1>5, <2>3
<1>9. ViewState' = ViewState
  BY <1>7, <1>8, ViewFlags, ZenonT(30) DEF ViewState, Above
<1> QED  BY <1>7, <1>9 DEF V!vars

=============================================================================
