------------------------- MODULE CoinsCacheAnchors --------------------------
(***************************************************************************)
(* The operations on anchors keep the invariant of CoinsCacheEntries, and  *)
(* make the steps of CoinsViews.                                           *)
(***************************************************************************)
EXTENDS CoinsCacheEntries

\* What the view's new anchors W show.
Shown(W) == {x \in Root : Entered(W[x], x \in TipState.anchors)}

\* A step that only touches anchors, keeps what pcoinsTip shows and leaves the
\* best anchor r in the view.
LEMMA AnchorsStep ==
    ASSUME IInv, NEW T \in [Root -> Flag], NEW W \in [Root -> Flag],
           NEW h \in Root \cup {Null}, NEW g \in Root \cup {Null}, NEW r \in Root,
           tip' = WithAnchors(tip, T, h), view' = WithAnchors(view, W, g), UNCHANGED db,
           \A x \in Root : /\ FlagGood(x \in DBAnchors(db), T[x], W[x])
                           /\ Entered(T[x], x \in DBAnchors(db)) <=> Entered(tip.anchors[x], x \in DBAnchors(db)),
           (IF h = Null THEN DBBestAnchor(db) ELSE h) = TipBest,
           (IF g = Null THEN TipBest ELSE g) = r,
           Chained(Shown(W), r)
    PROVE  /\ IInv'
           /\ DBState' = DBState /\ TipState' = TipState
           /\ ViewState' = [coins |-> ViewState.coins, nullifiers |-> ViewState.nullifiers,
                            anchors |-> Shown(W), best |-> r]
<1>1. /\ tip'.anchors = T /\ tip'.hashSaplingAnchor = h
      /\ tip'.coins = tip.coins /\ tip'.nullifiers = tip.nullifiers
      /\ view'.anchors = W /\ view'.hashSaplingAnchor = g
      /\ view'.coins = view.coins /\ view'.nullifiers = view.nullifiers
  BY DEF WithAnchors
<1>2. tip' \in Cache /\ view' \in Cache
  BY SetField DEF IInv, Typed
<1>3. DBState' = DBState /\ DBState.anchors = DBAnchors(db) /\ DBState.best = DBBestAnchor(db)
  BY ZenonT(30) DEF DBState, DBAnchors, DBBestAnchor
<1>4. TipState' = TipState
  <2>0. {x \in Root : Entered(T[x], x \in DBAnchors(db))} = {x \in Root : Entered(tip.anchors[x], x \in DBAnchors(db))}
    BY SMTT(60)
  <2>1. Above(tip', DBState).anchors = Above(tip, DBState).anchors
    <3>1. Above(tip', DBState).anchors = {x \in Root : Entered(T[x], x \in DBAnchors(db))}
      BY <1>1, <1>3, SMTT(60) DEF Above, FlagAt, Entered
    <3>2. Above(tip, DBState).anchors = {x \in Root : Entered(tip.anchors[x], x \in DBAnchors(db))}
      BY <1>3 DEF Above, FlagAt, Entered
    <3> QED  BY <2>0, <3>1, <3>2, SMTT(60)
  <2>2. Above(tip', DBState).best = TipBest /\ Above(tip, DBState).best = TipBest
    BY <1>1, <1>3, ZenonT(30) DEF Above, TipBest
  <2>3. Above(tip', DBState) = Above(tip, DBState)
    BY <1>1, <2>1, <2>2, ZenonT(30) DEF Above
  <2> QED  BY <1>3, <2>3 DEF TipState
<1>5. ViewState' = [coins |-> ViewState.coins, nullifiers |-> ViewState.nullifiers,
                    anchors |-> Shown(W), best |-> r]
  <2>1. ViewState' = Above(view', TipState)
    BY <1>4, SMTT(60) DEF ViewState
  <2>2. Above(view', TipState).anchors = Shown(W)
    BY <1>1 DEF FlagAt, Entered, Above, Shown
  <2>3. Above(view', TipState).best = r
    BY <1>1, ViewFlags, ZenonT(30) DEF Above
  <2>4. Above(view', TipState).coins = ViewState.coins /\ Above(view', TipState).nullifiers = ViewState.nullifiers
    BY <1>1, ZenonT(30) DEF Above, ViewState
  <2> QED  BY <2>1, <2>2, <2>3, <2>4, ZenonT(30) DEF Above
<1>6. CoinsGood' /\ NullifiersGood' /\ AnchorsGood' /\ Typed'
  BY <1>1, <1>2, ZenonT(30) DEF IInv, Typed, CoinsGood, NullifiersGood, AnchorsGood, DBAnchors
<1>7. AllChained'
  BY <1>3, <1>4, <1>5, SMTT(60) DEF IInv, AllChained, StateChained
<1> QED  BY <1>3, <1>4, <1>5, <1>6, <1>7 DEF IInv

\* A look for the anchor r caches it where it is found.
LEMMA AnchorMaps ==
    ASSUME IInv, NEW r \in Root
    PROVE  /\ TipAnchors(r) \in [Root -> Flag] /\ ViewAnchors(r) \in [Root -> Flag]
           /\ \A x \in Root : /\ FlagGood(x \in DBAnchors(db), TipAnchors(r)[x], ViewAnchors(r)[x])
                              /\ Entered(TipAnchors(r)[x], x \in DBAnchors(db))
                                   <=> Entered(tip.anchors[x], x \in DBAnchors(db))
                              /\ Entered(ViewAnchors(r)[x], x \in TipState.anchors)
                                   <=> Entered(view.anchors[x], x \in TipState.anchors)
<1> DEFINE c == [entered |-> TRUE, dirty |-> FALSE]
           b == r \in DBAnchors(db)
           t == IF view.anchors[r] = Absent /\ tip.anchors[r] = Absent /\ b THEN c ELSE tip.anchors[r]
           v == IF view.anchors[r] = Absent /\ t # Absent /\ t.entered THEN c ELSE view.anchors[r]
           T == [tip.anchors EXCEPT ![r] = t]
           W == [view.anchors EXCEPT ![r] = v]
<1>1. tip.anchors \in [Root -> Flag] /\ view.anchors \in [Root -> Flag] /\ c \in FlagEntry
  BY Entries, ZenonT(30) DEF IInv, Typed, Cache, Flag
<1>2. t \in Flag /\ v \in Flag
  BY <1>1 DEF Flag
<1>3. TipAnchors(r) = T
  BY <1>1, ZenonT(30) DEF TipAnchors, GetSaplingAnchorAt
<1>4. /\ T \in [Root -> Flag] /\ T[r] = t /\ \A x \in Root \ {r} : T[x] = tip.anchors[x]
      /\ W \in [Root -> Flag] /\ W[r] = v /\ \A x \in Root \ {r} : W[x] = view.anchors[x]
  BY <1>1, <1>2
<1>5. ViewAnchors(r) = W
  BY <1>1, <1>3, <1>4, ZenonT(30) DEF ViewAnchors, GetSaplingAnchorAt
<1>6. /\ FlagGood(b, t, v) /\ (Entered(t, b) <=> Entered(tip.anchors[r], b))
      /\ Entered(v, Entered(tip.anchors[r], b)) <=> Entered(view.anchors[r], Entered(tip.anchors[r], b))
  <2>1. FlagGood(b, tip.anchors[r], view.anchors[r])
    BY DEF IInv, AnchorsGood
  <2>2. c # Absent /\ c.entered = TRUE /\ c.dirty = FALSE
    BY <1>1, Entries, ZenonT(30)
  <2> HIDE DEF c
  <2> QED  BY <1>1, <2>1, <2>2, Entries, ZenonT(30) DEF FlagGood, FlagFits, Entered, Flag
<1>7. r \in TipState.anchors <=> Entered(tip.anchors[r], b)
  BY ViewFlags
<1>8. Entered(v, r \in TipState.anchors) <=> Entered(view.anchors[r], r \in TipState.anchors)
  <2> HIDE DEF v, t
  <2> QED  BY <1>6, <1>7 DEF Entered
<1> HIDE DEF t, v, T, W
<1>9. \A x \in Root \ {r} : FlagGood(x \in DBAnchors(db), T[x], W[x])
  BY <1>4 DEF IInv, AnchorsGood
<1> QED  BY <1>3, <1>4, <1>5, <1>6, <1>8, <1>9

\* A step that shows the same anchors changes nothing that is seen.
LEMMA ReadAnchorStep ==
    ASSUME IInv, NEW r \in Root, ReadAnchor(r)
    PROVE  IInv' /\ UNCHANGED V!vars
<1>1. Shown(ViewAnchors(r)) = ViewState.anchors
  BY AnchorMaps, ViewFlags DEF Shown
<1>2. GetBestAnchor \in Root /\ Chained(ViewState.anchors, GetBestAnchor)
  BY ViewFlags DEF IInv, AllChained, StateChained, Chained
<1>3. /\ tip.hashSaplingAnchor \in Root \cup {Null} /\ view.hashSaplingAnchor \in Root \cup {Null}
      /\ tip' = WithAnchors(tip, TipAnchors(r), tip.hashSaplingAnchor)
      /\ view' = WithAnchors(view, ViewAnchors(r), view.hashSaplingAnchor)
      /\ UNCHANGED db
  BY DEF ReadAnchor, IInv, Typed, Cache
<1>4. /\ (IF tip.hashSaplingAnchor = Null THEN DBBestAnchor(db) ELSE tip.hashSaplingAnchor) = TipBest
      /\ (IF view.hashSaplingAnchor = Null THEN TipBest ELSE view.hashSaplingAnchor) = GetBestAnchor
  BY SMTT(60) DEF TipBest, GetBestAnchor
<1>5. /\ IInv'
      /\ DBState' = DBState /\ TipState' = TipState
      /\ ViewState' = [coins |-> ViewState.coins, nullifiers |-> ViewState.nullifiers,
                       anchors |-> Shown(ViewAnchors(r)), best |-> GetBestAnchor]
  <2> DEFINE T == TipAnchors(r)
             W == ViewAnchors(r)
             h == tip.hashSaplingAnchor
             g == view.hashSaplingAnchor
             best == GetBestAnchor
  <2>1. /\ T \in [Root -> Flag] /\ W \in [Root -> Flag]
        /\ \A x \in Root : /\ FlagGood(x \in DBAnchors(db), T[x], W[x])
                           /\ Entered(T[x], x \in DBAnchors(db)) <=> Entered(tip.anchors[x], x \in DBAnchors(db))
    BY AnchorMaps, ZenonT(30)
  <2>2. Chained(Shown(W), best)
    BY <1>1, <1>2
  <2>3. /\ h \in Root \cup {Null} /\ g \in Root \cup {Null} /\ best \in Root
        /\ tip' = WithAnchors(tip, T, h) /\ view' = WithAnchors(view, W, g) /\ UNCHANGED db
        /\ (IF h = Null THEN DBBestAnchor(db) ELSE h) = TipBest
        /\ (IF g = Null THEN TipBest ELSE g) = best
    BY <1>2, <1>3, <1>4
  <2> SUFFICES /\ IInv' /\ DBState' = DBState /\ TipState' = TipState
               /\ ViewState' = [coins |-> ViewState.coins, nullifiers |-> ViewState.nullifiers,
                                anchors |-> Shown(W), best |-> best]
    OBVIOUS
  <2> HIDE DEF T, W, best, h, g
  <2> QED  BY <2>1, <2>2, <2>3, AnchorsStep
<1>6. ViewState' = ViewState
  BY <1>1, <1>5, ViewFlags, ZenonT(30) DEF ViewState, Above
<1> QED  BY <1>5, <1>6, SMTT(60) DEF V!vars

\* The best anchor of a chained state is one of its anchors, and asking for it
\* caches it in pcoinsTip without a change to what is seen.
LEMMA BestAsked ==
    ASSUME IInv
    PROVE  /\ GetBestAnchor \in Root /\ TipBest \in Root /\ TipBestAsked \in Root \cup {Null}
           /\ (IF TipBestAsked = Null THEN DBBestAnchor(db) ELSE TipBestAsked) = TipBest
           /\ Chained(ViewState.anchors, GetBestAnchor)
           /\ ViewState.anchors \subseteq Root
           /\ tip.anchors \in [Root -> Flag] /\ view.anchors \in [Root -> Flag]
           /\ \A x \in Root : FlagGood(x \in DBAnchors(db), tip.anchors[x], view.anchors[x])
<1>1. /\ Chained(ViewState.anchors, ViewState.best) /\ Chained(TipState.anchors, TipState.best)
      /\ ViewState.anchors \subseteq Root /\ TipState.anchors \subseteq Root
  BY ViewFlags DEF IInv, AllChained, StateChained
<1>2. GetBestAnchor \in Root /\ TipBest \in Root
  BY <1>1, ViewFlags DEF Chained
<1>3. tip.hashSaplingAnchor \in Root \cup {Null}
  BY DEF IInv, Typed, Cache
<1>4. TipBestAsked \in Root \cup {Null} /\ (IF TipBestAsked = Null THEN DBBestAnchor(db) ELSE TipBestAsked) = TipBest
  BY <1>2, <1>3, CoinsAssumption DEF TipBestAsked, TipBest
<1> QED  BY <1>1, <1>2, <1>4, ViewFlags, ZenonT(30) DEF IInv, Typed, Cache, Flag, AnchorsGood

\* The root stays the same: only the best anchor is looked up.
LEMMA SameAnchorStep ==
    ASSUME IInv, tip' = WithAnchors(tip, tip.anchors, TipBestAsked),
           view' = WithAnchors(view, view.anchors, GetBestAnchor), UNCHANGED db
    PROVE  IInv' /\ UNCHANGED V!vars
<1> DEFINE h == TipBestAsked
           g == GetBestAnchor
<1>1. Shown(view.anchors) = ViewState.anchors
  BY ViewFlags DEF Shown
<1>2. g # Null
  BY BestAsked, CoinsAssumption
<1>3. /\ IInv'
      /\ DBState' = DBState /\ TipState' = TipState
      /\ ViewState' = [coins |-> ViewState.coins, nullifiers |-> ViewState.nullifiers,
                       anchors |-> Shown(view.anchors), best |-> g]
  <2>1. /\ h \in Root \cup {Null} /\ g \in Root
        /\ tip' = WithAnchors(tip, tip.anchors, h) /\ view' = WithAnchors(view, view.anchors, g)
        /\ (IF h = Null THEN DBBestAnchor(db) ELSE h) = TipBest
        /\ Chained(Shown(view.anchors), g)
        /\ tip.anchors \in [Root -> Flag] /\ view.anchors \in [Root -> Flag]
        /\ \A x \in Root : FlagGood(x \in DBAnchors(db), tip.anchors[x], view.anchors[x])
    BY <1>1, BestAsked
  <2> HIDE DEF h, g
  <2> QED  BY <1>2, <2>1, AnchorsStep, ZenonT(30)
<1>4. ViewState' = ViewState
  BY <1>1, <1>3, ViewFlags, ZenonT(30) DEF ViewState, Above
<1> QED  BY <1>3, <1>4 DEF V!vars

\* The new root extends all the others.
LEMMA PushStep ==
    ASSUME IInv, NEW r \in Root, PushAnchor(r)
    PROVE  IInv' /\ V!PushAnchor(r)
<1>1. ViewState.best = GetBestAnchor /\ GetBestAnchor \in ViewState.anchors
  BY BestAsked, ViewFlags DEF Chained
<1>2. CASE r = GetBestAnchor
  <2>1. IInv' /\ UNCHANGED V!vars
    BY <1>2, SameAnchorStep DEF PushAnchor
  <2>2. ViewState = [coins |-> ViewState.coins, nullifiers |-> ViewState.nullifiers,
                     anchors |-> ViewState.anchors \cup {r}, best |-> r]
    <3>1. ViewState.anchors \cup {r} = ViewState.anchors
      BY <1>1, <1>2
    <3> QED  BY <1>1, <1>2, <3>1, ZenonT(30) DEF ViewState, Above
  <2> QED  BY <2>1, <2>2 DEF V!vars, V!PushAnchor
<1>3. CASE r # GetBestAnchor
  <2> DEFINE h == TipBestAsked
             e == [entered |-> TRUE, dirty |-> TRUE]
             W == [view.anchors EXCEPT ![r] = e]
  <2>1. e \in FlagEntry /\ e # Absent /\ e.entered = TRUE /\ e.dirty = TRUE
    BY Entries, ZenonT(30)
  <2>2. W \in [Root -> Flag] /\ W[r] = e /\ \A x \in Root \ {r} : W[x] = view.anchors[x]
    BY <2>1, BestAsked DEF Flag
  <2>3. tip' = WithAnchors(tip, tip.anchors, h) /\ view' = WithAnchors(view, W, r) /\ UNCHANGED db
    BY <1>3, SMTT(60) DEF PushAnchor, EnterAnchor
  <2> HIDE DEF h, e, W
  <2>4. \A x \in Root : FlagGood(x \in DBAnchors(db), tip.anchors[x], W[x])
    <3>1. FlagGood(r \in DBAnchors(db), tip.anchors[r], e)
      BY <2>1, BestAsked, SMTT(60) DEF FlagGood, FlagFits, Flag
    <3> QED  BY <2>2, <3>1, BestAsked, SMTT(60)
  <2>5. Shown(W) = ViewState.anchors \cup {r}
    <3>1. Entered(W[r], r \in TipState.anchors)
      BY <2>1, <2>2 DEF Entered
    <3>2. \A x \in Root \ {r} : Entered(W[x], x \in TipState.anchors) <=> x \in ViewState.anchors
      BY <2>2, ViewFlags
    <3> QED  BY <3>1, <3>2, BestAsked DEF Shown
  <2>6. Chained(Shown(W), r)
    <3>1. <<r, GetBestAnchor>> \in Extends
      BY <1>3 DEF PushAnchor
    <3>2. Chained(ViewState.anchors, GetBestAnchor) /\ ViewState.anchors \subseteq Root /\ GetBestAnchor \in Root
      BY BestAsked
    <3>3. \A x \in ViewState.anchors : <<r, x>> \in Extends
      BY <3>1, <3>2, ExtendsAssumption, ZenonT(30) DEF Chained
    <3> QED  BY <2>5, <3>2, <3>3 DEF Chained
  <2>7. /\ h \in Root \cup {Null} /\ (IF h = Null THEN DBBestAnchor(db) ELSE h) = TipBest
        /\ (IF r = Null THEN TipBest ELSE r) = r
        /\ tip.anchors \in [Root -> Flag]
    BY BestAsked, CoinsAssumption DEF h
  <2>8. /\ IInv'
        /\ DBState' = DBState /\ TipState' = TipState
        /\ ViewState' = [coins |-> ViewState.coins, nullifiers |-> ViewState.nullifiers,
                         anchors |-> Shown(W), best |-> r]
    BY <2>2, <2>3, <2>4, <2>6, <2>7, AnchorsStep, ZenonT(90)
  <2> QED  BY <2>5, <2>8, ZenonT(30) DEF V!PushAnchor
<1> QED  BY <1>2, <1>3, SMTT(60)

\* The root before is the largest that is left, and the empty tree is left.
LEMMA PopStep ==
    ASSUME IInv, NEW r \in Root, PopAnchor(r)
    PROVE  IInv' /\ V!PopAnchor(r)
<1>1. ViewState.best = GetBestAnchor /\ GetBestAnchor \in ViewState.anchors
  BY BestAsked, ViewFlags DEF Chained
<1>2. CASE /\ r = GetBestAnchor
           /\ tip' = WithAnchors(tip, tip.anchors, TipBestAsked)
           /\ view' = WithAnchors(view, view.anchors, r)
  <2>1. IInv' /\ UNCHANGED V!vars
    BY <1>2, SameAnchorStep DEF PopAnchor
  <2>2. ViewState = [coins |-> ViewState.coins, nullifiers |-> ViewState.nullifiers,
                     anchors |-> ViewState.anchors, best |-> r]
    BY <1>1, <1>2, ZenonT(30) DEF ViewState, Above
  <2> QED  BY <1>1, <1>2, <2>1, <2>2 DEF V!vars, V!PopAnchor
<1>3. CASE /\ IsPrevious(r)
           /\ tip' = WithAnchors(tip, TipAnchors(GetBestAnchor), TipBestAsked)
           /\ view' = WithAnchors(view, RemoveAnchor(ViewAnchors(GetBestAnchor), GetBestAnchor), r)
  <2> DEFINE h == TipBestAsked
             b == GetBestAnchor
             e == [entered |-> FALSE, dirty |-> TRUE]
             T == TipAnchors(b)
             U == ViewAnchors(b)
             W == [U EXCEPT ![b] = e]
  <2>1. e \in FlagEntry /\ e # Absent /\ e.entered = FALSE /\ e.dirty = TRUE
    BY Entries, ZenonT(30)
  <2>2. /\ b \in Root /\ T \in [Root -> Flag] /\ U \in [Root -> Flag]
        /\ \A x \in Root : /\ FlagGood(x \in DBAnchors(db), T[x], U[x])
                           /\ Entered(T[x], x \in DBAnchors(db)) <=> Entered(tip.anchors[x], x \in DBAnchors(db))
                           /\ Entered(U[x], x \in TipState.anchors) <=> x \in ViewState.anchors
    BY AnchorMaps, BestAsked, ViewFlags, ZenonT(30)
  <2>3. /\ tip' = WithAnchors(tip, T, h) /\ view' = WithAnchors(view, W, r) /\ UNCHANGED db
        /\ IsPrevious(r) /\ b = GetBestAnchor
    BY <1>3 DEF PopAnchor, RemoveAnchor
  <2> HIDE DEF h, b, e, T, U
  <2>4. W \in [Root -> Flag] /\ W[b] = e /\ \A x \in Root \ {b} : W[x] = U[x]
    BY <2>1, <2>2 DEF Flag
  <2> HIDE DEF W
  <2>5. \A x \in Root : FlagGood(x \in DBAnchors(db), T[x], W[x])
    <3>1. FlagGood(b \in DBAnchors(db), T[b], e)
      <4>1. FlagGood(b \in DBAnchors(db), T[b], U[b])
        BY <2>2
      <4> QED  BY <2>1, <4>1 DEF FlagGood, FlagFits, Flag
    <3> QED  BY <2>2, <2>4, <3>1
  <2>6. Shown(W) = ViewState.anchors \ {b}
    <3>1. ~Entered(W[b], b \in TipState.anchors)
      BY <2>1, <2>4, SMTT(60) DEF Entered
    <3>2. \A x \in Root \ {b} : Entered(W[x], x \in TipState.anchors) <=> x \in ViewState.anchors
      BY <2>2, <2>4
    <3> QED  BY <3>1, <3>2, BestAsked, ZenonT(30) DEF Shown
  <2>7. Chained(Shown(W), r) /\ r # b
    <3>1. Chained(ViewState.anchors, b) /\ ViewState.anchors \subseteq Root
      BY <2>3, BestAsked
    <3>2. r \in ViewState.anchors \ {b} /\ \A x \in (ViewState.anchors \ {b}) \ {r} : <<r, x>> \in Extends
      BY <2>3 DEF IsPrevious
    <3>3. b # EmptyRoot
      BY <3>1, <3>2, ExtendsAssumption, ZenonT(30) DEF Chained
    <3> QED  BY <2>6, <3>1, <3>2, <3>3, SMTT(60) DEF Chained
  <2>8. h \in Root \cup {Null} /\ (IF h = Null THEN DBBestAnchor(db) ELSE h) = TipBest /\ r # Null
    BY BestAsked, CoinsAssumption DEF h
  <2>9. /\ IInv'
        /\ DBState' = DBState /\ TipState' = TipState
        /\ ViewState' = [coins |-> ViewState.coins, nullifiers |-> ViewState.nullifiers,
                         anchors |-> Shown(W), best |-> r]
    BY <2>2, <2>3, <2>4, <2>5, <2>7, <2>8, AnchorsStep, ZenonT(90)
  <2> QED  BY <1>1, <2>3, <2>6, <2>7, <2>9, ZenonT(30) DEF V!PopAnchor
<1> QED  BY <1>2, <1>3 DEF PopAnchor

=============================================================================
