----------------------------- MODULE CoinsCache -----------------------------
(***************************************************************************)
(* The stack of coins views of a node: the database, pcoinsTip above it    *)
(* and, while a block is connected or disconnected, a view above pcoinsTip.*)
(* A read at the top fills the caches below on its way.  When no block is  *)
(* worked on, view is an empty cache; a read of pcoinsTip itself is one of *)
(* a view that is discarded at once.                                       *)
(***************************************************************************)
EXTENDS Coins

CONSTANT Extends   \* pairs <<r, s>> of roots: the tree of r has that of s as a proper prefix

ASSUME ExtendsAssumption ==
    /\ Extends \subseteq Root \X Root
    /\ \A r \in Root : <<r, r>> \notin Extends /\ <<EmptyRoot, r>> \notin Extends
    /\ \A r, s, t \in Root : <<r, s>> \in Extends /\ <<s, t>> \in Extends => <<r, t>> \in Extends

VARIABLES db, tip, view

vars == <<db, tip, view>>

Init ==
    /\ db = [coins |-> [o \in Outpoint |-> NoCoin], nullifiers |-> {}, anchors |-> {}, best |-> Null]
    /\ tip = EmptyCache
    /\ view = EmptyCache

-----------------------------------------------------------------------------
(* What a caller sees at each level *)

CoinAt(m, o, below) == IF m[o] = Absent THEN below ELSE m[o].coin

FlagAt(m, x, below) == IF m[x] = Absent THEN below ELSE m[x].entered

DBState ==
    [coins |-> db.coins, nullifiers |-> db.nullifiers, anchors |-> DBAnchors(db), best |-> DBBestAnchor(db)]

\* The state of cache c above the state s.
Above(c, s) ==
    [coins      |-> [o \in Outpoint |-> CoinAt(c.coins, o, s.coins[o])],
     nullifiers |-> {n \in Nullifier : FlagAt(c.nullifiers, n, n \in s.nullifiers)},
     anchors    |-> {r \in Root : FlagAt(c.anchors, r, r \in s.anchors)},
     best       |-> IF c.hashSaplingAnchor = Null THEN s.best ELSE c.hashSaplingAnchor]

TipState == Above(tip, DBState)

ViewState == Above(view, TipState)

-----------------------------------------------------------------------------
(* Reads through the stack *)

TipFetch(o) == FetchCoin(tip.coins, o, DBCoin(db.coins, o))

\* FetchCoin at the top asks pcoinsTip only when it has no entry itself.
TipAsked(o) == IF view.coins[o] = Absent THEN TipFetch(o) ELSE tip.coins

Read(o) ==
    /\ tip' = WithCoins(tip, TipAsked(o))
    /\ view' = WithCoins(view, FetchCoin(view.coins, o, CachedCoin(TipAsked(o), o)))
    /\ UNCHANGED db

TipNullifiers(n) == GetNullifier(tip.nullifiers, n, n \in db.nullifiers)

ReadNullifier(n) ==
    /\ view.nullifiers[n] = Absent
    /\ tip' = WithNullifiers(tip, TipNullifiers(n))
    /\ view' = WithNullifiers(view, GetNullifier(view.nullifiers, n, TipNullifiers(n)[n].entered))
    /\ UNCHANGED db

TipAnchors(r) ==
    IF view.anchors[r] = Absent THEN GetSaplingAnchorAt(tip.anchors, r, r \in DBAnchors(db)) ELSE tip.anchors

ViewAnchors(r) ==
    GetSaplingAnchorAt(view.anchors, r, TipAnchors(r)[r] # Absent /\ TipAnchors(r)[r].entered)

ReadAnchor(r) ==
    /\ tip' = WithAnchors(tip, TipAnchors(r), tip.hashSaplingAnchor)
    /\ view' = WithAnchors(view, ViewAnchors(r), view.hashSaplingAnchor)
    /\ UNCHANGED db

\* GetBestAnchor at the top, and what it leaves in pcoinsTip.
TipBest == IF tip.hashSaplingAnchor = Null THEN DBBestAnchor(db) ELSE tip.hashSaplingAnchor

GetBestAnchor == IF view.hashSaplingAnchor = Null THEN TipBest ELSE view.hashSaplingAnchor

TipBestAsked == IF view.hashSaplingAnchor = Null THEN TipBest ELSE tip.hashSaplingAnchor

-----------------------------------------------------------------------------
(* Changes at the top *)

\* AddCoins of a new transaction: the caller knows that the coin does not exist
\* and does not look.
AddNewCoin(o, c) ==
    /\ ViewState.coins[o] = NoCoin
    /\ view' = WithCoins(view, AddCoin(view.coins, o, c, FALSE))
    /\ UNCHANGED <<db, tip>>

\* ApplyTxInUndo, and AddCoins with check set: HaveCoin first, which tells
\* whether it is an overwrite.
RestoreCoin(o, c) ==
    \E fetched \in {FetchCoin(view.coins, o, CachedCoin(TipAsked(o), o))} :
        /\ tip' = WithCoins(tip, TipAsked(o))
        /\ view' = WithCoins(view, AddCoin(fetched, o, c, HaveCoin(fetched, o)))
        /\ UNCHANGED db

Spend(o) ==
    /\ tip' = WithCoins(tip, TipAsked(o))
    /\ view' = WithCoins(view, SpendCoin(view.coins, o, CachedCoin(TipAsked(o), o)))
    /\ UNCHANGED db

SetNullifiers(n, spent) ==
    /\ view' = WithNullifiers(view, SetNullifier(view.nullifiers, n, spent))
    /\ UNCHANGED <<db, tip>>

\* ConnectBlock appends the commitments of the block, if any, to the tree of the
\* best anchor.  With the same root it is GetBestAnchor alone.
PushAnchor(r) ==
    /\ r = GetBestAnchor \/ <<r, GetBestAnchor>> \in Extends
    /\ tip' = WithAnchors(tip, tip.anchors, TipBestAsked)
    /\ view' = WithAnchors(view, IF r = GetBestAnchor THEN view.anchors ELSE EnterAnchor(view.anchors, r), r)
    /\ UNCHANGED db

\* The root the block before left: the largest of the others.  DisconnectBlock takes it from the
\* index of that block and does not look it up; the block pushed it, so it can be read.
IsPrevious(r) ==
    LET others == ViewState.anchors \ {GetBestAnchor}
    IN  r \in others /\ \A s \in others \ {r} : <<r, s>> \in Extends

\* DisconnectBlock: back to the root of the block before, which may be the same.
PopAnchor(r) ==
    /\ \/ /\ r = GetBestAnchor
          /\ tip' = WithAnchors(tip, tip.anchors, TipBestAsked)
          /\ view' = WithAnchors(view, view.anchors, r)
       \/ /\ IsPrevious(r)
          /\ tip' = WithAnchors(tip, TipAnchors(GetBestAnchor), TipBestAsked)
          /\ view' = WithAnchors(view, RemoveAnchor(ViewAnchors(GetBestAnchor), GetBestAnchor), r)
    /\ UNCHANGED db

-----------------------------------------------------------------------------
(* Flushes *)

\* The block is done: view.Flush() into pcoinsTip.  ConnectBlock and
\* DisconnectBlock have both asked for the best anchor by then.
FlushView ==
    /\ view.hashSaplingAnchor # Null
    /\ tip' = BatchWrite(view, tip)
    /\ view' = EmptyCache
    /\ UNCHANGED db

\* The block is refused, or the view was only for reading.
DiscardView ==
    /\ view # EmptyCache
    /\ view' = EmptyCache
    /\ UNCHANGED <<db, tip>>

\* FlushStateToDisk: pcoinsTip->Flush().  One step here; CoinsReplay has the batches that
\* CCoinsViewDB::BatchWrite makes of it, and crashes between them.
FlushTip ==
    /\ view = EmptyCache
    /\ db' = BatchWriteDB(tip, db, Outpoint)
    /\ tip' = Flushed(tip)
    /\ UNCHANGED view

\* AcceptToMemoryPool and LimitMempoolSize give up coins they have read.
UncacheCoin(o) ==
    /\ view = EmptyCache
    /\ tip' = WithCoins(tip, Uncache(tip.coins, o))
    /\ UNCHANGED <<db, view>>

Crash ==
    /\ tip' = EmptyCache /\ view' = EmptyCache
    /\ UNCHANGED db

Next ==
    \/ \E o \in Outpoint : Read(o) \/ Spend(o) \/ UncacheCoin(o)
    \/ \E o \in Outpoint, c \in Coin : AddNewCoin(o, c) \/ RestoreCoin(o, c)
    \/ \E n \in Nullifier : ReadNullifier(n) \/ \E spent \in BOOLEAN : SetNullifiers(n, spent)
    \/ \E r \in Root : ReadAnchor(r) \/ PushAnchor(r) \/ PopAnchor(r)
    \/ FlushView \/ DiscardView \/ FlushTip \/ Crash

Spec == Init /\ [][Next]_vars

-----------------------------------------------------------------------------
(* Properties *)

\* Types, and the flags that occur: an entry that is not DIRTY is FRESH exactly
\* if it is pruned, which pcoinsTip never has, and none is FRESH, DIRTY and pruned.
TypeOK ==
    /\ db \in Database /\ tip \in Cache /\ view \in Cache
    /\ \A m \in {tip.coins, view.coins} : \A o \in Outpoint : m[o] # Absent =>
          IF m[o].dirty THEN m[o].fresh => m[o].coin # NoCoin ELSE m[o].fresh <=> m[o].coin = NoCoin
    /\ \A o \in Outpoint : tip.coins[o] # Absent /\ tip.coins[o].coin = NoCoin => tip.coins[o].dirty

V == INSTANCE CoinsViews WITH durable <- DBState, committed <- TipState, working <- ViewState

\* Each step with the change it makes to what callers see.
Effect ==
    \/ \E o \in Outpoint : \/ (Read(o) \/ UncacheCoin(o)) /\ UNCHANGED V!vars
                           \/ Spend(o) /\ V!SetCoin(o, NoCoin)
    \/ \E o \in Outpoint, c \in Coin : (AddNewCoin(o, c) \/ RestoreCoin(o, c)) /\ V!SetCoin(o, c)
    \/ \E n \in Nullifier : \/ ReadNullifier(n) /\ UNCHANGED V!vars
                            \/ \E spent \in BOOLEAN : SetNullifiers(n, spent) /\ V!SetNullifier(n, spent)
    \/ \E r \in Root : \/ ReadAnchor(r) /\ UNCHANGED V!vars
                       \/ PushAnchor(r) /\ V!PushAnchor(r)
                       \/ PopAnchor(r) /\ V!PopAnchor(r)
    \/ FlushView /\ V!Flush
    \/ DiscardView /\ V!Discard
    \/ FlushTip /\ V!Persist
    \/ Crash /\ V!Crash

\* Every operation has the effect its name says on what callers see, and no
\* other, through both caches and whatever they held before: reads change
\* nothing, an added coin is the one that is read, a spent one is gone, a block
\* is taken over or dropped as a whole, and a flush makes all of pcoinsTip durable.
EffectExact == [][Effect]_vars

\* The flags mean what coins.h says of them: a coin that is not DIRTY is the one
\* of the parent, and a FRESH one is not in the parent, or pruned there.  So
\* BatchWrite never throws its logic_error.
FlagsTrue ==
    /\ \A o \in Outpoint :
        /\ tip.coins[o] # Absent => /\ ~tip.coins[o].dirty => tip.coins[o].coin = db.coins[o]
                                    /\ tip.coins[o].fresh => db.coins[o] = NoCoin
        /\ view.coins[o] # Absent => /\ ~view.coins[o].dirty => view.coins[o].coin = TipState.coins[o]
                                     /\ view.coins[o].fresh => TipState.coins[o] = NoCoin
    /\ ~FreshMisapplied(view.coins, tip.coins)

\* The tree of the best anchor can be read at every level, as ConnectBlock, the
\* block assembler, the wallet and PopAnchor assert, and the anchors that are
\* valid for spends are the best one and those it grew from.
BestAnchorReadable ==
    \A s \in {DBState, TipState, ViewState} :
        /\ s.best \in s.anchors
        /\ \A r \in s.anchors \ {s.best} : <<s.best, r>> \in Extends

=============================================================================
