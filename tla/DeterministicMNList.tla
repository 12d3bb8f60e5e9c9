------------------------ MODULE DeterministicMNList ------------------------
(***************************************************************************)
(* CDeterministicMNList (evo/deterministicmns.h, .cpp): the masternodes by *)
(* proTxHash, by internal id, and the reference-counted owners of unique   *)
(* properties (collateral, service address, owner and operator keys).      *)
(* A list also carries err: "ok", or how the call that was using it ended: *)
(* "reject" (a check returned false), "throw" (an exception) or "assert"   *)
(* (a failed assertion).  Fields that no decision reads (scripts, voting   *)
(* key, rewards, revocation reason) are left out; so is the PoSe penalty,  *)
(* which nothing in the program raises.                                    *)
(***************************************************************************)
EXTENDS Integers

CONSTANTS
    MN,         \* proTxHash of every registration
    Rank,       \* the order of the hashes
    Outpoint,   \* collaterals
    Service,    \* service addresses
    KeyID,      \* owner and operator keys, which share one name space
    Null,       \* CKeyID(), CService(), no masternode
    MinConf     \* MasternodeCollateralMinConf()

ASSUME RankAssumption ==
    /\ Rank \in [MN -> Nat]
    /\ \A g, h \in MN : Rank[g] = Rank[h] => g = h

ASSUME PropertyAssumption ==
    /\ Outpoint \cap Service = {} /\ Outpoint \cap KeyID = {} /\ Service \cap KeyID = {}
    /\ Null \notin MN \cup Outpoint \cup Service \cup KeyID

ASSUME MinConfAssumption == MinConf \in Nat

Property == Outpoint \cup Service \cup KeyID

\* CDeterministicMNState, with the collateral and internalId of CDeterministicMN.
DMN == [internalId : Nat, collateral : Outpoint,
        nRegisteredHeight : Nat, nLastPaidHeight : Nat,
        nPoSeRevivedHeight : Nat \cup {-1}, nPoSeBanHeight : Nat \cup {-1},
        confirmed : Nat \cup {-1},
        keyIDOwner : KeyID, keyIDOperator : KeyID \cup {Null}, addr : Service \cup {Null}]

-----------------------------------------------------------------------------
(* immer::map                                                              *)

Put(f, k, v) == [x \in DOMAIN f \cup {k} |-> IF x = k THEN v ELSE f[x]]

Del(f, k) == [x \in DOMAIN f \ {k} |-> f[x]]

EmptyMap == [x \in {} |-> Null]

EmptyList == [err |-> "ok", nTotalRegisteredCount |-> 0,
              mnMap |-> EmptyMap, mnInternalIdMap |-> EmptyMap, mnUniquePropertyMap |-> EmptyMap]

Failed(l) == l.err # "ok"

Fail(l, how) == [l EXCEPT !.err = how]

HasMN(l, h) == h \in DOMAIN l.mnMap

IsMNPoSeBanned(l, h) == l.mnMap[h].nPoSeBanHeight # -1

ValidMNs(l) == {h \in DOMAIN l.mnMap : ~IsMNPoSeBanned(l, h)}

-----------------------------------------------------------------------------
(* Unique properties.                                                      *)

HasUniqueProperty(l, v) == v \in DOMAIN l.mnUniquePropertyMap

\* GetUniquePropertyMN(v), when there is one.
UniquePropertyMN(l, v) == l.mnUniquePropertyMap[v].mn

OwnedByOther(l, h, v) == HasUniqueProperty(l, v) /\ UniquePropertyMN(l, v) # h

RefCount(l, v) == IF HasUniqueProperty(l, v) THEN l.mnUniquePropertyMap[v].count ELSE 0

AddUniqueProperty(l, h, v) ==
    IF Failed(l) THEN l
    ELSE IF v = Null \/ OwnedByOther(l, h, v) THEN Fail(l, "assert")
    ELSE [l EXCEPT !.mnUniquePropertyMap = Put(@, v, [mn |-> h, count |-> RefCount(l, v) + 1])]

DeleteUniqueProperty(l, h, v) ==
    IF Failed(l) THEN l
    ELSE IF v = Null \/ ~HasUniqueProperty(l, v) \/ OwnedByOther(l, h, v) THEN Fail(l, "assert")
    ELSE IF RefCount(l, v) = 1
    THEN [l EXCEPT !.mnUniquePropertyMap = Del(@, v)]
    ELSE [l EXCEPT !.mnUniquePropertyMap = Put(@, v, [mn |-> h, count |-> RefCount(l, v) - 1])]

UpdateUniqueProperty(l, h, old, new) ==
    IF old = new THEN l
    ELSE LET d == IF old = Null THEN l ELSE DeleteUniqueProperty(l, h, old)
         IN  IF new = Null THEN d ELSE AddUniqueProperty(d, h, new)

-----------------------------------------------------------------------------
(* AddMN, UpdateMN, RemoveMN.                                              *)

\* l with other masternodes, ids and count.
WithMNs(l, mns, ids, total) ==
    [err |-> l.err, nTotalRegisteredCount |-> total, mnMap |-> mns,
     mnInternalIdMap |-> ids, mnUniquePropertyMap |-> l.mnUniquePropertyMap]

AddMN(l, h, dmn) ==
    IF Failed(l) THEN l
    ELSE IF \/ HasMN(l, h)
            \/ dmn.internalId \in DOMAIN l.mnInternalIdMap
            \/ HasUniqueProperty(l, dmn.addr)
            \/ HasUniqueProperty(l, dmn.keyIDOwner)
            \/ HasUniqueProperty(l, dmn.keyIDOperator)
    THEN Fail(l, "throw")
    ELSE LET total == IF dmn.internalId + 1 > l.nTotalRegisteredCount
                      THEN dmn.internalId + 1 ELSE l.nTotalRegisteredCount
             l0 == WithMNs(l, Put(l.mnMap, h, dmn), Put(l.mnInternalIdMap, dmn.internalId, h), total)
             l1 == AddUniqueProperty(l0, h, dmn.collateral)
             l2 == IF dmn.addr = Null THEN l1 ELSE AddUniqueProperty(l1, h, dmn.addr)
             l3 == AddUniqueProperty(l2, h, dmn.keyIDOwner)
         IN  AddUniqueProperty(l3, h, dmn.keyIDOperator)

\* Mutant: a new operator key is not recorded.
UpdateMNKeepsKey(l, h, new) ==
    IF Failed(l) THEN l
    ELSE IF ~HasMN(l, h) \/ OwnedByOther(l, h, l.mnMap[h].addr) THEN Fail(l, "throw")
    ELSE UpdateUniqueProperty([l EXCEPT !.mnMap = Put(@, h, new)], h, l.mnMap[h].addr, new.addr)

UpdateMN(l, h, new) ==
    IF Failed(l) THEN l
    ELSE IF ~HasMN(l, h) \/ OwnedByOther(l, h, l.mnMap[h].addr) THEN Fail(l, "throw")
    ELSE LET old == l.mnMap[h]
             l0 == [l EXCEPT !.mnMap = Put(@, h, new)]
             l1 == UpdateUniqueProperty(l0, h, old.addr, new.addr)
             l2 == UpdateUniqueProperty(l1, h, old.keyIDOwner, new.keyIDOwner)
         IN  UpdateUniqueProperty(l2, h, old.keyIDOperator, new.keyIDOperator)

RemoveMN(l, h) ==
    IF Failed(l) THEN l
    ELSE IF ~HasMN(l, h) THEN Fail(l, "throw")
    ELSE LET dmn == l.mnMap[h]
             l1 == DeleteUniqueProperty(l, h, dmn.collateral)
             l2 == IF dmn.addr = Null THEN l1 ELSE DeleteUniqueProperty(l1, h, dmn.addr)
             l3 == DeleteUniqueProperty(l2, h, dmn.keyIDOwner)
             l4 == DeleteUniqueProperty(l3, h, dmn.keyIDOperator)
         IN  IF Failed(l4) THEN l4
             ELSE WithMNs(l4, Del(l4.mnMap, h), Del(l4.mnInternalIdMap, dmn.internalId),
                          l4.nTotalRegisteredCount)

-----------------------------------------------------------------------------
(* Payments.                                                               *)

CompareByLastPaidGetHeight(dmn) ==
    IF dmn.nPoSeRevivedHeight # -1 /\ dmn.nPoSeRevivedHeight > dmn.nLastPaidHeight
    THEN dmn.nPoSeRevivedHeight
    ELSE IF dmn.nLastPaidHeight = 0 THEN dmn.nRegisteredHeight ELSE dmn.nLastPaidHeight

CompareByLastPaid(l, g, h) ==
    LET ah == CompareByLastPaidGetHeight(l.mnMap[g])
        bh == CompareByLastPaidGetHeight(l.mnMap[h])
    IN  IF ah = bh THEN Rank[g] < Rank[h] ELSE ah < bh

IsPayee(l, h) ==
    /\ h \in ValidMNs(l)
    /\ \A g \in ValidMNs(l) \ {h} : CompareByLastPaid(l, h, g)

\* The one masternode IsPayee holds for, or Null when none is valid.
GetMNPayee(l) == IF \E h \in MN : IsPayee(l, h) THEN CHOOSE h \in MN : IsPayee(l, h) ELSE Null

-----------------------------------------------------------------------------
(* Diffs.                                                                  *)

\* GetMNByInternalId, or Null.
GetMNByInternalId(l, id) == IF id \in DOMAIN l.mnInternalIdMap THEN l.mnInternalIdMap[id] ELSE Null

\* updatedMNs and removedMns go by internal id.  Every field of the old and of the new state is compared,
\* so that an entry of updatedMNs can stand for the new state of the masternode.
BuildDiff(from, to) ==
    LET here == DOMAIN from.mnMap
        there == DOMAIN to.mnMap
        changed == {h \in here \cap there : from.mnMap[h] # to.mnMap[h]}
    IN  [added   |-> [h \in there \ here |-> to.mnMap[h]],
         updated |-> [id \in {to.mnMap[h].internalId : h \in changed} |->
                         to.mnMap[CHOOSE h \in changed : to.mnMap[h].internalId = id]],
         removed |-> {from.mnMap[h].internalId : h \in here \ there}]

HasChanges(diff) == DOMAIN diff.added \cup DOMAIN diff.updated \cup diff.removed # {}

-----------------------------------------------------------------------------
(* What makes a list well formed.                                          *)

ListTypeOK(l) ==
    /\ l = [err |-> l.err, nTotalRegisteredCount |-> l.nTotalRegisteredCount, mnMap |-> l.mnMap,
            mnInternalIdMap |-> l.mnInternalIdMap, mnUniquePropertyMap |-> l.mnUniquePropertyMap]
    /\ l.err \in {"ok", "reject", "throw", "assert"}
    /\ l.nTotalRegisteredCount \in Nat
    /\ DOMAIN l.mnMap \subseteq MN
    /\ \A h \in DOMAIN l.mnMap : l.mnMap[h] \in DMN
    /\ DOMAIN l.mnInternalIdMap \subseteq Nat
    /\ \A i \in DOMAIN l.mnInternalIdMap : l.mnInternalIdMap[i] \in MN
    /\ DOMAIN l.mnUniquePropertyMap \subseteq Property
    /\ \A v \in DOMAIN l.mnUniquePropertyMap :
          l.mnUniquePropertyMap[v] \in [mn : MN, count : Nat \ {0}]

One(b) == IF b THEN 1 ELSE 0

\* How many fields of dmn hold v.
FieldCount(dmn, v) ==
    One(dmn.collateral = v) + One(dmn.addr = v) + One(dmn.keyIDOwner = v) + One(dmn.keyIDOperator = v)

\* How many fields of masternode h hold v, by the masternodes and by the property map.
Holds(l, h, v) == IF HasMN(l, h) THEN FieldCount(l.mnMap[h], v) ELSE 0

Recorded(l, h, v) == IF HasUniqueProperty(l, v) /\ UniquePropertyMN(l, v) = h THEN RefCount(l, v) ELSE 0

PropertiesExact(l) == \A h \in MN, v \in Property : Recorded(l, h, v) = Holds(l, h, v)

IdsExact(l) ==
    /\ \A h \in DOMAIN l.mnMap :
          /\ l.mnMap[h].internalId \in DOMAIN l.mnInternalIdMap
          /\ l.mnInternalIdMap[l.mnMap[h].internalId] = h
    /\ \A i \in DOMAIN l.mnInternalIdMap :
          /\ i < l.nTotalRegisteredCount
          /\ l.mnInternalIdMap[i] \in DOMAIN l.mnMap
          /\ l.mnMap[l.mnInternalIdMap[i]].internalId = i

=============================================================================
