--------------------- MODULE DeterministicMNListProofs ---------------------
(***************************************************************************)
(* What the operations of CDeterministicMNList return: AddMN, UpdateMN and *)
(* RemoveMN keep a well-formed list well formed, and when they fail.       *)
(***************************************************************************)
EXTENDS DeterministicMNList, TLAPS

WellFormed(l) == ListTypeOK(l) /\ PropertiesExact(l) /\ IdsExact(l)

\* r is l with another property map.
SameButProperties(l, r) ==
    /\ ListTypeOK(r)
    /\ r.err = l.err
    /\ r.mnMap = l.mnMap
    /\ r.mnInternalIdMap = l.mnInternalIdMap
    /\ r.nTotalRegisteredCount = l.nTotalRegisteredCount

\* A value is recorded for h exactly when the property map names h as its owner.
LEMMA RecordedOwner ==
    ASSUME NEW l, ListTypeOK(l), NEW h \in MN, NEW v
    PROVE  /\ Recorded(l, h, v) \in Nat
           /\ Recorded(l, h, v) > 0 <=> HasUniqueProperty(l, v) /\ UniquePropertyMN(l, v) = h
           /\ Recorded(l, h, v) > 0 => ~OwnedByOther(l, h, v)
BY DEF ListTypeOK, Recorded, HasUniqueProperty, UniquePropertyMN, RefCount, OwnedByOther

\* A value that some masternode owns is recorded for it.
LEMMA OwnerRecorded ==
    ASSUME NEW l, ListTypeOK(l), NEW v, HasUniqueProperty(l, v)
    PROVE  /\ v \in Property
           /\ UniquePropertyMN(l, v) \in MN
           /\ Recorded(l, UniquePropertyMN(l, v), v) > 0
BY DEF ListTypeOK, Recorded, HasUniqueProperty, UniquePropertyMN, RefCount

\* AddUniqueProperty adds one reference.
LEMMA AddPropertyResult ==
    ASSUME NEW l, ListTypeOK(l), ~Failed(l), NEW h \in MN, NEW v \in Property,
           ~OwnedByOther(l, h, v)
    PROVE  LET r == AddUniqueProperty(l, h, v)
           IN  /\ SameButProperties(l, r)
               /\ \A g \in MN, u \in Property :
                     Recorded(r, g, u) = Recorded(l, g, u) + One(g = h /\ u = v)
<1> DEFINE entry == [mn |-> h, count |-> RefCount(l, v) + 1]
           m == Put(l.mnUniquePropertyMap, v, entry)
           r == AddUniqueProperty(l, h, v)
<1>1. v # Null
  BY PropertyAssumption DEF Property
<1>2. r = [err |-> l.err, nTotalRegisteredCount |-> l.nTotalRegisteredCount, mnMap |-> l.mnMap,
           mnInternalIdMap |-> l.mnInternalIdMap, mnUniquePropertyMap |-> m]
  BY <1>1 DEF AddUniqueProperty, ListTypeOK
<1>3. /\ entry \in [mn : MN, count : Nat \ {0}]
      /\ DOMAIN m = DOMAIN l.mnUniquePropertyMap \cup {v}
      /\ m[v] = entry
      /\ \A u \in DOMAIN l.mnUniquePropertyMap \ {v} : m[u] = l.mnUniquePropertyMap[u]
  BY DEF Put, RefCount, ListTypeOK, HasUniqueProperty
<1>4. SameButProperties(l, r)
  BY <1>2, <1>3 DEF SameButProperties, ListTypeOK
<1>5. ASSUME NEW g \in MN, NEW u \in Property
      PROVE  Recorded(r, g, u) = Recorded(l, g, u) + One(g = h /\ u = v)
  <2>1. CASE u = v
    BY <1>2, <1>3, <2>1
       DEF Recorded, RefCount, HasUniqueProperty, UniquePropertyMN, One, ListTypeOK, OwnedByOther
  <2>2. CASE u # v
    BY <1>2, <1>3, <2>2
       DEF Recorded, RefCount, HasUniqueProperty, UniquePropertyMN, One, ListTypeOK
  <2> QED  BY <2>1, <2>2
<1> QED  BY <1>4, <1>5

\* DeleteUniqueProperty takes one reference away from a value that h holds.
LEMMA DeletePropertyResult ==
    ASSUME NEW l, ListTypeOK(l), ~Failed(l), NEW h \in MN, NEW v \in Property,
           Recorded(l, h, v) > 0
    PROVE  LET r == DeleteUniqueProperty(l, h, v)
           IN  /\ SameButProperties(l, r)
               /\ \A g \in MN, u \in Property :
                     Recorded(r, g, u) = Recorded(l, g, u) - One(g = h /\ u = v)
<1> DEFINE p == l.mnUniquePropertyMap
           entry == [mn |-> h, count |-> RefCount(l, v) - 1]
           m == IF RefCount(l, v) = 1 THEN Del(p, v) ELSE Put(p, v, entry)
           r == DeleteUniqueProperty(l, h, v)
<1>1. /\ v # Null
      /\ HasUniqueProperty(l, v)
      /\ UniquePropertyMN(l, v) = h
      /\ ~OwnedByOther(l, h, v)
      /\ RefCount(l, v) \in Nat \ {0}
      /\ RefCount(l, v) = p[v].count
  BY PropertyAssumption, RecordedOwner, ZenonT(30)
     DEF Property, RefCount, HasUniqueProperty, ListTypeOK
<1>2. r = [err |-> l.err, nTotalRegisteredCount |-> l.nTotalRegisteredCount, mnMap |-> l.mnMap,
           mnInternalIdMap |-> l.mnInternalIdMap, mnUniquePropertyMap |-> m]
  BY <1>1, ZenonT(30) DEF DeleteUniqueProperty, ListTypeOK
<1>3. CASE RefCount(l, v) = 1
  <2>1. DOMAIN m = DOMAIN p \ {v} /\ \A u \in DOMAIN p \ {v} : m[u] = p[u]
    BY <1>3 DEF Del
  <2>2. SameButProperties(l, r)
    BY <1>2, <2>1 DEF SameButProperties, ListTypeOK
  <2>3. ASSUME NEW g \in MN, NEW u \in Property
        PROVE  Recorded(r, g, u) = Recorded(l, g, u) - One(g = h /\ u = v)
    BY <1>1, <1>2, <1>3, <2>1
       DEF Recorded, RefCount, HasUniqueProperty, UniquePropertyMN, One, ListTypeOK
  <2> QED  BY <2>2, <2>3
<1>4. CASE RefCount(l, v) # 1
  <2>1. /\ entry \in [mn : MN, count : Nat \ {0}]
        /\ DOMAIN m = DOMAIN p
        /\ m[v] = entry
        /\ \A u \in DOMAIN p \ {v} : m[u] = p[u]
    BY <1>1, <1>4 DEF Put, HasUniqueProperty
  <2>2. \A u \in DOMAIN m : u \in Property /\ m[u] \in [mn : MN, count : Nat \ {0}]
    BY <2>1, Zenon DEF ListTypeOK
  <2>3. r.mnUniquePropertyMap = m
    BY <1>2
  <2>4. SameButProperties(l, r)
    <3> HIDE DEF m
    <3> QED  BY <1>2, <2>2, <2>3 DEF SameButProperties, ListTypeOK
  <2>5. ASSUME NEW g \in MN, NEW u \in Property
        PROVE  Recorded(r, g, u) = Recorded(l, g, u) - One(g = h /\ u = v)
    BY <1>1, <1>2, <1>4, <2>1
       DEF Recorded, RefCount, HasUniqueProperty, UniquePropertyMN, One, ListTypeOK
  <2> QED  BY <2>4, <2>5
<1> QED  BY <1>3, <1>4

\* Another masternode owns a value exactly when the value is recorded for it.
LEMMA OtherRecorded ==
    ASSUME NEW l, ListTypeOK(l), NEW h \in MN, NEW v
    PROVE  OwnedByOther(l, h, v) <=> \E o \in MN : o # h /\ Recorded(l, o, v) > 0
BY OwnerRecorded, RecordedOwner DEF OwnedByOther

\* UpdateUniqueProperty moves one reference of h from old to new; either may be null.
LEMMA UpdatePropertyResult ==
    ASSUME NEW l, ListTypeOK(l), ~Failed(l), NEW h \in MN,
           NEW old \in Property \cup {Null}, NEW new \in Property \cup {Null},
           old # Null => Recorded(l, h, old) > 0,
           ~OwnedByOther(l, h, new)
    PROVE  LET r == UpdateUniqueProperty(l, h, old, new)
           IN  /\ SameButProperties(l, r)
               /\ \A g \in MN, u \in Property :
                     Recorded(r, g, u) = Recorded(l, g, u) + One(g = h /\ u = new) - One(g = h /\ u = old)
<1> DEFINE d == IF old = Null THEN l ELSE DeleteUniqueProperty(l, h, old)
           r == UpdateUniqueProperty(l, h, old, new)
<1>0. /\ Null \notin Property
      /\ \A g \in MN, u \in Property : Recorded(l, g, u) \in Nat
  BY PropertyAssumption, RecordedOwner DEF Property
<1>1. CASE old = new
  BY <1>0, <1>1 DEF UpdateUniqueProperty, SameButProperties, One
<1>2. CASE old # new
  <2>1. /\ SameButProperties(l, d)
        /\ \A g \in MN, u \in Property : Recorded(d, g, u) = Recorded(l, g, u) - One(g = h /\ u = old)
    <3>1. CASE old = Null
      BY <1>0, <3>1 DEF SameButProperties, One
    <3>2. CASE old # Null
      BY <3>2, DeletePropertyResult
    <3> QED  BY <3>1, <3>2
  <2>2. ListTypeOK(d) /\ ~Failed(d)
    BY <2>1 DEF SameButProperties, Failed
  <2>3. CASE new = Null
    <3>1. r = d
      BY <1>2, <2>3 DEF UpdateUniqueProperty
    <3>2. \A g \in MN, u \in Property : One(g = h /\ u = new) = 0 /\ One(g = h /\ u = old) \in Int
      BY <1>0, <2>3 DEF One
    <3> QED  BY <1>0, <2>1, <3>1, <3>2
  <2>4. CASE new # Null
    <3>1. r = AddUniqueProperty(d, h, new)
      BY <1>2, <2>4 DEF UpdateUniqueProperty
    <3>2. ~OwnedByOther(d, h, new)
      BY <1>0, <2>1, <2>2, <2>4, OtherRecorded DEF One
    <3>3. /\ SameButProperties(d, r)
          /\ \A g \in MN, u \in Property : Recorded(r, g, u) = Recorded(d, g, u) + One(g = h /\ u = new)
      BY <2>2, <2>4, <3>1, <3>2, AddPropertyResult
    <3>4. SameButProperties(l, r)
      BY <2>1, <3>3 DEF SameButProperties
    <3>5. \A g \in MN, u \in Property : One(g = h /\ u = new) \in Int /\ One(g = h /\ u = old) \in Int
      BY DEF One
    <3> QED  BY <1>0, <2>1, <3>3, <3>4, <3>5
  <2> QED  BY <2>3, <2>4
<1> QED  BY <1>1, <1>2

-----------------------------------------------------------------------------
(* AddMN, UpdateMN and RemoveMN.                                           *)

\* What a masternode of a well-formed list holds is recorded for it and for no other.
LEMMA HeldIsOwned ==
    ASSUME NEW l, WellFormed(l), NEW h \in DOMAIN l.mnMap,
           NEW v \in {l.mnMap[h].collateral, l.mnMap[h].addr, l.mnMap[h].keyIDOwner, l.mnMap[h].keyIDOperator}
    PROVE  /\ h \in MN
           /\ v # Null => Recorded(l, h, v) > 0
           /\ ~OwnedByOther(l, h, v)
<1>1. h \in MN /\ l.mnMap[h] \in DMN
  BY DEF WellFormed, ListTypeOK
<1>2. v \in Property \cup {Null}
  BY <1>1 DEF DMN, Property
<1>3. CASE v = Null
  BY <1>1, <1>3, PropertyAssumption DEF WellFormed, ListTypeOK, OwnedByOther, HasUniqueProperty, Property
<1>4. CASE v # Null
  <2>1. Holds(l, h, v) > 0
    BY DEF Holds, HasMN, FieldCount, One
  <2>2. Recorded(l, h, v) > 0
    BY <1>1, <1>2, <1>4, <2>1 DEF WellFormed, PropertiesExact
  <2> QED  BY <1>1, <2>2, RecordedOwner DEF WellFormed
<1> QED  BY <1>3, <1>4

\* AddMN succeeds on a new masternode with a fresh id and values nobody holds, and keeps
\* the list well formed.
LEMMA AddMNResult ==
    ASSUME NEW l, WellFormed(l), ~Failed(l), NEW h \in MN, NEW dmn \in DMN,
           ~HasMN(l, h), dmn.internalId = l.nTotalRegisteredCount, dmn.keyIDOperator # Null,
           ~HasUniqueProperty(l, dmn.collateral), ~HasUniqueProperty(l, dmn.addr),
           ~HasUniqueProperty(l, dmn.keyIDOwner), ~HasUniqueProperty(l, dmn.keyIDOperator)
    PROVE  LET r == AddMN(l, h, dmn)
           IN  /\ ~Failed(r)
               /\ WellFormed(r)
               /\ r.mnMap = Put(l.mnMap, h, dmn)
<1> DEFINE total == l.nTotalRegisteredCount + 1
           l0 == WithMNs(l, Put(l.mnMap, h, dmn), Put(l.mnInternalIdMap, dmn.internalId, h), total)
           l1 == AddUniqueProperty(l0, h, dmn.collateral)
           l2 == IF dmn.addr = Null THEN l1 ELSE AddUniqueProperty(l1, h, dmn.addr)
           l3 == AddUniqueProperty(l2, h, dmn.keyIDOwner)
           r == AddUniqueProperty(l3, h, dmn.keyIDOperator)
<1>1. /\ ListTypeOK(l) /\ IdsExact(l) /\ PropertiesExact(l)
      /\ l.nTotalRegisteredCount \in Nat
      /\ dmn.internalId \notin DOMAIN l.mnInternalIdMap
  BY DEF WellFormed, ListTypeOK, IdsExact
<1>2. /\ dmn.collateral \in Property /\ dmn.keyIDOwner \in Property /\ dmn.keyIDOperator \in Property
      /\ dmn.addr # Null => dmn.addr \in Property
      /\ Null \notin Property
  BY PropertyAssumption DEF DMN, Property
<1>3. AddMN(l, h, dmn) = r
  <2>1. (IF dmn.internalId + 1 > l.nTotalRegisteredCount
         THEN dmn.internalId + 1 ELSE l.nTotalRegisteredCount) = total
    BY <1>1
  <2> QED  BY <1>1, <2>1 DEF AddMN
<1>4. ListTypeOK(l0) /\ ~Failed(l0) /\ IdsExact(l0)
  <2>0. l0 = [err |-> l.err, nTotalRegisteredCount |-> total, mnMap |-> Put(l.mnMap, h, dmn),
              mnInternalIdMap |-> Put(l.mnInternalIdMap, dmn.internalId, h),
              mnUniquePropertyMap |-> l.mnUniquePropertyMap]
    BY DEF WithMNs
  <2>1. /\ DOMAIN l0.mnMap = DOMAIN l.mnMap \cup {h}
        /\ l0.mnMap[h] = dmn
        /\ \A g \in DOMAIN l.mnMap : g # h /\ l0.mnMap[g] = l.mnMap[g]
    BY <2>0 DEF Put, HasMN
  <2>2. /\ DOMAIN l0.mnInternalIdMap = DOMAIN l.mnInternalIdMap \cup {l.nTotalRegisteredCount}
        /\ l0.mnInternalIdMap[l.nTotalRegisteredCount] = h
        /\ \A i \in DOMAIN l.mnInternalIdMap :
              i # l.nTotalRegisteredCount /\ l0.mnInternalIdMap[i] = l.mnInternalIdMap[i]
    BY <1>1, <2>0 DEF Put
  <2>3. ListTypeOK(l0)
    BY <1>1, <2>0, <2>1, <2>2 DEF ListTypeOK
  <2>4. IdsExact(l0)
    <3>1. ASSUME NEW g \in DOMAIN l0.mnMap
          PROVE  /\ l0.mnMap[g].internalId \in DOMAIN l0.mnInternalIdMap
                 /\ l0.mnInternalIdMap[l0.mnMap[g].internalId] = g
      <4>1. CASE g = h
        BY <1>1, <2>1, <2>2, <4>1, Zenon
      <4>2. CASE g \in DOMAIN l.mnMap
        BY <1>1, <2>1, <2>2, <4>2 DEF IdsExact
      <4> QED  BY <2>1, <4>1, <4>2, Zenon
    <3>2. ASSUME NEW i \in DOMAIN l0.mnInternalIdMap
          PROVE  /\ i < l0.nTotalRegisteredCount
                 /\ l0.mnInternalIdMap[i] \in DOMAIN l0.mnMap
                 /\ l0.mnMap[l0.mnInternalIdMap[i]].internalId = i
      <4>1. CASE i = l.nTotalRegisteredCount
        BY <1>1, <2>0, <2>1, <2>2, <4>1, SMTT(30)
      <4>2. CASE i \in DOMAIN l.mnInternalIdMap
        <5>1. /\ i \in Nat /\ i < l.nTotalRegisteredCount
              /\ l.mnInternalIdMap[i] \in DOMAIN l.mnMap /\ l.mnMap[l.mnInternalIdMap[i]].internalId = i
          BY <1>1, <4>2 DEF IdsExact, ListTypeOK
        <5>2. l0.nTotalRegisteredCount = l.nTotalRegisteredCount + 1
          BY <1>1, <2>0
        <5> QED  BY <1>1, <2>1, <2>2, <4>2, <5>1, <5>2
      <4> QED  BY <2>2, <4>1, <4>2, ZenonT(30)
    <3> QED  BY <3>1, <3>2, Zenon DEF IdsExact
  <2> QED  BY <2>0, <2>3, <2>4 DEF Failed
<1>5. \A g \in MN, v \in Property : Recorded(l0, g, v) = Recorded(l, g, v) /\ Recorded(l, g, v) \in Nat
  BY <1>1, RecordedOwner DEF Recorded, HasUniqueProperty, UniquePropertyMN, RefCount, WithMNs
<1>6. /\ \A g \in MN : Recorded(l0, g, dmn.collateral) = 0 /\ Recorded(l0, g, dmn.keyIDOwner) = 0
      /\ \A g \in MN : Recorded(l0, g, dmn.keyIDOperator) = 0
      /\ dmn.addr # Null => \A g \in MN : Recorded(l0, g, dmn.addr) = 0
  BY <1>2, <1>5 DEF Recorded
<1> HIDE DEF l0
<1>7. \A b : One(b) \in Nat
  BY DEF One
<1>8. /\ SameButProperties(l0, l1)
      /\ \A g \in MN, v \in Property :
            Recorded(l1, g, v) = Recorded(l0, g, v) + One(g = h /\ v = dmn.collateral)
  BY <1>2, <1>4, <1>6, OtherRecorded, AddPropertyResult
<1> HIDE DEF l1
<1>9. /\ SameButProperties(l0, l2)
      /\ \A g \in MN, v \in Property :
            Recorded(l2, g, v) = Recorded(l1, g, v) + One(g = h /\ v = dmn.addr)
  <2>0. ListTypeOK(l1) /\ ~Failed(l1)
    BY <1>4, <1>8 DEF SameButProperties, Failed
  <2>1. CASE dmn.addr = Null
    <3>1. \A g \in MN, v \in Property : One(g = h /\ v = dmn.addr) = 0 /\ Recorded(l1, g, v) \in Nat
      BY <1>2, <2>0, <2>1, RecordedOwner, Zenon DEF One
    <3> QED  BY <1>8, <2>1, <3>1
  <2>2. CASE dmn.addr # Null
    <3>1. ~OwnedByOther(l1, h, dmn.addr)
      BY <1>2, <1>6, <1>8, <2>0, <2>2, OtherRecorded DEF One
    <3>2. /\ SameButProperties(l1, l2)
          /\ \A g \in MN, v \in Property :
                Recorded(l2, g, v) = Recorded(l1, g, v) + One(g = h /\ v = dmn.addr)
      BY <1>2, <2>0, <2>2, <3>1, AddPropertyResult
    <3> QED  BY <1>8, <3>2 DEF SameButProperties
  <2> QED  BY <2>1, <2>2
<1> HIDE DEF l2
<1>10. /\ SameButProperties(l0, l3)
       /\ \A g \in MN, v \in Property :
             Recorded(l3, g, v) = Recorded(l2, g, v) + One(g = h /\ v = dmn.keyIDOwner)
  <2>0. ListTypeOK(l2) /\ ~Failed(l2)
    BY <1>4, <1>9 DEF SameButProperties, Failed
  <2>1. ~OwnedByOther(l2, h, dmn.keyIDOwner)
    BY <1>2, <1>6, <1>8, <1>9, <2>0, OtherRecorded DEF One
  <2>2. /\ SameButProperties(l2, l3)
        /\ \A g \in MN, v \in Property :
              Recorded(l3, g, v) = Recorded(l2, g, v) + One(g = h /\ v = dmn.keyIDOwner)
    BY <1>2, <2>0, <2>1, AddPropertyResult
  <2> QED  BY <1>9, <2>2 DEF SameButProperties
<1> HIDE DEF l3
<1>11. /\ SameButProperties(l0, r)
       /\ \A g \in MN, v \in Property :
             Recorded(r, g, v) = Recorded(l3, g, v) + One(g = h /\ v = dmn.keyIDOperator)
  <2>0. ListTypeOK(l3) /\ ~Failed(l3)
    BY <1>4, <1>10 DEF SameButProperties, Failed
  <2>1. ~OwnedByOther(l3, h, dmn.keyIDOperator)
    BY <1>2, <1>6, <1>8, <1>9, <1>10, <2>0, OtherRecorded DEF One
  <2>2. /\ SameButProperties(l3, r)
        /\ \A g \in MN, v \in Property :
              Recorded(r, g, v) = Recorded(l3, g, v) + One(g = h /\ v = dmn.keyIDOperator)
    BY <1>2, <2>0, <2>1, AddPropertyResult
  <2> QED  BY <1>10, <2>2 DEF SameButProperties
<1> HIDE DEF r
<1>12. r.mnMap = Put(l.mnMap, h, dmn) /\ ~Failed(r) /\ ListTypeOK(r) /\ IdsExact(r)
  <2>1. l0.mnMap = Put(l.mnMap, h, dmn)
    BY DEF l0, WithMNs
  <2> QED  BY <1>4, <1>11, <2>1 DEF SameButProperties, Failed, IdsExact
<1>13. PropertiesExact(r)
  <2> SUFFICES ASSUME NEW g \in MN, NEW v \in Property
               PROVE  Recorded(r, g, v) = Holds(r, g, v)
    BY DEF PropertiesExact
  <2>1. Recorded(l, g, v) = Holds(l, g, v) /\ Recorded(l, g, v) \in Nat
    BY <1>1, <1>5 DEF PropertiesExact
  <2>2. Recorded(r, g, v) = Recorded(l, g, v) + One(g = h /\ v = dmn.collateral) + One(g = h /\ v = dmn.addr)
                          + One(g = h /\ v = dmn.keyIDOwner) + One(g = h /\ v = dmn.keyIDOperator)
    BY <1>5, <1>7, <1>8, <1>9, <1>10, <1>11
  <2>3. CASE g = h
    BY <1>12, <2>1, <2>2, <2>3 DEF Holds, HasMN, Put, FieldCount, One
  <2>4. CASE g # h
    <3>1. Holds(r, g, v) = Holds(l, g, v)
      BY <1>12, <2>4 DEF Holds, HasMN, Put
    <3> QED  BY <2>1, <2>2, <2>4, <3>1 DEF One
  <2> QED  BY <2>3, <2>4
<1> QED  BY <1>3, <1>12, <1>13 DEF WellFormed

\* UpdateMN succeeds and keeps the list well formed when the new state takes no value of
\* another masternode.  Nothing but the state of the masternode changes.
LEMMA UpdateMNResult ==
    ASSUME NEW l, WellFormed(l), ~Failed(l), NEW h \in DOMAIN l.mnMap, NEW new \in DMN,
           new.internalId = l.mnMap[h].internalId, new.collateral = l.mnMap[h].collateral,
           new.keyIDOwner = l.mnMap[h].keyIDOwner,
           ~OwnedByOther(l, h, new.addr), ~OwnedByOther(l, h, new.keyIDOperator)
    PROVE  LET r == UpdateMN(l, h, new)
           IN  /\ ~Failed(r)
               /\ WellFormed(r)
               /\ r.mnMap = Put(l.mnMap, h, new)
<1> DEFINE old == l.mnMap[h]
           l0 == [l EXCEPT !.mnMap = Put(@, h, new)]
           l1 == UpdateUniqueProperty(l0, h, old.addr, new.addr)
           r == UpdateUniqueProperty(l1, h, old.keyIDOperator, new.keyIDOperator)
<1>1. /\ ListTypeOK(l) /\ IdsExact(l) /\ PropertiesExact(l)
      /\ h \in MN /\ old \in DMN
  BY Zenon DEF WellFormed, ListTypeOK
<1>2. /\ old.addr \in Service \cup {Null} /\ new.addr \in Service \cup {Null}
      /\ old.keyIDOperator \in KeyID \cup {Null} /\ new.keyIDOperator \in KeyID \cup {Null}
      /\ old.addr # Null => Recorded(l, h, old.addr) > 0
      /\ old.keyIDOperator # Null => Recorded(l, h, old.keyIDOperator) > 0
      /\ ~OwnedByOther(l, h, old.addr)
  BY <1>1, HeldIsOwned, Zenon DEF DMN
<1>3. UpdateMN(l, h, new) = r
  <2>1. UpdateUniqueProperty(l1, h, old.keyIDOwner, new.keyIDOwner) = l1
    BY DEF UpdateUniqueProperty
  <2> HIDE DEF l1
  <2>2. UpdateMN(l, h, new) =
          UpdateUniqueProperty(UpdateUniqueProperty(l1, h, old.keyIDOwner, new.keyIDOwner),
                               h, old.keyIDOperator, new.keyIDOperator)
    BY <1>2 DEF UpdateMN, HasMN, l1
  <2> QED  BY <2>1, <2>2
<1>4. l0 = [err |-> l.err, nTotalRegisteredCount |-> l.nTotalRegisteredCount, mnMap |-> Put(l.mnMap, h, new),
            mnInternalIdMap |-> l.mnInternalIdMap, mnUniquePropertyMap |-> l.mnUniquePropertyMap]
  BY <1>1 DEF ListTypeOK
<1> HIDE DEF l0
<1>5. /\ DOMAIN l0.mnMap = DOMAIN l.mnMap
      /\ l0.mnMap[h] = new
      /\ \A g \in DOMAIN l.mnMap \ {h} : l0.mnMap[g] = l.mnMap[g]
  BY <1>4 DEF Put
<1>6. ListTypeOK(l0) /\ ~Failed(l0) /\ IdsExact(l0)
  <2>1. ListTypeOK(l0)
    BY <1>1, <1>4, <1>5, Zenon DEF ListTypeOK
  <2>2. IdsExact(l0)
    BY <1>1, <1>4, <1>5 DEF IdsExact
  <2> QED  BY <1>4, <2>1, <2>2 DEF Failed
<1>7. \A v : \A g \in MN : Recorded(l0, g, v) = Recorded(l, g, v) /\ Recorded(l, g, v) \in Nat
  BY <1>1, <1>4, RecordedOwner DEF Recorded, HasUniqueProperty, UniquePropertyMN, RefCount
<1>8. ~OwnedByOther(l0, h, new.addr) /\ ~OwnedByOther(l0, h, new.keyIDOperator)
  BY <1>1, <1>6, <1>7, OtherRecorded
<1>9. /\ SameButProperties(l0, l1)
      /\ \A g \in MN, u \in Property :
            Recorded(l1, g, u) = Recorded(l0, g, u) + One(g = h /\ u = new.addr) - One(g = h /\ u = old.addr)
  <2>1. old.addr \in Property \cup {Null} /\ new.addr \in Property \cup {Null}
    BY <1>2 DEF Property
  <2> QED  BY <1>1, <1>2, <1>6, <1>7, <1>8, <2>1, UpdatePropertyResult
<1> HIDE DEF l1
<1>10. ListTypeOK(l1) /\ ~Failed(l1)
  BY <1>6, <1>9, Zenon DEF SameButProperties, Failed
<1>11. /\ SameButProperties(l1, r)
       /\ \A g \in MN, u \in Property :
             Recorded(r, g, u) = Recorded(l1, g, u) + One(g = h /\ u = new.keyIDOperator)
                                                  - One(g = h /\ u = old.keyIDOperator)
  <2>1. old.keyIDOperator \in Property \cup {Null} /\ new.keyIDOperator \in Property \cup {Null}
    BY <1>2, Zenon DEF Property
  <2>2. old.keyIDOperator # Null => Recorded(l1, h, old.keyIDOperator) > 0
    BY <1>1, <1>2, <1>7, <1>9, <2>1, PropertyAssumption DEF One
  <2>3. ~OwnedByOther(l1, h, new.keyIDOperator)
    <3>1. CASE new.keyIDOperator = Null
      BY <1>10, <3>1, PropertyAssumption, Zenon DEF ListTypeOK, OwnedByOther, HasUniqueProperty, Property
    <3>2. CASE new.keyIDOperator # Null
      BY <1>1, <1>6, <1>7, <1>8, <1>9, <1>10, <2>1, <3>2, OtherRecorded DEF One
    <3> QED  BY <3>1, <3>2
  <2> QED  BY <1>1, <1>10, <2>1, <2>2, <2>3, UpdatePropertyResult
<1> HIDE DEF r
<1>12. r.mnMap = Put(l.mnMap, h, new) /\ ~Failed(r) /\ ListTypeOK(r) /\ IdsExact(r)
  BY <1>4, <1>6, <1>9, <1>11 DEF SameButProperties, Failed, IdsExact
<1>13. PropertiesExact(r)
  <2> SUFFICES ASSUME NEW g \in MN, NEW v \in Property
               PROVE  Recorded(r, g, v) = Holds(r, g, v)
    BY DEF PropertiesExact
  <2>1. Recorded(l, g, v) = Holds(l, g, v) /\ Recorded(l, g, v) \in Nat
    BY <1>1, <1>7, Zenon DEF PropertiesExact
  <2>2. Recorded(r, g, v) = Recorded(l, g, v) + One(g = h /\ v = new.addr) - One(g = h /\ v = old.addr)
                 + One(g = h /\ v = new.keyIDOperator) - One(g = h /\ v = old.keyIDOperator)
    <3>1. \A b : One(b) \in Nat
      BY Zenon DEF One
    <3> QED  BY <1>7, <1>9, <1>11, <3>1
  <2>3. CASE g = h
    <3>1. /\ Holds(r, h, v) = FieldCount(new, v)
          /\ Holds(l, h, v) = FieldCount(old, v)
      BY <1>12 DEF Holds, HasMN, Put
    <3> QED  BY <2>1, <2>2, <2>3, <3>1 DEF FieldCount, One
  <2>4. CASE g # h
    <3>1. Holds(r, g, v) = Holds(l, g, v)
      BY <1>12, <2>4 DEF Holds, HasMN, Put
    <3> QED  BY <2>1, <2>2, <2>4, <3>1 DEF One
  <2> QED  BY <2>3, <2>4
<1> QED  BY <1>3, <1>12, <1>13 DEF WellFormed

\* RemoveMN takes a masternode with an operator key out of a well-formed list and leaves a
\* well-formed list without any reference to it.  For a revoked masternode, whose operator
\* key is null, the assertion in DeleteUniqueProperty fails.
THEOREM RemoveMNResult ==
    ASSUME NEW l, WellFormed(l), ~Failed(l), NEW h \in DOMAIN l.mnMap
    PROVE  LET r == RemoveMN(l, h)
           IN  /\ l.mnMap[h].keyIDOperator # Null =>
                     /\ ~Failed(r)
                     /\ WellFormed(r)
                     /\ r.mnMap = Del(l.mnMap, h)
                     /\ r.nTotalRegisteredCount = l.nTotalRegisteredCount
               /\ l.mnMap[h].keyIDOperator = Null =>
                     /\ r.err = "assert"
                     /\ ListTypeOK(r)
                     /\ r.mnMap = l.mnMap
<1> DEFINE dmn == l.mnMap[h]
           l1 == DeleteUniqueProperty(l, h, dmn.collateral)
           l2 == IF dmn.addr = Null THEN l1 ELSE DeleteUniqueProperty(l1, h, dmn.addr)
           l3 == DeleteUniqueProperty(l2, h, dmn.keyIDOwner)
           l4 == DeleteUniqueProperty(l3, h, dmn.keyIDOperator)
           w == WithMNs(l4, Del(l4.mnMap, h), Del(l4.mnInternalIdMap, dmn.internalId),
                        l4.nTotalRegisteredCount)
           r == RemoveMN(l, h)
<1>1. /\ ListTypeOK(l) /\ IdsExact(l) /\ PropertiesExact(l)
      /\ h \in MN /\ dmn \in DMN
  BY DEF WellFormed, ListTypeOK
<1>2. /\ dmn.collateral \in Outpoint /\ dmn.addr \in Service \cup {Null}
      /\ dmn.keyIDOwner \in KeyID /\ dmn.keyIDOperator \in KeyID \cup {Null}
  BY <1>1 DEF DMN
<1>3. /\ dmn.collateral \in Property /\ dmn.keyIDOwner \in Property
      /\ dmn.addr # Null => dmn.addr \in Property
      /\ dmn.keyIDOperator # Null => dmn.keyIDOperator \in Property
      /\ Null \notin Property
  BY <1>2, PropertyAssumption DEF Property
<1>4. \A g \in MN, v \in Property :
         /\ Recorded(l, g, v) = Holds(l, g, v)
         /\ Recorded(l, g, v) \in Nat
         /\ Recorded(l, h, v) = FieldCount(dmn, v)
  BY <1>1, RecordedOwner, Zenon DEF PropertiesExact, Holds, HasMN
<1>5. r = IF Failed(l4) THEN l4 ELSE w
  BY Zenon DEF RemoveMN, HasMN
<1>6. /\ SameButProperties(l, l1)
      /\ \A g \in MN, v \in Property :
            Recorded(l1, g, v) = Recorded(l, g, v) - One(g = h /\ v = dmn.collateral)
  <2>1. Recorded(l, h, dmn.collateral) > 0
    BY <1>1, <1>3, <1>4 DEF FieldCount, One
  <2> QED  BY <1>1, <1>3, <2>1, DeletePropertyResult, SMTT(30)
<1> HIDE DEF l1
<1>7. /\ SameButProperties(l, l2)
      /\ \A g \in MN, v \in Property :
            Recorded(l2, g, v) = Recorded(l1, g, v) - One(g = h /\ v = dmn.addr)
  <2>0. ListTypeOK(l1) /\ ~Failed(l1)
    BY <1>6 DEF SameButProperties, Failed
  <2>1. CASE dmn.addr = Null
    <3>1. \A g \in MN, v \in Property : One(g = h /\ v = dmn.addr) = 0 /\ Recorded(l1, g, v) \in Nat
      BY <1>3, <2>0, <2>1, RecordedOwner, Zenon DEF One
    <3> QED  BY <1>6, <2>1, <3>1
  <2>2. CASE dmn.addr # Null
    <3>1. Recorded(l1, h, dmn.addr) > 0
      BY <1>1, <1>2, <1>3, <1>4, <1>6, <2>2, PropertyAssumption, SMTT(30) DEF FieldCount, One
    <3>2. /\ SameButProperties(l1, l2)
          /\ \A g \in MN, v \in Property :
                Recorded(l2, g, v) = Recorded(l1, g, v) - One(g = h /\ v = dmn.addr)
      BY <1>1, <1>3, <2>0, <2>2, <3>1, DeletePropertyResult
    <3> QED  BY <1>6, <3>2, Zenon DEF SameButProperties
  <2> QED  BY <2>1, <2>2
<1> HIDE DEF l2
<1>8. /\ SameButProperties(l, l3)
      /\ \A g \in MN, v \in Property :
            Recorded(l3, g, v) = Recorded(l2, g, v) - One(g = h /\ v = dmn.keyIDOwner)
  <2>0. ListTypeOK(l2) /\ ~Failed(l2)
    BY <1>7, Zenon DEF SameButProperties, Failed
  <2>1. Recorded(l2, h, dmn.keyIDOwner) > 0
    BY <1>1, <1>2, <1>3, <1>4, <1>6, <1>7, PropertyAssumption, SMTT(30) DEF FieldCount, One
  <2>2. /\ SameButProperties(l2, l3)
        /\ \A g \in MN, v \in Property :
              Recorded(l3, g, v) = Recorded(l2, g, v) - One(g = h /\ v = dmn.keyIDOwner)
    BY <1>1, <1>3, <2>0, <2>1, DeletePropertyResult, SMTT(30)
  <2> QED  BY <1>7, <2>2, Zenon DEF SameButProperties
<1> HIDE DEF l3
<1>9. ListTypeOK(l3) /\ ~Failed(l3)
  BY <1>8 DEF SameButProperties, Failed
<1>10. ASSUME dmn.keyIDOperator = Null
       PROVE  r.err = "assert" /\ ListTypeOK(r) /\ r.mnMap = l.mnMap
  <2>1. l4 = Fail(l3, "assert")
    BY <1>9, <1>10, ZenonT(30) DEF DeleteUniqueProperty
  <2>2. l4 = [err |-> "assert", nTotalRegisteredCount |-> l3.nTotalRegisteredCount, mnMap |-> l3.mnMap,
              mnInternalIdMap |-> l3.mnInternalIdMap, mnUniquePropertyMap |-> l3.mnUniquePropertyMap]
    BY <1>9, <2>1, Zenon DEF Fail, ListTypeOK
  <2>3. r = l4
    BY <1>5, <2>2 DEF Failed
  <2>4. ListTypeOK(l4)
    <3> HIDE DEF l4
    <3> QED  BY <1>9, <2>2 DEF ListTypeOK
  <2> QED  BY <1>8, <2>2, <2>3, <2>4, SMTT(30) DEF SameButProperties
<1>11. ASSUME dmn.keyIDOperator # Null
       PROVE  /\ ~Failed(r) /\ WellFormed(r)
              /\ r.mnMap = Del(l.mnMap, h)
              /\ r.nTotalRegisteredCount = l.nTotalRegisteredCount
  <2>1. Recorded(l3, h, dmn.keyIDOperator) > 0
    BY <1>1, <1>2, <1>3, <1>4, <1>6, <1>7, <1>8, <1>11, PropertyAssumption DEF FieldCount, One
  <2>2. /\ SameButProperties(l3, l4)
        /\ \A g \in MN, v \in Property :
              Recorded(l4, g, v) = Recorded(l3, g, v) - One(g = h /\ v = dmn.keyIDOperator)
    BY <1>1, <1>3, <1>9, <1>11, <2>1, DeletePropertyResult, SMTT(30)
  <2> HIDE DEF l4
  <2>3. SameButProperties(l, l4) /\ ~Failed(l4)
    BY <1>8, <1>9, <2>2 DEF SameButProperties, Failed
  <2>4. /\ r = w
        /\ w = [err |-> l.err, nTotalRegisteredCount |-> l.nTotalRegisteredCount, mnMap |-> Del(l.mnMap, h),
                mnInternalIdMap |-> Del(l.mnInternalIdMap, dmn.internalId),
                mnUniquePropertyMap |-> l4.mnUniquePropertyMap]
    <3>1. r = w
      BY <1>5, <2>3
    <3>2. l4.err = l.err /\ l4.mnMap = l.mnMap /\ l4.mnInternalIdMap = l.mnInternalIdMap
          /\ l4.nTotalRegisteredCount = l.nTotalRegisteredCount
      BY <2>3, Zenon DEF SameButProperties
    <3> QED  BY <3>1, <3>2 DEF WithMNs
  <2> HIDE DEF r, w
  <2>5. /\ DOMAIN r.mnMap = DOMAIN l.mnMap \ {h}
        /\ \A g \in DOMAIN r.mnMap : r.mnMap[g] = l.mnMap[g]
        /\ DOMAIN r.mnInternalIdMap = DOMAIN l.mnInternalIdMap \ {dmn.internalId}
        /\ \A i \in DOMAIN r.mnInternalIdMap : r.mnInternalIdMap[i] = l.mnInternalIdMap[i]
    BY <2>4 DEF Del
  <2>6. ListTypeOK(r)
    BY <1>1, <2>3, <2>4, <2>5 DEF ListTypeOK, SameButProperties
  <2>7. IdsExact(r)
    <3>1. ASSUME NEW g \in DOMAIN r.mnMap
          PROVE  /\ r.mnMap[g].internalId \in DOMAIN r.mnInternalIdMap
                 /\ r.mnInternalIdMap[r.mnMap[g].internalId] = g
      <4>1. /\ g \in DOMAIN l.mnMap /\ g # h /\ r.mnMap[g] = l.mnMap[g]
        BY <2>5, Zenon
      <4>2. /\ l.mnMap[g].internalId \in DOMAIN l.mnInternalIdMap
            /\ l.mnInternalIdMap[l.mnMap[g].internalId] = g /\ l.mnInternalIdMap[dmn.internalId] = h
        BY <1>1, <4>1, Zenon DEF IdsExact
      <4> QED  BY <2>5, <4>1, <4>2
    <3>2. ASSUME NEW i \in DOMAIN r.mnInternalIdMap
          PROVE  /\ i < r.nTotalRegisteredCount
                 /\ r.mnInternalIdMap[i] \in DOMAIN r.mnMap
                 /\ r.mnMap[r.mnInternalIdMap[i]].internalId = i
      <4>1. i \in DOMAIN l.mnInternalIdMap /\ i # dmn.internalId /\ r.mnInternalIdMap[i] = l.mnInternalIdMap[i]
        BY <2>5, Zenon
      <4>2. /\ i < l.nTotalRegisteredCount /\ l.mnInternalIdMap[i] \in DOMAIN l.mnMap
            /\ l.mnMap[l.mnInternalIdMap[i]].internalId = i
        BY <1>1, <4>1, Zenon DEF IdsExact
      <4>3. l.mnInternalIdMap[i] # h
        BY <4>1, <4>2
      <4> QED  BY <2>4, <2>5, <4>1, <4>2, <4>3
    <3> QED  BY <3>1, <3>2 DEF IdsExact
  <2>8. PropertiesExact(r)
    <3> SUFFICES ASSUME NEW g \in MN, NEW v \in Property
                 PROVE  Recorded(r, g, v) = Holds(r, g, v)
      BY Zenon DEF PropertiesExact
    <3>1. Recorded(r, g, v) = Recorded(l4, g, v)
      BY <2>4, Zenon DEF Recorded, HasUniqueProperty, UniquePropertyMN, RefCount
    <3>2. Recorded(l4, g, v) = Recorded(l, g, v) - One(g = h /\ v = dmn.collateral) - One(g = h /\ v = dmn.addr)
                      - One(g = h /\ v = dmn.keyIDOwner) - One(g = h /\ v = dmn.keyIDOperator)
      BY <1>4, <1>6, <1>7, <1>8, <2>2 DEF One
    <3>3. CASE g = h
      <4>1. Holds(r, g, v) = 0
        BY <2>5, <3>3, Zenon DEF Holds, HasMN
      <4> QED  BY <1>4, <3>1, <3>2, <3>3, <4>1 DEF FieldCount, One
    <3>4. CASE g # h
      <4>1. Holds(r, g, v) = Holds(l, g, v)
        BY <2>5, <3>4 DEF Holds, HasMN
      <4> QED  BY <1>4, <3>1, <3>2, <3>4, <4>1 DEF One
    <3> QED  BY <3>3, <3>4
  <2> QED  BY <2>3, <2>4, <2>6, <2>7, <2>8, Zenon DEF WellFormed, Failed, SameButProperties
<1> QED  BY <1>10, <1>11

=============================================================================
