----------------------- MODULE DeterministicMNsProofs -----------------------
(***************************************************************************)
(* The safety properties of DeterministicMNs, for any number of            *)
(* masternodes, addresses, keys, transactions and blocks.                  *)
(***************************************************************************)
EXTENDS DeterministicMNs, DeterministicMNListProofs

\* The conjuncts of the inductive invariant that speak of one list: base is the list of
\* the block at height n, l the list of that block or the one being built on it.

\* What a masternode keeps while a block is built on base.
Carried(base, n, l) ==
    \A h \in DOMAIN l.mnMap :
       LET dmn == l.mnMap[h]
       IN  IF h \in DOMAIN base.mnMap
           THEN LET old == base.mnMap[h]
                IN  /\ dmn.internalId = old.internalId
                    /\ dmn.nRegisteredHeight = old.nRegisteredHeight
                    /\ dmn.nLastPaidHeight = old.nLastPaidHeight
                    /\ dmn.nPoSeRevivedHeight \in {old.nPoSeRevivedHeight, n + 1}
           ELSE /\ dmn.nRegisteredHeight = n + 1
                /\ dmn.nLastPaidHeight = 0
                /\ dmn.nPoSeRevivedHeight = -1

ConfirmedBy(l, n) ==
    \A h \in DOMAIN l.mnMap :
       LET dmn == l.mnMap[h]
           at == dmn.nRegisteredHeight + MinConf
       IN  IF n > at THEN dmn.confirmed = at ELSE dmn.confirmed = -1

HasService(dmn) == dmn.nPoSeBanHeight = -1 => dmn.addr # Null /\ dmn.keyIDOperator # Null

Serviced(l) == \A h \in DOMAIN l.mnMap : HasService(l.mnMap[h])

Funded(l, C) == \A h \in DOMAIN l.mnMap : l.mnMap[h].collateral \in C

HeightsBy(l, n) ==
    \A h \in DOMAIN l.mnMap :
       /\ l.mnMap[h].nRegisteredHeight <= n
       /\ l.mnMap[h].nLastPaidHeight <= n
       /\ l.mnMap[h].nPoSeRevivedHeight <= n

Building(base, n, l, C) ==
    /\ WellFormed(l)
    /\ Carried(base, n, l)
    /\ ConfirmedBy(l, n + 1)
    /\ Serviced(l)
    /\ Funded(l, C)

\* What any step of building a block may return.
Outcome(base, n, l, C) ==
    /\ ListTypeOK(l)
    /\ l.err # "throw"
    /\ l.err = "assert" => \E h \in DOMAIN l.mnMap : l.mnMap[h].keyIDOperator = Null
    /\ ~Failed(l) => Building(base, n, l, C)

\* A rejected list is an outcome.
LEMMA RejectOutcome ==
    ASSUME NEW base, NEW n, NEW l, NEW C, ListTypeOK(l)
    PROVE  Outcome(base, n, Fail(l, "reject"), C)
<1> DEFINE r == [err |-> "reject", nTotalRegisteredCount |-> l.nTotalRegisteredCount, mnMap |-> l.mnMap,
                 mnInternalIdMap |-> l.mnInternalIdMap, mnUniquePropertyMap |-> l.mnUniquePropertyMap]
<1>1. Fail(l, "reject") = r
  BY DEF Fail, ListTypeOK
<1>2. ListTypeOK(r)
  BY DEF ListTypeOK
<1>3. r.err = "reject"
  OBVIOUS
<1> QED  BY <1>1, <1>2, <1>3 DEF Outcome, Failed

\* A state change that takes nothing from others and keeps what a block must carry.
LEMMA UpdateOutcome ==
    ASSUME NEW base, NEW n, NEW l, NEW C, Building(base, n, l, C), ~Failed(l),
           NEW h \in DOMAIN l.mnMap, NEW new \in DMN,
           new.internalId = l.mnMap[h].internalId, new.collateral = l.mnMap[h].collateral,
           new.keyIDOwner = l.mnMap[h].keyIDOwner,
           new.nRegisteredHeight = l.mnMap[h].nRegisteredHeight,
           new.nLastPaidHeight = l.mnMap[h].nLastPaidHeight,
           new.confirmed = l.mnMap[h].confirmed,
           \/ new.nPoSeRevivedHeight = l.mnMap[h].nPoSeRevivedHeight
           \/ new.nPoSeRevivedHeight = n + 1 /\ h \in DOMAIN base.mnMap,
           HasService(new),
           ~OwnedByOther(l, h, new.addr), ~OwnedByOther(l, h, new.keyIDOperator)
    PROVE  Outcome(base, n, UpdateMN(l, h, new), C)
<1> DEFINE r == UpdateMN(l, h, new)
<1>1. ~Failed(r) /\ WellFormed(r) /\ r.mnMap = Put(l.mnMap, h, new)
  BY UpdateMNResult DEF Building
<1> HIDE DEF r
<1>2. /\ DOMAIN r.mnMap = DOMAIN l.mnMap
      /\ r.mnMap[h] = new
      /\ \A g \in DOMAIN l.mnMap \ {h} : r.mnMap[g] = l.mnMap[g]
  BY <1>1, Zenon DEF Put
<1>3. Carried(base, n, r)
  BY <1>2 DEF Building, Carried
<1>4. ConfirmedBy(r, n + 1)
  BY <1>2 DEF Building, ConfirmedBy
<1>5. Serviced(r) /\ Funded(r, C)
  BY <1>2 DEF Building, Serviced, Funded
<1> QED  BY <1>1, <1>3, <1>4, <1>5 DEF Outcome, Building, WellFormed, Failed, r

\* Removal of the owner of a collateral; the assertion only fails for a revoked one.
LEMMA RemoveOutcome ==
    ASSUME NEW base, NEW n, NEW l, NEW C, Building(base, n, l, C), ~Failed(l), NEW c \in Outpoint
    PROVE  LET r == RemoveByCollateral(l, c)
           IN  /\ Outcome(base, n, r, C)
               /\ ~Failed(r) => /\ Funded(r, C \ {c})
                                /\ ~HasUniqueProperty(r, c)
                                /\ DOMAIN r.mnMap \subseteq DOMAIN l.mnMap
<1> DEFINE r == RemoveByCollateral(l, c)
           o == UniquePropertyMN(l, c)
<1>0. ListTypeOK(l) /\ WellFormed(l) /\ c \in Property
  BY DEF Building, WellFormed, Property
<1>1. ASSUME ~HasUniqueProperty(l, c)
      PROVE  /\ r = l
             /\ \A h \in DOMAIN l.mnMap : l.mnMap[h].collateral # c
  <2>1. \A g \in MN : Recorded(l, g, c) = 0
    BY <1>1 DEF Recorded
  <2>2. ASSUME NEW h \in DOMAIN l.mnMap  PROVE l.mnMap[h].collateral # c
    BY <1>0, <2>1, HeldIsOwned, PropertyAssumption
  <2> QED  BY <1>1, <2>2 DEF RemoveByCollateral
<1>2. CASE ~HasUniqueProperty(l, c)
  BY <1>0, <1>1, <1>2 DEF Outcome, Building, Funded, Failed
<1>3. CASE HasUniqueProperty(l, c)
  <2>1. r = RemoveMN(l, o) /\ o \in MN /\ Recorded(l, o, c) > 0
    BY <1>0, <1>3, OwnerRecorded DEF RemoveByCollateral
  <2>2. o \in DOMAIN l.mnMap
    BY <1>0, <2>1 DEF WellFormed, PropertiesExact, Holds, HasMN
  <2>3. CASE l.mnMap[o].keyIDOperator = Null
    <3>1. r.err = "assert" /\ ListTypeOK(r) /\ r.mnMap = l.mnMap
      BY <1>0, <2>1, <2>2, <2>3, RemoveMNResult
    <3> QED  BY <2>2, <2>3, <3>1 DEF Outcome, Failed
  <2>4. CASE l.mnMap[o].keyIDOperator # Null
    <3>1. ~Failed(r) /\ WellFormed(r) /\ r.mnMap = Del(l.mnMap, o)
      BY <1>0, <2>1, <2>2, <2>4, RemoveMNResult
    <3> HIDE DEF r
    <3>2. DOMAIN r.mnMap = DOMAIN l.mnMap \ {o} /\ \A g \in DOMAIN r.mnMap : r.mnMap[g] = l.mnMap[g]
      BY <3>1, Zenon DEF Del
    <3>3. Carried(base, n, r) /\ ConfirmedBy(r, n + 1) /\ Serviced(r) /\ Funded(r, C)
      BY <3>2 DEF Building, Carried, ConfirmedBy, Serviced, Funded
    <3>4. \A g \in DOMAIN l.mnMap \ {o} : l.mnMap[g].collateral # c
      <4> SUFFICES ASSUME NEW g \in DOMAIN l.mnMap, g # o, l.mnMap[g].collateral = c
                   PROVE  FALSE
        OBVIOUS
      <4>1. g \in MN /\ ~OwnedByOther(l, g, c)
        BY <1>0, HeldIsOwned
      <4> QED  BY <1>3, <4>1 DEF OwnedByOther
    <3>5. Funded(r, C \ {c})
      BY <3>2, <3>3, <3>4 DEF Funded
    <3>6. ~HasUniqueProperty(r, c)
      <4> SUFFICES ASSUME HasUniqueProperty(r, c) PROVE FALSE
        OBVIOUS
      <4> DEFINE p == UniquePropertyMN(r, c)
      <4>1. p \in MN /\ Recorded(r, p, c) > 0
        BY <3>1, OwnerRecorded DEF WellFormed
      <4>2. Holds(r, p, c) > 0
        BY <1>0, <3>1, <4>1 DEF WellFormed, PropertiesExact
      <4>3. p \in DOMAIN r.mnMap
        BY <4>2 DEF Holds, HasMN
      <4>4. p \in DOMAIN l.mnMap /\ p # o /\ Holds(l, p, c) > 0
        BY <3>2, <4>2, <4>3 DEF Holds, HasMN
      <4>5. Recorded(l, p, c) > 0
        BY <1>0, <4>1, <4>4 DEF WellFormed, PropertiesExact
      <4> QED  BY <1>0, <4>1, <4>4, <4>5, RecordedOwner
    <3> QED  BY <3>1, <3>2, <3>3, <3>5, <3>6 DEF Outcome, Building, WellFormed, Failed, r
  <2> QED  BY <2>3, <2>4
<1> QED  BY <1>2, <1>3

-----------------------------------------------------------------------------
(* The transactions.                                                       *)

\* ResetOperatorFields with BanIfNotBanned.
LEMMA ResetAndBanResult ==
    ASSUME height \in Nat, NEW dmn \in DMN
    PROVE  LET new == ResetAndBan(dmn)
           IN  /\ new \in DMN
               /\ new.internalId = dmn.internalId /\ new.collateral = dmn.collateral
               /\ new.keyIDOwner = dmn.keyIDOwner
               /\ new.nRegisteredHeight = dmn.nRegisteredHeight
               /\ new.nLastPaidHeight = dmn.nLastPaidHeight
               /\ new.confirmed = dmn.confirmed
               /\ new.nPoSeRevivedHeight = dmn.nPoSeRevivedHeight
               /\ new.nPoSeBanHeight # -1
               /\ new.addr = Null /\ new.keyIDOperator = Null
<1> DEFINE at == IF dmn.nPoSeBanHeight = -1 THEN height + 1 ELSE dmn.nPoSeBanHeight
           keyless == [dmn EXCEPT !.keyIDOperator = Null]
           silent == [keyless EXCEPT !.addr = Null]
           new == [silent EXCEPT !.nPoSeBanHeight = at]
<1>1. /\ at \in Nat
      /\ dmn.nPoSeBanHeight \in Nat \cup {-1}
  BY DEF DMN
<1>2. ResetAndBan(dmn) = new
  BY DEF ResetAndBan, nHeight, DMN
<1> HIDE DEF at
<1>3. keyless \in DMN
  BY DEF DMN
<1>4. /\ keyless.internalId = dmn.internalId /\ keyless.collateral = dmn.collateral
      /\ keyless.keyIDOwner = dmn.keyIDOwner /\ keyless.keyIDOperator = Null
      /\ keyless.nRegisteredHeight = dmn.nRegisteredHeight /\ keyless.nLastPaidHeight = dmn.nLastPaidHeight
      /\ keyless.confirmed = dmn.confirmed /\ keyless.nPoSeRevivedHeight = dmn.nPoSeRevivedHeight
  BY DEF DMN
<1> HIDE DEF keyless
<1>5. silent \in DMN
  BY <1>3 DEF DMN
<1>6. /\ silent.internalId = keyless.internalId /\ silent.collateral = keyless.collateral
      /\ silent.keyIDOwner = keyless.keyIDOwner /\ silent.keyIDOperator = keyless.keyIDOperator
      /\ silent.nRegisteredHeight = keyless.nRegisteredHeight
      /\ silent.nLastPaidHeight = keyless.nLastPaidHeight
      /\ silent.confirmed = keyless.confirmed /\ silent.nPoSeRevivedHeight = keyless.nPoSeRevivedHeight
      /\ silent.addr = Null
  BY <1>3 DEF DMN
<1> HIDE DEF silent
<1>7. new \in DMN
  BY <1>1, <1>5 DEF DMN
<1>8. /\ new.internalId = silent.internalId /\ new.collateral = silent.collateral
      /\ new.keyIDOwner = silent.keyIDOwner /\ new.keyIDOperator = silent.keyIDOperator
      /\ new.nRegisteredHeight = silent.nRegisteredHeight
      /\ new.nLastPaidHeight = silent.nLastPaidHeight
      /\ new.confirmed = silent.confirmed /\ new.nPoSeRevivedHeight = silent.nPoSeRevivedHeight
      /\ new.addr = silent.addr /\ new.nPoSeBanHeight = at
  BY <1>5 DEF DMN
<1> HIDE DEF new
<1> QED  BY <1>1, <1>2, <1>4, <1>6, <1>7, <1>8

\* PROREG.
LEMMA RegisterOutcome ==
    ASSUME height \in Nat, NEW l, NEW C, Building(list, height, l, C), ~Failed(l),
           NEW h \in MN, ~HasMN(list, h), ~HasMN(l, h),
           NEW c \in Outpoint, NEW addr \in Service \cup {Null}, NEW owner \in KeyID, NEW operator \in KeyID
    PROVE  Outcome(list, height, Register(l, h, c, addr, owner, operator), C \cup {c})
<1> DEFINE r == RemoveByCollateral(l, c)
           dmn == NewMN(r, c, addr, owner, operator)
           a == AddMN(r, h, dmn)
<1>1. /\ Outcome(list, height, r, C)
      /\ ~Failed(r) => ~HasUniqueProperty(r, c) /\ DOMAIN r.mnMap \subseteq DOMAIN l.mnMap
  BY RemoveOutcome, Zenon
<1> HIDE DEF r
<1>2. CASE Failed(r)
  <2>1. Outcome(list, height, r, C \cup {c})
    BY <1>1, <1>2, ZenonT(30) DEF Outcome
  <2> QED  BY <1>2, <2>1 DEF Register, r
<1>3. CASE /\ ~Failed(r)
           /\ HasUniqueProperty(r, addr) \/ HasUniqueProperty(r, owner) \/ HasUniqueProperty(r, operator)
  BY <1>1, <1>3, RejectOutcome DEF Register, r, Outcome
<1>4. CASE ~(Failed(r) \/ HasUniqueProperty(r, addr) \/ HasUniqueProperty(r, owner) \/ HasUniqueProperty(r, operator))
  <2>1. Building(list, height, r, C) /\ WellFormed(r) /\ r.nTotalRegisteredCount \in Nat
    BY <1>1, <1>4, ZenonT(30) DEF Outcome, Building, WellFormed, ListTypeOK
  <2>2. /\ dmn \in DMN
        /\ dmn.internalId = r.nTotalRegisteredCount /\ dmn.collateral = c /\ dmn.addr = addr
        /\ dmn.keyIDOwner = owner /\ dmn.keyIDOperator = operator
        /\ dmn.nRegisteredHeight = height + 1 /\ dmn.nLastPaidHeight = 0
        /\ dmn.nPoSeRevivedHeight = -1 /\ dmn.confirmed = -1
        /\ dmn.nPoSeBanHeight = IF addr = Null THEN height + 1 ELSE -1
    BY <2>1, SMTT(30) DEF NewMN, DMN, nHeight
  <2> HIDE DEF dmn
  <2>3. ~HasMN(r, h) /\ operator # Null
    BY <1>1, <1>4, PropertyAssumption DEF HasMN
  <2>4. ~Failed(a) /\ WellFormed(a) /\ a.mnMap = Put(r.mnMap, h, dmn)
    BY <1>1, <1>4, <2>1, <2>2, <2>3, AddMNResult
  <2> HIDE DEF a
  <2>5. /\ DOMAIN a.mnMap = DOMAIN r.mnMap \cup {h}
        /\ a.mnMap[h] = dmn
        /\ \A g \in DOMAIN r.mnMap : a.mnMap[g] = r.mnMap[g]
    BY <2>3, <2>4, Zenon DEF Put, HasMN
  <2>6. Carried(list, height, a)
    BY <2>1, <2>2, <2>5, ZenonT(30) DEF Building, Carried, HasMN
  <2>7. ConfirmedBy(a, height + 1)
    <3>1. ~(height + 1 > dmn.nRegisteredHeight + MinConf)
      BY <2>2, MinConfAssumption
    <3> QED  BY <2>1, <2>2, <2>5, <3>1 DEF Building, ConfirmedBy
  <2>8. Serviced(a) /\ Funded(a, C \cup {c})
    <3>1. HasService(dmn)
      BY <2>2, <2>3 DEF HasService
    <3> QED  BY <2>1, <2>2, <2>5, <3>1 DEF Building, Serviced, Funded
  <2>9. Outcome(list, height, a, C \cup {c})
    BY <2>4, <2>6, <2>7, <2>8 DEF Outcome, Building, WellFormed, Failed
  <2> QED  BY <1>4, <2>9, Zenon DEF Register, r, a, dmn
<1> QED  BY <1>2, <1>3, <1>4

\* PROUPSERV.
LEMMA ServiceOutcome ==
    ASSUME height \in Nat, NEW l, NEW C, Building(list, height, l, C), ~Failed(l),
           NEW h \in MN, HasMN(list, h), NEW addr \in Service
    PROVE  Outcome(list, height, UpdateService(l, h, addr), C)
<1>1. CASE OwnedByOther(l, h, addr) \/ ~HasMN(l, h)
  BY <1>1, RejectOutcome, Zenon DEF UpdateService, Building, WellFormed
<1>2. CASE ~OwnedByOther(l, h, addr) /\ HasMN(l, h)
  <2> DEFINE dmn == l.mnMap[h]
             moved == [dmn EXCEPT !.addr = addr]
             new == IF moved.nPoSeBanHeight = -1 \/ moved.keyIDOperator = Null THEN moved
                    ELSE [moved EXCEPT !.nPoSeBanHeight = -1, !.nPoSeRevivedHeight = nHeight]
  <2>1. h \in DOMAIN l.mnMap /\ dmn \in DMN /\ HasService(dmn) /\ WellFormed(l) /\ addr # Null
    BY <1>2, PropertyAssumption DEF HasMN, Building, WellFormed, ListTypeOK, Serviced
  <2>2. /\ new \in DMN
        /\ new.internalId = dmn.internalId /\ new.collateral = dmn.collateral
        /\ new.keyIDOwner = dmn.keyIDOwner /\ new.keyIDOperator = dmn.keyIDOperator
        /\ new.nRegisteredHeight = dmn.nRegisteredHeight /\ new.nLastPaidHeight = dmn.nLastPaidHeight
        /\ new.confirmed = dmn.confirmed /\ new.addr = addr
        /\ \/ new.nPoSeRevivedHeight = dmn.nPoSeRevivedHeight /\ new.nPoSeBanHeight = dmn.nPoSeBanHeight
           \/ new.nPoSeRevivedHeight = height + 1 /\ dmn.keyIDOperator # Null
    <3>1. /\ moved \in DMN
          /\ moved.internalId = dmn.internalId /\ moved.collateral = dmn.collateral
          /\ moved.keyIDOwner = dmn.keyIDOwner /\ moved.keyIDOperator = dmn.keyIDOperator
          /\ moved.nRegisteredHeight = dmn.nRegisteredHeight
          /\ moved.nLastPaidHeight = dmn.nLastPaidHeight
          /\ moved.confirmed = dmn.confirmed /\ moved.addr = addr
          /\ moved.nPoSeRevivedHeight = dmn.nPoSeRevivedHeight
          /\ moved.nPoSeBanHeight = dmn.nPoSeBanHeight
      BY <2>1 DEF DMN
    <3> HIDE DEF moved
    <3>2. CASE moved.nPoSeBanHeight = -1 \/ moved.keyIDOperator = Null
      BY <3>1, <3>2, Zenon
    <3>3. CASE ~(moved.nPoSeBanHeight = -1 \/ moved.keyIDOperator = Null)
      <4>1. new = [moved EXCEPT !.nPoSeBanHeight = -1, !.nPoSeRevivedHeight = height + 1]
        BY <3>3 DEF nHeight
      <4> HIDE DEF new
      <4>2. new \in DMN
        <5> DEFINE unbanned == [moved EXCEPT !.nPoSeBanHeight = -1]
        <5>1. unbanned \in DMN
          BY <3>1 DEF DMN
        <5>2. new = [unbanned EXCEPT !.nPoSeRevivedHeight = height + 1]
          BY <4>1
        <5> HIDE DEF unbanned
        <5> QED  BY <5>1, <5>2 DEF DMN
      <4>3. /\ new.nPoSeRevivedHeight = height + 1
            /\ new.internalId = moved.internalId /\ new.collateral = moved.collateral
            /\ new.keyIDOwner = moved.keyIDOwner /\ new.keyIDOperator = moved.keyIDOperator
            /\ new.nRegisteredHeight = moved.nRegisteredHeight
            /\ new.nLastPaidHeight = moved.nLastPaidHeight
            /\ new.confirmed = moved.confirmed /\ new.addr = moved.addr
        BY <3>1, <4>1 DEF DMN
      <4> QED  BY <3>1, <3>3, <4>2, <4>3
    <3> QED  BY <3>2, <3>3
  <2>3. UpdateService(l, h, addr) = UpdateMN(l, h, new)
    BY <1>2, Zenon DEF UpdateService
  <2> HIDE DEF new
  <2>4. HasService(new)
    BY <2>1, <2>2, Zenon DEF HasService
  <2>5. ~OwnedByOther(l, h, new.keyIDOperator)
    BY <2>1, <2>2, HeldIsOwned
  <2> QED  BY <1>2, <2>1, <2>2, <2>3, <2>4, <2>5, UpdateOutcome, Zenon DEF HasMN
<1> QED  BY <1>1, <1>2

\* PROUPREV.
LEMMA RevokeOutcome ==
    ASSUME height \in Nat, NEW l, NEW C, Building(list, height, l, C), ~Failed(l), NEW h \in MN
    PROVE  Outcome(list, height, Revoke(l, h), C)
<1>1. CASE ~HasMN(l, h)
  BY <1>1, RejectOutcome, Zenon DEF Revoke, Building, WellFormed
<1>2. CASE HasMN(l, h)
  <2> DEFINE dmn == l.mnMap[h]
             new == ResetAndBan(dmn)
  <2>1. h \in DOMAIN l.mnMap /\ dmn \in DMN /\ WellFormed(l)
    BY <1>2, Zenon DEF HasMN, Building, WellFormed, ListTypeOK
  <2>2. /\ new \in DMN
        /\ new.internalId = dmn.internalId /\ new.collateral = dmn.collateral
        /\ new.keyIDOwner = dmn.keyIDOwner
        /\ new.nRegisteredHeight = dmn.nRegisteredHeight /\ new.nLastPaidHeight = dmn.nLastPaidHeight
        /\ new.confirmed = dmn.confirmed /\ new.nPoSeRevivedHeight = dmn.nPoSeRevivedHeight
        /\ new.nPoSeBanHeight # -1 /\ new.addr = Null /\ new.keyIDOperator = Null
    BY <2>1, ResetAndBanResult
  <2>3. Revoke(l, h) = UpdateMN(l, h, new)
    BY <1>2 DEF Revoke
  <2> HIDE DEF new
  <2>4. HasService(new) /\ ~OwnedByOther(l, h, Null)
    BY <2>1, <2>2, PropertyAssumption
       DEF HasService, WellFormed, ListTypeOK, OwnedByOther, HasUniqueProperty, Property
  <2> QED  BY <2>1, <2>2, <2>3, <2>4, UpdateOutcome
<1> QED  BY <1>1, <1>2

\* PROUPREG.
LEMMA RegistrarOutcome ==
    ASSUME height \in Nat, NEW l, NEW C, Building(list, height, l, C), ~Failed(l),
           NEW h \in MN, NEW operator \in KeyID
    PROVE  Outcome(list, height, UpdateRegistrar(l, h, operator), C)
<1>1. CASE ~HasMN(l, h) \/ OwnedByOther(l, h, operator)
  BY <1>1, RejectOutcome, Zenon DEF UpdateRegistrar, Building, WellFormed
<1>2. CASE HasMN(l, h) /\ ~OwnedByOther(l, h, operator)
  <2> DEFINE dmn == l.mnMap[h]
             reset == ResetAndBan(dmn)
             changed == [reset EXCEPT !.keyIDOperator = operator]
             new == IF dmn.keyIDOperator = operator THEN dmn ELSE changed
  <2>1. h \in DOMAIN l.mnMap /\ dmn \in DMN /\ HasService(dmn) /\ WellFormed(l)
    BY <1>2, Zenon DEF HasMN, Building, WellFormed, ListTypeOK, Serviced
  <2>2. /\ reset \in DMN
        /\ reset.internalId = dmn.internalId /\ reset.collateral = dmn.collateral
        /\ reset.keyIDOwner = dmn.keyIDOwner
        /\ reset.nRegisteredHeight = dmn.nRegisteredHeight /\ reset.nLastPaidHeight = dmn.nLastPaidHeight
        /\ reset.confirmed = dmn.confirmed /\ reset.nPoSeRevivedHeight = dmn.nPoSeRevivedHeight
        /\ reset.nPoSeBanHeight # -1 /\ reset.addr = Null
    BY <2>1, ResetAndBanResult
  <2>3. UpdateRegistrar(l, h, operator) = UpdateMN(l, h, new)
    BY <1>2 DEF UpdateRegistrar
  <2> HIDE DEF reset
  <2>4. /\ changed \in DMN
        /\ changed.internalId = reset.internalId /\ changed.collateral = reset.collateral
        /\ changed.keyIDOwner = reset.keyIDOwner /\ changed.keyIDOperator = operator
        /\ changed.nRegisteredHeight = reset.nRegisteredHeight
        /\ changed.nLastPaidHeight = reset.nLastPaidHeight
        /\ changed.confirmed = reset.confirmed /\ changed.nPoSeRevivedHeight = reset.nPoSeRevivedHeight
        /\ changed.nPoSeBanHeight = reset.nPoSeBanHeight /\ changed.addr = reset.addr
    BY <2>2, Zenon DEF DMN
  <2> HIDE DEF changed
  <2>5. /\ new \in DMN
        /\ new.internalId = dmn.internalId /\ new.collateral = dmn.collateral
        /\ new.keyIDOwner = dmn.keyIDOwner /\ new.keyIDOperator = operator
        /\ new.nRegisteredHeight = dmn.nRegisteredHeight /\ new.nLastPaidHeight = dmn.nLastPaidHeight
        /\ new.confirmed = dmn.confirmed /\ new.nPoSeRevivedHeight = dmn.nPoSeRevivedHeight
        /\ HasService(new)
        /\ new.addr \in {dmn.addr, Null}
    BY <2>1, <2>2, <2>4 DEF HasService
  <2> HIDE DEF new
  <2>6. ~OwnedByOther(l, h, Null) /\ ~OwnedByOther(l, h, dmn.addr)
    BY <2>1, HeldIsOwned, PropertyAssumption
       DEF WellFormed, ListTypeOK, OwnedByOther, HasUniqueProperty, Property
  <2> QED  BY <1>2, <2>1, <2>3, <2>5, <2>6, UpdateOutcome, Zenon
<1> QED  BY <1>1, <1>2

-----------------------------------------------------------------------------
(* The inductive invariant.                                                *)

LastPaid(l, h) == CompareByLastPaidGetHeight(l.mnMap[h])

\* Whoever is owed a payment comes before the masternode that was paid.
OwedFirst(l, due) ==
    \A m \in MN : \A w \in due[m] :
       /\ w \in ValidMNs(l)
       /\ HasMN(l, m) => LastPaid(l, w) < LastPaid(l, m)

ChainInv ==
    /\ WellFormed(list)
    /\ ~Failed(list)
    /\ ConfirmedBy(list, height)
    /\ Serviced(list)
    /\ Funded(list, utxo)
    /\ HeightsBy(list, height)
    /\ OwedFirst(list, owed)

BlockInv ==
    /\ phase = "idle" => newList = EmptyList
    /\ phase # "idle" => Outcome(list, height, newList, coins \cup spent)
    /\ phase # "idle" /\ ~fJustCheck => height < MaxHeight
    /\ phase = "txs" => utxo \subseteq coins \cup spent

IInv == TypeOK /\ ChainInv /\ BlockInv

\* The empty list.
LEMMA EmptyListWellFormed == WellFormed(EmptyList) /\ ~Failed(EmptyList) /\ DOMAIN EmptyList.mnMap = {}
<1>1. /\ DOMAIN EmptyList.mnMap = {} /\ DOMAIN EmptyList.mnInternalIdMap = {}
      /\ DOMAIN EmptyList.mnUniquePropertyMap = {}
      /\ EmptyList.err = "ok" /\ EmptyList.nTotalRegisteredCount = 0
  BY DEF EmptyList, EmptyMap
<1>2. ListTypeOK(EmptyList)
  BY <1>1 DEF ListTypeOK, EmptyList
<1>3. PropertiesExact(EmptyList)
  BY <1>1 DEF PropertiesExact, Recorded, Holds, HasMN, HasUniqueProperty
<1>4. IdsExact(EmptyList)
  BY <1>1 DEF IdsExact
<1> QED  BY <1>1, <1>2, <1>3, <1>4 DEF WellFormed, Failed

LEMMA InitInv == Init => IInv
<1> SUFFICES ASSUME Init PROVE IInv
  OBVIOUS
<1>1. TypeOK
  <2>1. height \in 0..MaxHeight /\ nTxs \in Nat
    BY BoundAssumption DEF Init
  <2>2. ListTypeOK(list) /\ ListTypeOK(newList)
    BY EmptyListWellFormed DEF Init, WellFormed
  <2>3. owed \in [MN -> SUBSET MN]
    BY DEF Init
  <2>4. /\ utxo \subseteq Outpoint
        /\ coins \subseteq Outpoint /\ spent \subseteq Outpoint
        /\ phase \in {"idle", "txs", "spends"}
    BY DEF Init
  <2>5. fJustCheck \in BOOLEAN
    BY Zenon DEF Init
  <2> QED  BY <2>1, <2>2, <2>3, <2>4, <2>5 DEF TypeOK
<1>2. ChainInv
  BY EmptyListWellFormed
     DEF Init, ChainInv, ConfirmedBy, Serviced, Funded, HeightsBy, OwedFirst
<1>3. BlockInv
  BY DEF Init, BlockInv
<1> QED  BY <1>1, <1>2, <1>3 DEF IInv

\* The confirmation loop at the beginning of a block.
LEMMA ConfirmOutcome ==
    ASSUME height \in Nat, ChainInv
    PROVE  Outcome(list, height, Confirm(list), utxo)
<1> DEFINE mns == [h \in DOMAIN list.mnMap |->
                     IF IsDue(list.mnMap[h]) THEN [list.mnMap[h] EXCEPT !.confirmed = height] ELSE list.mnMap[h]]
           r == [err |-> list.err, nTotalRegisteredCount |-> list.nTotalRegisteredCount, mnMap |-> mns,
                 mnInternalIdMap |-> list.mnInternalIdMap, mnUniquePropertyMap |-> list.mnUniquePropertyMap]
<1>1. WellFormed(list) /\ ListTypeOK(list) /\ ~Failed(list)
  BY DEF ChainInv, WellFormed
<1>2. \A h \in DOMAIN list.mnMap : ~OwnedByOther(list, h, list.mnMap[h].addr)
  BY <1>1, HeldIsOwned
<1>3. Confirm(list) = r
  BY <1>1, <1>2, Zenon DEF Confirm, ListTypeOK
<1>4. ASSUME NEW h \in DOMAIN list.mnMap
      PROVE  /\ mns[h] \in DMN
             /\ mns[h].internalId = list.mnMap[h].internalId
             /\ mns[h].collateral = list.mnMap[h].collateral
             /\ mns[h].addr = list.mnMap[h].addr
             /\ mns[h].keyIDOwner = list.mnMap[h].keyIDOwner
             /\ mns[h].keyIDOperator = list.mnMap[h].keyIDOperator
             /\ mns[h].nRegisteredHeight = list.mnMap[h].nRegisteredHeight
             /\ mns[h].nLastPaidHeight = list.mnMap[h].nLastPaidHeight
             /\ mns[h].nPoSeRevivedHeight = list.mnMap[h].nPoSeRevivedHeight
             /\ mns[h].nPoSeBanHeight = list.mnMap[h].nPoSeBanHeight
             /\ mns[h].confirmed = IF IsDue(list.mnMap[h]) THEN height ELSE list.mnMap[h].confirmed
  <2> DEFINE dmn == list.mnMap[h]
  <2>1. dmn \in DMN
    BY <1>1 DEF ListTypeOK
  <2>2. CASE IsDue(dmn)
    <3>1. mns[h] = [dmn EXCEPT !.confirmed = height]
      BY <2>2
    <3> HIDE DEF mns, dmn
    <3>2. mns[h] \in DMN
      BY <2>1, <3>1 DEF DMN
    <3>3. /\ mns[h].internalId = dmn.internalId /\ mns[h].collateral = dmn.collateral
          /\ mns[h].addr = dmn.addr /\ mns[h].keyIDOwner = dmn.keyIDOwner
          /\ mns[h].keyIDOperator = dmn.keyIDOperator
          /\ mns[h].nRegisteredHeight = dmn.nRegisteredHeight
          /\ mns[h].nLastPaidHeight = dmn.nLastPaidHeight
          /\ mns[h].nPoSeRevivedHeight = dmn.nPoSeRevivedHeight
          /\ mns[h].nPoSeBanHeight = dmn.nPoSeBanHeight /\ mns[h].confirmed = height
      BY <2>1, <3>1 DEF DMN
    <3> QED  BY <2>2, <3>2, <3>3 DEF dmn
  <2>3. CASE ~IsDue(dmn)
    BY <2>1, <2>3
  <2> QED  BY <2>2, <2>3
<1>5. r.mnMap = mns /\ DOMAIN mns = DOMAIN list.mnMap
  BY Zenon
<1> HIDE DEF mns
<1>6. ListTypeOK(r)
  BY <1>1, <1>4, <1>5, ZenonT(30) DEF ListTypeOK
<1>7. IdsExact(r)
  BY <1>1, <1>4, <1>5, SMTT(30) DEF WellFormed, IdsExact
<1>8. PropertiesExact(r)
  <2> SUFFICES ASSUME NEW g \in MN, NEW v \in Property
               PROVE  Recorded(r, g, v) = Holds(r, g, v)
    BY DEF PropertiesExact
  <2>1. Recorded(r, g, v) = Recorded(list, g, v)
    BY Zenon DEF Recorded, HasUniqueProperty, UniquePropertyMN, RefCount
  <2>2. Holds(r, g, v) = Holds(list, g, v)
    BY <1>4, <1>5, ZenonT(30) DEF Holds, HasMN, FieldCount
  <2> QED  BY <1>1, <2>1, <2>2 DEF WellFormed, PropertiesExact
<1>9. Carried(list, height, r)
  BY <1>4, <1>5 DEF Carried
<1>10. ConfirmedBy(r, height + 1)
  <2> SUFFICES ASSUME NEW h \in DOMAIN list.mnMap
               PROVE  LET at == list.mnMap[h].nRegisteredHeight + MinConf
                      IN  IF height + 1 > at THEN mns[h].confirmed = at ELSE mns[h].confirmed = -1
    BY <1>4, <1>5 DEF ConfirmedBy
  <2>1. /\ list.mnMap[h].nRegisteredHeight \in Nat
        /\ IF height > list.mnMap[h].nRegisteredHeight + MinConf
           THEN list.mnMap[h].confirmed = list.mnMap[h].nRegisteredHeight + MinConf
           ELSE list.mnMap[h].confirmed = -1
    BY <1>1, ZenonT(30) DEF ChainInv, ConfirmedBy, ListTypeOK, DMN
  <2> QED  BY <1>4, <2>1, MinConfAssumption DEF IsDue
<1>11. Serviced(r) /\ Funded(r, utxo)
  BY <1>4, <1>5, SMTT(30) DEF ChainInv, Serviced, HasService, Funded
<1>12. ~Failed(r)
  BY <1>1 DEF Failed
<1> HIDE DEF r
<1> QED  BY <1>3, <1>6, <1>7, <1>8, <1>9, <1>10, <1>11, <1>12 DEF Outcome, Building, WellFormed, Failed

\* p is l with a payment in the next block recorded.
OnlyPaid(l, p, payee) ==
    /\ DOMAIN p.mnMap = DOMAIN l.mnMap
    /\ \A g \in DOMAIN l.mnMap :
          /\ p.mnMap[g].internalId = l.mnMap[g].internalId
          /\ p.mnMap[g].collateral = l.mnMap[g].collateral
          /\ p.mnMap[g].addr = l.mnMap[g].addr
          /\ p.mnMap[g].keyIDOperator = l.mnMap[g].keyIDOperator
          /\ p.mnMap[g].nRegisteredHeight = l.mnMap[g].nRegisteredHeight
          /\ p.mnMap[g].nPoSeRevivedHeight = l.mnMap[g].nPoSeRevivedHeight
          /\ p.mnMap[g].nPoSeBanHeight = l.mnMap[g].nPoSeBanHeight
          /\ p.mnMap[g].confirmed = l.mnMap[g].confirmed
          /\ p.mnMap[g].nLastPaidHeight = IF g = payee THEN height + 1 ELSE l.mnMap[g].nLastPaidHeight

\* The last step of a block records the payment and changes nothing else.
LEMMA PayResult ==
    ASSUME height \in Nat, NEW l, WellFormed(l), ~Failed(l), NEW payee, Null \notin DOMAIN l.mnMap
    PROVE  /\ ~Failed(Pay(l, payee))
           /\ WellFormed(Pay(l, payee))
           /\ OnlyPaid(l, Pay(l, payee), payee)
<1> DEFINE p == Pay(l, payee)
<1>1. CASE HasMN(l, payee)
  <2> DEFINE dmn == l.mnMap[payee]
             new == [dmn EXCEPT !.nLastPaidHeight = height + 1]
  <2>1. payee \in DOMAIN l.mnMap /\ dmn \in DMN
    BY <1>1 DEF WellFormed, ListTypeOK, HasMN
  <2>2. p = UpdateMN(l, payee, new)
    BY <1>1, <2>1 DEF Pay, nHeight
  <2>3. new \in DMN
    BY <2>1 DEF DMN
  <2>4. /\ new.internalId = dmn.internalId /\ new.collateral = dmn.collateral
        /\ new.addr = dmn.addr /\ new.keyIDOwner = dmn.keyIDOwner
        /\ new.keyIDOperator = dmn.keyIDOperator
        /\ new.nRegisteredHeight = dmn.nRegisteredHeight
        /\ new.nPoSeRevivedHeight = dmn.nPoSeRevivedHeight
        /\ new.nPoSeBanHeight = dmn.nPoSeBanHeight
        /\ new.confirmed = dmn.confirmed /\ new.nLastPaidHeight = height + 1
    BY <2>1, Zenon DEF DMN
  <2>5. ~OwnedByOther(l, payee, dmn.addr) /\ ~OwnedByOther(l, payee, dmn.keyIDOperator)
    BY <2>1, HeldIsOwned, Zenon
  <2> HIDE DEF new
  <2>6. ~Failed(p) /\ WellFormed(p) /\ p.mnMap = Put(l.mnMap, payee, new)
    BY <2>1, <2>2, <2>3, <2>4, <2>5, UpdateMNResult
  <2> HIDE DEF p
  <2>7. /\ DOMAIN p.mnMap = DOMAIN l.mnMap
        /\ p.mnMap[payee] = new
        /\ \A g \in DOMAIN l.mnMap \ {payee} : p.mnMap[g] = l.mnMap[g]
    BY <2>1, <2>6 DEF Put
  <2>8. OnlyPaid(l, p, payee)
    <3> SUFFICES ASSUME NEW g \in DOMAIN l.mnMap
                 PROVE  /\ g = payee => p.mnMap[g] = new
                        /\ g # payee => p.mnMap[g] = l.mnMap[g]
      BY <2>4, <2>7 DEF OnlyPaid
    <3> QED  BY <2>7, Zenon
  <2> QED  BY <2>6, <2>8 DEF p
<1>2. CASE ~HasMN(l, payee)
  BY <1>2 DEF Pay, HasMN, OnlyPaid
<1> QED  BY <1>1, <1>2

\* What the list of the next block keeps, whichever count of registrations it starts with.
LEMMA NextListWellFormed ==
    ASSUME NEW p, WellFormed(p), ~Failed(p), NEW total \in Nat,
           \A h \in DOMAIN p.mnMap : p.mnMap[h].internalId < total
    PROVE  LET r == [p EXCEPT !.nTotalRegisteredCount = total]
           IN  WellFormed(r) /\ ~Failed(r) /\ r.mnMap = p.mnMap
<1> DEFINE r == [p EXCEPT !.nTotalRegisteredCount = total]
<1>1. r = [err |-> p.err, nTotalRegisteredCount |-> total, mnMap |-> p.mnMap,
           mnInternalIdMap |-> p.mnInternalIdMap, mnUniquePropertyMap |-> p.mnUniquePropertyMap]
  BY DEF WellFormed, ListTypeOK
<1> HIDE DEF r
<1>2. ListTypeOK(r)
  BY <1>1, Zenon DEF WellFormed, ListTypeOK
<1>3. IdsExact(r)
  BY <1>1, SMTT(30) DEF WellFormed, IdsExact
<1>4. PropertiesExact(r)
  BY <1>1 DEF WellFormed, PropertiesExact, Recorded, Holds, HasMN, HasUniqueProperty, UniquePropertyMN, RefCount
<1> QED  BY <1>1, <1>2, <1>3, <1>4 DEF WellFormed, Failed, r

\* The height a masternode waits since depends on three of its fields only.
LEMMA SameLastPaid ==
    ASSUME NEW a, NEW b, a.nRegisteredHeight = b.nRegisteredHeight,
           a.nLastPaidHeight = b.nLastPaidHeight, a.nPoSeRevivedHeight = b.nPoSeRevivedHeight
    PROVE  CompareByLastPaidGetHeight(a) = CompareByLastPaidGetHeight(b)
BY DEF CompareByLastPaidGetHeight

\* It is a height, and not above the heights it is taken from.
LEMMA LastPaidBound ==
    ASSUME NEW n \in Nat, NEW a, a.nRegisteredHeight \in Nat, a.nRegisteredHeight <= n,
           a.nLastPaidHeight \in Nat, a.nLastPaidHeight <= n,
           a.nPoSeRevivedHeight \in Int, a.nPoSeRevivedHeight <= n
    PROVE  CompareByLastPaidGetHeight(a) \in Int /\ CompareByLastPaidGetHeight(a) <= n
BY DEF CompareByLastPaidGetHeight

\* A masternode paid at height n is last in the queue.
LEMMA PaidNow ==
    ASSUME NEW n \in Nat, NEW a, a.nLastPaidHeight = n, n # 0,
           a.nPoSeRevivedHeight \in Int, a.nPoSeRevivedHeight <= n
    PROVE  CompareByLastPaidGetHeight(a) = n
BY DEF CompareByLastPaidGetHeight

\* A revival at height n puts it last, if it changes anything.
LEMMA RevivedNow ==
    ASSUME NEW n \in Nat, NEW a, NEW b, a.nRegisteredHeight = b.nRegisteredHeight,
           a.nLastPaidHeight = b.nLastPaidHeight, a.nPoSeRevivedHeight \in {b.nPoSeRevivedHeight, n},
           b.nLastPaidHeight \in Nat, b.nLastPaidHeight < n
    PROVE  CompareByLastPaidGetHeight(a) \in {CompareByLastPaidGetHeight(b), n}
BY DEF CompareByLastPaidGetHeight

\* Payments keep those who are owed one ahead of those who were paid.
LEMMA OwedStaysFirst ==
    ASSUME height \in Nat, ChainInv, NEW l, NEW p, NEW payee,
           WellFormed(l), WellFormed(p), Carried(list, height, l),
           DOMAIN p.mnMap = DOMAIN l.mnMap,
           \A g \in DOMAIN l.mnMap :
              /\ p.mnMap[g].nRegisteredHeight = l.mnMap[g].nRegisteredHeight
              /\ p.mnMap[g].nPoSeRevivedHeight = l.mnMap[g].nPoSeRevivedHeight
              /\ p.mnMap[g].nLastPaidHeight = IF g = payee THEN height + 1 ELSE l.mnMap[g].nLastPaidHeight
    PROVE  OwedFirst(p, OwedAfter(p, payee))
<1> SUFFICES ASSUME NEW m \in MN, NEW w \in OwedAfter(p, payee)[m]
             PROVE  /\ w \in ValidMNs(p)
                    /\ HasMN(p, m) => LastPaid(p, w) < LastPaid(p, m)
  BY DEF OwedFirst
<1>1. /\ w \in StayedValid(p) /\ w # payee
      /\ m # payee => w \in owed[m]
  BY Zenon DEF OwedAfter
<1>2. /\ w \in ValidMNs(p) /\ w \in DOMAIN list.mnMap /\ w \in DOMAIN p.mnMap
      /\ p.mnMap[w].nPoSeRevivedHeight # height + 1
  BY <1>1, Zenon DEF StayedValid, ValidMNs, nHeight
<1>3. \A h \in DOMAIN list.mnMap :
         /\ list.mnMap[h].nRegisteredHeight \in Nat /\ list.mnMap[h].nRegisteredHeight <= height
         /\ list.mnMap[h].nLastPaidHeight \in Nat /\ list.mnMap[h].nLastPaidHeight <= height
         /\ list.mnMap[h].nPoSeRevivedHeight \in Nat \cup {-1} /\ list.mnMap[h].nPoSeRevivedHeight <= height
  BY Zenon DEF ChainInv, HeightsBy, WellFormed, ListTypeOK, DMN
<1>4. LastPaid(p, w) = LastPaid(list, w) /\ LastPaid(list, w) \in Int /\ LastPaid(list, w) <= height
  <2>1. /\ p.mnMap[w].nRegisteredHeight = list.mnMap[w].nRegisteredHeight
        /\ p.mnMap[w].nLastPaidHeight = list.mnMap[w].nLastPaidHeight
        /\ p.mnMap[w].nPoSeRevivedHeight = list.mnMap[w].nPoSeRevivedHeight
    BY <1>1, <1>2, Zenon DEF Carried
  <2>2. LastPaid(p, w) = LastPaid(list, w)
    BY <2>1, SameLastPaid, Zenon DEF LastPaid
  <2>3. LastPaid(list, w) \in Int /\ LastPaid(list, w) <= height
    BY <1>2, <1>3, LastPaidBound DEF LastPaid
  <2> QED  BY <2>2, <2>3, Zenon
<1>5. ASSUME HasMN(p, m) PROVE LastPaid(list, w) < LastPaid(p, m)
  <2>1. m \in DOMAIN p.mnMap /\ m \in DOMAIN l.mnMap
    BY <1>5, Zenon DEF HasMN
  <2>2. CASE m = payee
    <3>1. /\ p.mnMap[m].nLastPaidHeight = height + 1
          /\ p.mnMap[m].nPoSeRevivedHeight <= height + 1
      BY <1>3, <2>1, <2>2 DEF Carried
    <3>2. p.mnMap[m].nPoSeRevivedHeight \in Int
      BY <2>1, SMTT(30) DEF WellFormed, ListTypeOK, DMN
    <3>3. LastPaid(p, m) = height + 1
      BY <3>1, <3>2, PaidNow, SMTT(30) DEF LastPaid
    <3> QED  BY <1>4, <3>3
  <2>3. CASE m # payee /\ m \notin DOMAIN list.mnMap
    <3>1. LastPaid(p, m) = height + 1
      BY <2>1, <2>3, Zenon DEF Carried, LastPaid, CompareByLastPaidGetHeight
    <3> QED  BY <1>4, <3>1
  <2>4. CASE m # payee /\ m \in DOMAIN list.mnMap
    <3>1. /\ p.mnMap[m].nRegisteredHeight = list.mnMap[m].nRegisteredHeight
          /\ p.mnMap[m].nLastPaidHeight = list.mnMap[m].nLastPaidHeight
          /\ p.mnMap[m].nPoSeRevivedHeight \in {list.mnMap[m].nPoSeRevivedHeight, height + 1}
      BY <2>1, <2>4, Zenon DEF Carried
    <3>2. LastPaid(list, w) < LastPaid(list, m)
      BY <1>1, <2>4, Zenon DEF ChainInv, OwedFirst, HasMN
    <3>3. LastPaid(p, m) \in {LastPaid(list, m), height + 1}
      <4>1. /\ list.mnMap[m].nLastPaidHeight \in Nat /\ list.mnMap[m].nLastPaidHeight < height + 1
            /\ height + 1 \in Nat
        BY <1>3, <2>4
      <4> QED  BY <3>1, <4>1, RevivedNow, Zenon DEF LastPaid
    <3> QED  BY <1>4, <3>2, <3>3
  <2> QED  BY <2>2, <2>3, <2>4, Zenon
<1> QED  BY <1>2, <1>4, <1>5, Zenon

\* A step within a block: the chain stays, and the list that is built is an outcome.
LEMMA InBlockStep ==
    ASSUME IInv, UNCHANGED chain, UNCHANGED fJustCheck, phase # "idle", phase' \in {"txs", "spends"},
           coins' \subseteq Outpoint, spent' \subseteq Outpoint,
           nTxs' \in Nat,
           Outcome(list, height, newList', coins' \cup spent'),
           phase' = "txs" => utxo \subseteq coins' \cup spent'
    PROVE  IInv'
<1>1. TypeOK'
  BY DEF IInv, TypeOK, chain, Outcome
<1>2. ChainInv'
  BY DEF IInv, ChainInv, chain
<1>3. BlockInv'
  BY DEF IInv, BlockInv, chain
<1> QED  BY <1>1, <1>2, <1>3 DEF IInv

\* The end of a block that leaves the chain alone.
LEMMA DropStep ==
    ASSUME IInv, UNCHANGED chain, phase' = "idle", newList' = EmptyList,
           coins' = {}, spent' = {}, nTxs' = 0, fJustCheck' = FALSE
    PROVE  IInv'
<1>1. TypeOK'
  <2>1. nTxs' \in Nat
    BY BoundAssumption
  <2>2. ListTypeOK(newList')
    BY EmptyListWellFormed DEF WellFormed
  <2>3. fJustCheck' \in BOOLEAN
    BY Zenon
  <2> QED  BY <2>1, <2>2, <2>3 DEF IInv, TypeOK, chain
<1>2. ChainInv'
  BY DEF IInv, ChainInv, chain
<1>3. BlockInv'
  BY DEF BlockInv
<1> QED  BY <1>1, <1>2, <1>3 DEF IInv

\* The end of a block that is connected.
LEMMA FinishStep == ASSUME IInv, FinishBlock PROVE IInv'
<1> DEFINE payee == GetMNPayee(list)
           p == Pay(newList, payee)
<1>1. /\ height \in Nat /\ height < MaxHeight /\ MaxHeight \in Nat
      /\ ChainInv /\ Building(list, height, newList, coins)
      /\ ~Failed(newList) /\ WellFormed(newList) /\ WellFormed(list)
      /\ Carried(list, height, newList)
  BY BoundAssumption DEF IInv, TypeOK, BlockInv, ChainInv, Outcome, Building, FinishBlock
<1>2. Null \notin DOMAIN newList.mnMap
  BY <1>1, PropertyAssumption DEF WellFormed, ListTypeOK
<1>3. ~Failed(p) /\ WellFormed(p) /\ OnlyPaid(newList, p, payee)
  BY <1>1, <1>2, PayResult
<1>4. PICK total \in 0..p.nTotalRegisteredCount :
         /\ total = p.nTotalRegisteredCount \/ RebuiltTotal(p, total)
         /\ list' = [p EXCEPT !.nTotalRegisteredCount = total]
  BY DEF FinishBlock
<1>5. /\ owed' = OwedAfter(p, payee) /\ height' = height + 1 /\ utxo' = coins
      /\ phase' = "idle" /\ newList' = EmptyList /\ coins' = {} /\ nTxs' = 0 /\ fJustCheck' = FALSE
      /\ spent' = spent
  BY DEF FinishBlock, nHeight
<1> HIDE DEF p, payee
<1>6. p.nTotalRegisteredCount \in Nat /\ total \in Nat
  BY <1>3, <1>4 DEF WellFormed, ListTypeOK
<1>7. ASSUME NEW h \in DOMAIN p.mnMap  PROVE p.mnMap[h].internalId < total
  <2>1. p.mnMap[h].internalId \in Nat /\ p.mnMap[h].internalId < p.nTotalRegisteredCount
    BY <1>3 DEF WellFormed, ListTypeOK, IdsExact, DMN
  <2>2. CASE total = p.nTotalRegisteredCount
    BY <2>1, <2>2
  <2>3. CASE RebuiltTotal(p, total)
    <3>1. CASE h \in DOMAIN list.mnMap
      <4>1. p.mnMap[h].internalId = list.mnMap[h].internalId
        BY <1>1, <1>3, <3>1, ZenonT(30) DEF Carried, OnlyPaid
      <4>2. list.mnMap[h].internalId < list.nTotalRegisteredCount /\ list.nTotalRegisteredCount \in Nat
        BY <1>1, <3>1 DEF WellFormed, ListTypeOK, IdsExact
      <4>3. list.nTotalRegisteredCount <= total
        BY <2>3 DEF RebuiltTotal
      <4> QED  BY <1>6, <2>1, <4>1, <4>2, <4>3
    <3>2. CASE h \notin DOMAIN list.mnMap
      <4>1. p.mnMap[h].internalId + 1 <= total
        BY <2>3, <3>2 DEF RebuiltTotal
      <4> QED  BY <1>6, <2>1, <4>1
    <3> QED  BY <3>1, <3>2
  <2> QED  BY <1>4, <2>2, <2>3, Zenon
<1>8. WellFormed(list') /\ ~Failed(list') /\ list'.mnMap = p.mnMap
  BY <1>3, <1>4, <1>6, <1>7, NextListWellFormed, Zenon
<1>9. ConfirmedBy(list', height')
  <2>1. ConfirmedBy(newList, height + 1)
    BY <1>1 DEF Building
  <2>2. ConfirmedBy(p, height + 1)
    <3> SUFFICES ASSUME NEW h \in DOMAIN newList.mnMap
                 PROVE  LET at == p.mnMap[h].nRegisteredHeight + MinConf
                        IN  IF height + 1 > at THEN p.mnMap[h].confirmed = at ELSE p.mnMap[h].confirmed = -1
      BY <1>3, Zenon DEF ConfirmedBy, OnlyPaid
    <3>1. /\ p.mnMap[h].nRegisteredHeight = newList.mnMap[h].nRegisteredHeight
          /\ p.mnMap[h].confirmed = newList.mnMap[h].confirmed
      BY <1>3, ZenonT(30) DEF OnlyPaid
    <3> QED  BY <2>1, <3>1, Zenon DEF ConfirmedBy
  <2> QED  BY <1>5, <1>8, <2>2 DEF ConfirmedBy
<1>10. Serviced(list') /\ Funded(list', utxo')
  <2>1. Serviced(newList) /\ Funded(newList, coins)
    BY <1>1, Zenon DEF Building
  <2>2. \A h \in DOMAIN newList.mnMap : HasService(p.mnMap[h]) /\ p.mnMap[h].collateral \in coins
    <3> SUFFICES ASSUME NEW h \in DOMAIN newList.mnMap
                 PROVE  HasService(p.mnMap[h]) /\ p.mnMap[h].collateral \in coins
      BY Zenon
    <3>1. /\ p.mnMap[h].collateral = newList.mnMap[h].collateral
          /\ p.mnMap[h].addr = newList.mnMap[h].addr
          /\ p.mnMap[h].keyIDOperator = newList.mnMap[h].keyIDOperator
          /\ p.mnMap[h].nPoSeBanHeight = newList.mnMap[h].nPoSeBanHeight
      BY <1>3 DEF OnlyPaid
    <3>2. HasService(newList.mnMap[h]) /\ newList.mnMap[h].collateral \in coins
      BY <2>1, Zenon DEF Serviced, Funded
    <3> QED  BY <3>1, <3>2 DEF HasService
  <2> QED  BY <1>3, <1>5, <1>8, <2>2 DEF Serviced, Funded, OnlyPaid
<1>11. HeightsBy(list', height')
  <2> SUFFICES ASSUME NEW h \in DOMAIN p.mnMap
               PROVE  /\ p.mnMap[h].nRegisteredHeight <= height + 1
                      /\ p.mnMap[h].nLastPaidHeight <= height + 1
                      /\ p.mnMap[h].nPoSeRevivedHeight <= height + 1
    BY <1>5, <1>8, ZenonT(30) DEF HeightsBy
  <2>1. \A g \in DOMAIN list.mnMap :
           /\ list.mnMap[g].nRegisteredHeight \in Nat /\ list.mnMap[g].nRegisteredHeight <= height
           /\ list.mnMap[g].nLastPaidHeight \in Nat /\ list.mnMap[g].nLastPaidHeight <= height
           /\ list.mnMap[g].nPoSeRevivedHeight \in Int /\ list.mnMap[g].nPoSeRevivedHeight <= height
    BY <1>1, SMTT(30) DEF ChainInv, HeightsBy, WellFormed, ListTypeOK, DMN
  <2>2. /\ h \in DOMAIN newList.mnMap
        /\ p.mnMap[h].nRegisteredHeight = newList.mnMap[h].nRegisteredHeight
        /\ p.mnMap[h].nPoSeRevivedHeight = newList.mnMap[h].nPoSeRevivedHeight
        /\ p.mnMap[h].nLastPaidHeight \in {height + 1, newList.mnMap[h].nLastPaidHeight}
    BY <1>3, ZenonT(30) DEF OnlyPaid
  <2>3. CASE h \in DOMAIN list.mnMap
    <3>1. /\ newList.mnMap[h].nRegisteredHeight = list.mnMap[h].nRegisteredHeight
          /\ newList.mnMap[h].nLastPaidHeight = list.mnMap[h].nLastPaidHeight
          /\ newList.mnMap[h].nPoSeRevivedHeight \in {list.mnMap[h].nPoSeRevivedHeight, height + 1}
      BY <1>1, <2>2, <2>3, Zenon DEF Carried
    <3> QED  BY <1>1, <2>1, <2>2, <2>3, <3>1
  <2>4. CASE h \notin DOMAIN list.mnMap
    <3>1. /\ newList.mnMap[h].nRegisteredHeight = height + 1
          /\ newList.mnMap[h].nLastPaidHeight = 0
          /\ newList.mnMap[h].nPoSeRevivedHeight = -1
      BY <1>1, <2>2, <2>4, Zenon DEF Carried
    <3> QED  BY <1>1, <2>2, <3>1
  <2> QED  BY <2>3, <2>4, Zenon
<1>12. OwedFirst(list', owed')
  <2>1. OwedFirst(p, OwedAfter(p, payee))
    BY <1>1, <1>3, OwedStaysFirst, Zenon DEF OnlyPaid
  <2> QED  BY <1>5, <1>8, <2>1, Zenon DEF OwedFirst, ValidMNs, IsMNPoSeBanned, HasMN, LastPaid
<1>13. TypeOK'
  <2>1. height' \in 0..MaxHeight /\ nTxs' \in Nat
    BY <1>1, <1>5, BoundAssumption
  <2>2. ListTypeOK(list') /\ ListTypeOK(newList')
    BY <1>5, <1>8, EmptyListWellFormed DEF WellFormed
  <2>3. fJustCheck' \in BOOLEAN
    BY <1>5, Zenon
  <2>4. owed' \in [MN -> SUBSET MN]
    <3>1. StayedValid(p) \subseteq MN
      BY <1>1 DEF StayedValid, ValidMNs, WellFormed, ListTypeOK
    <3> QED  BY <1>5, <3>1, Zenon DEF OwedAfter, IInv, TypeOK
  <2>5. /\ utxo' \subseteq Outpoint /\ coins' \subseteq Outpoint
        /\ spent' \subseteq Outpoint /\ phase' \in {"idle", "txs", "spends"}
    BY <1>5 DEF IInv, TypeOK
  <2> QED  BY <2>1, <2>2, <2>3, <2>4, <2>5 DEF TypeOK
<1>14. BlockInv'
  BY <1>5, Zenon DEF BlockInv
<1>15. ChainInv'
  BY <1>8, <1>9, <1>10, <1>11, <1>12, Zenon DEF ChainInv
<1> QED  BY <1>13, <1>14, <1>15 DEF IInv

\* Every step preserves the invariant.
LEMMA NextInv == IInv /\ [Next]_vars => IInv'
<1> SUFFICES ASSUME IInv, [Next]_vars PROVE IInv'
  OBVIOUS
<1>0. /\ height \in Nat
      /\ utxo \subseteq Outpoint
      /\ coins \subseteq Outpoint /\ spent \subseteq Outpoint /\ nTxs \in Nat
      /\ ChainInv
  BY BoundAssumption DEF IInv, TypeOK
<1>1. ASSUME phase # "idle", ~Failed(newList)
      PROVE  Building(list, height, newList, coins \cup spent)
  BY <1>1, Zenon DEF IInv, BlockInv, Outcome
<1>2. ASSUME NextTx
      PROVE  /\ UNCHANGED chain /\ UNCHANGED fJustCheck /\ phase = "txs" /\ phase' = "txs"
             /\ nTxs' \in Nat /\ ~Failed(newList)
             /\ Building(list, height, newList, coins \cup spent)
             /\ utxo \subseteq coins \cup spent
  BY <1>0, <1>1, <1>2 DEF NextTx, IInv, BlockInv
<1>3. CASE BeginBlock
  <2>1. Outcome(list, height, newList', coins' \cup spent')
    <3>1. coins' \cup spent' = utxo
      BY <1>3, Zenon DEF BeginBlock
    <3> QED  BY <1>0, <1>3, <3>1, ConfirmOutcome DEF BeginBlock
  <2>2. TypeOK'
    <3>0. nTxs' \in Nat
      BY <1>0, <1>3 DEF BeginBlock
    <3>1. fJustCheck' \in BOOLEAN
      BY <1>3, BoundAssumption, Zenon DEF BeginBlock
    <3>2. ListTypeOK(newList')
      BY <2>1, Zenon DEF Outcome
    <3> QED  BY <1>3, <3>0, <3>1, <3>2 DEF BeginBlock, IInv, TypeOK, chain
  <2>3. ChainInv'
    BY <1>3 DEF BeginBlock, IInv, ChainInv, chain
  <2>4. BlockInv'
    <3>1. height' = height /\ height \in 0..MaxHeight /\ (height = MaxHeight => fJustCheck')
      BY <1>3, Zenon DEF BeginBlock, chain, IInv, TypeOK
    <3>2. height # MaxHeight => height' < MaxHeight
      BY <3>1, BoundAssumption
    <3> QED  BY <1>3, <2>1, <3>1, <3>2 DEF BeginBlock, BlockInv, chain
  <2> QED  BY <2>2, <2>3, <2>4 DEF IInv
<1>4. ASSUME NEW h \in MN, NEW c \in Outpoint, NEW external \in BOOLEAN, NEW addr \in Service \cup {Null},
             NEW owner \in KeyID, NEW operator \in KeyID, ProReg(h, c, external, addr, owner, operator)
      PROVE  IInv'
  <2> DEFINE r == Register(newList, h, c, addr, owner, operator)
  <2>1. NextTx /\ ~HasMN(list, h) /\ ~HasMN(newList, h) /\ newList' = r /\ spent' = spent
        /\ (external => c \in utxo)
        /\ coins' = IF external THEN coins ELSE coins \cup {c}
    BY <1>4, Zenon DEF ProReg, CheckProRegTx
  <2>2. Outcome(list, height, r, (coins \cup spent) \cup {c})
    BY <1>0, <1>2, <2>1, RegisterOutcome
  <2>3. (coins \cup spent) \cup {c} = coins' \cup spent'
    <3>1. CASE external
      BY <1>2, <2>1, <3>1, Zenon
    <3>2. CASE ~external
      BY <2>1, <3>2, Zenon
    <3> QED  BY <3>1, <3>2, Zenon
  <2>4. coins' \subseteq Outpoint /\ utxo \subseteq coins' \cup spent'
    BY <1>0, <1>2, <2>1, <2>3, Zenon
  <2>5. Outcome(list, height, newList', coins' \cup spent') /\ spent' \subseteq Outpoint
    BY <1>0, <2>1, <2>2, <2>3, Zenon
  <2> QED  BY <1>2, <2>1, <2>4, <2>5, InBlockStep, Zenon
<1>5. ASSUME NEW h \in MN, NEW addr \in Service, ProUpServ(h, addr) PROVE IInv'
  <2>1. NextTx /\ HasMN(list, h) /\ newList' = UpdateService(newList, h, addr)
        /\ coins' = coins /\ spent' = spent
    BY <1>5 DEF ProUpServ, CheckProUpServTx
  <2>2. Outcome(list, height, newList', coins' \cup spent')
    BY <1>0, <1>2, <2>1, ServiceOutcome, Zenon
  <2> QED  BY <1>0, <1>2, <2>1, <2>2, InBlockStep
<1>6. ASSUME NEW h \in MN, NEW operator \in KeyID, ProUpReg(h, operator) PROVE IInv'
  <2>1. NextTx /\ newList' = UpdateRegistrar(newList, h, operator)
        /\ coins' = coins /\ spent' = spent
    BY <1>6, Zenon DEF ProUpReg
  <2>2. Outcome(list, height, newList', coins' \cup spent')
    BY <1>0, <1>2, <2>1, RegistrarOutcome, Zenon
  <2> QED  BY <1>0, <1>2, <2>1, <2>2, InBlockStep
<1>7. ASSUME NEW h \in MN, ProUpRev(h) PROVE IInv'
  <2>1. NextTx /\ newList' = Revoke(newList, h)
        /\ coins' = coins /\ spent' = spent
    BY <1>7 DEF ProUpRev
  <2>2. Outcome(list, height, newList', coins' \cup spent')
    BY <1>0, <1>2, <2>1, RevokeOutcome
  <2> QED  BY <1>0, <1>2, <2>1, <2>2, InBlockStep
<1>8. ASSUME NEW o \in Outpoint, Spend(o) PROVE IInv'
  <2>1. NextTx /\ coins' \cup spent' = coins \cup spent /\ coins' \subseteq Outpoint /\ spent' \subseteq Outpoint
        /\ newList' = newList
    BY <1>0, <1>8 DEF Spend
  <2>2. Outcome(list, height, newList', coins' \cup spent')
    BY <1>2, <2>1 DEF IInv, BlockInv
  <2> QED  BY <1>0, <1>2, <2>1, <2>2, InBlockStep
<1>9. ASSUME NEW o \in Outpoint, RemoveSpent(o) PROVE IInv'
  <2> DEFINE r == RemoveByCollateral(newList, o)
             C == coins \cup spent
  <2>1. phase = "spends" /\ ~Failed(newList) /\ newList' = r /\ spent' = spent \ {o}
        /\ UNCHANGED chain /\ phase' = phase /\ fJustCheck' = fJustCheck
        /\ coins' = coins /\ nTxs' = nTxs
    BY <1>9, Zenon DEF RemoveSpent
  <2>2. /\ Outcome(list, height, r, C)
        /\ ~Failed(r) => Funded(r, C \ {o})
    BY <1>1, <2>1, RemoveOutcome
  <2>3. C \ {o} \subseteq coins' \cup spent'
    BY <2>1, Zenon
  <2> HIDE DEF r, C
  <2>4. Outcome(list, height, newList', coins' \cup spent')
    BY <2>1, <2>2, <2>3 DEF Outcome, Building, Funded
  <2> QED  BY <1>0, <2>1, <2>4, InBlockStep
<1>10. CASE EndTxs
  <2>1. phase = "txs" /\ phase' = "spends" /\ UNCHANGED chain /\ fJustCheck' = fJustCheck
        /\ newList' = newList /\ coins' = coins /\ spent' = spent /\ nTxs' = nTxs
    BY <1>10 DEF EndTxs
  <2>2. Outcome(list, height, newList', coins' \cup spent')
    BY <2>1 DEF IInv, BlockInv
  <2> QED  BY <1>0, <2>1, <2>2, InBlockStep
<1>11. CASE FinishBlock
  BY <1>11, FinishStep
<1>12. CASE DropBlock
  BY <1>12, DropStep, Zenon DEF DropBlock
<1>13. CASE UNCHANGED vars
  <2>1. TypeOK'
    BY <1>13 DEF IInv, TypeOK, vars
  <2>2. ChainInv'
    BY <1>13 DEF IInv, ChainInv, vars
  <2>3. BlockInv'
    BY <1>13 DEF IInv, BlockInv, vars
  <2> QED  BY <2>1, <2>2, <2>3 DEF IInv
<1> QED  BY <1>3, <1>4, <1>5, <1>6, <1>7, <1>8, <1>9, <1>10, <1>11, <1>12, <1>13, Zenon DEF Next

LEMMA InvHolds == Spec => []IInv
BY InitInv, NextInv, PTL DEF Spec

-----------------------------------------------------------------------------

\* The fields of the manager's state keep their types, whatever the blocks.
THEOREM TypeCorrect == Spec => []TypeOK
BY InvHolds, PTL DEF IInv

\* The reference-counted map of unique properties agrees with the masternodes after every
\* AddMN, UpdateMN and RemoveMN of every block.
THEOREM UniquePropertiesAlwaysExact == Spec => []UniquePropertiesExact
<1>1. IInv => UniquePropertiesExact
  <2> SUFFICES ASSUME IInv PROVE UniquePropertiesExact
    OBVIOUS
  <2>1. PropertiesExact(list)
    BY DEF IInv, ChainInv, WellFormed
  <2>2. CASE phase = "idle"
    BY <2>1, <2>2, EmptyListWellFormed DEF UniquePropertiesExact, IInv, BlockInv, WellFormed
  <2>3. CASE phase # "idle"
    BY <2>1, <2>3 DEF UniquePropertiesExact, IInv, BlockInv, Outcome, Building, WellFormed
  <2> QED  BY <2>2, <2>3
<1> QED  BY InvHolds, <1>1, PTL

\* Internal ids stay unique and below nTotalRegisteredCount although a list rebuilt from
\* diffs may have a smaller count than the list it stands for.
THEOREM InternalIdsAlwaysExact == Spec => []InternalIdsExact
<1>1. IInv => InternalIdsExact
  <2> SUFFICES ASSUME IInv PROVE InternalIdsExact
    OBVIOUS
  <2>1. IdsExact(list)
    BY DEF IInv, ChainInv, WellFormed
  <2>2. CASE phase = "idle"
    BY <2>1, <2>2, EmptyListWellFormed DEF InternalIdsExact, IInv, BlockInv, WellFormed
  <2>3. CASE phase # "idle"
    BY <2>1, <2>3, Zenon DEF InternalIdsExact, IInv, BlockInv, Outcome, Building, WellFormed
  <2> QED  BY <2>2, <2>3
<1> QED  BY InvHolds, <1>1, PTL

\* A masternode that is not PoSe-banned has an address and an operator key.
THEOREM ValidAlwaysHaveService == Spec => []ValidHaveService
<1>1. IInv => ValidHaveService
  BY ZenonT(30) DEF IInv, ChainInv, Serviced, HasService, ValidHaveService, ValidMNs, IsMNPoSeBanned
<1> QED  BY InvHolds, <1>1, PTL

\* confirmedHash is that of the block MinConf blocks after the registration.
THEOREM AlwaysConfirmedOnTime == Spec => []ConfirmedOnTime
<1>1. IInv => ConfirmedOnTime
  BY DEF IInv, ChainInv, ConfirmedBy, ConfirmedOnTime
<1> QED  BY InvHolds, <1>1, PTL

\* The exceptions of AddMN, UpdateMN and RemoveMN are unreachable from BuildNewListFromBlock.
THEOREM ThrowsNever == Spec => []NeverThrows
<1>1. IInv => NeverThrows
  <2>1. EmptyList.err = "ok"
    BY DEF EmptyList
  <2> QED  BY <2>1, Zenon DEF IInv, BlockInv, Outcome, NeverThrows
<1> QED  BY InvHolds, <1>1, PTL

\* A masternode is listed only while its collateral is unspent, and shares it with no other.
THEOREM CollateralAlwaysUnspent == Spec => []CollateralUnspent
<1>1. IInv => CollateralUnspent
  <2> SUFFICES ASSUME IInv PROVE CollateralUnspent
    OBVIOUS
  <2>1. \A h \in DOMAIN list.mnMap : list.mnMap[h].collateral \in utxo
    BY DEF IInv, ChainInv, Funded
  <2>2. ASSUME NEW g \in DOMAIN list.mnMap, NEW h \in DOMAIN list.mnMap,
               list.mnMap[g].collateral = list.mnMap[h].collateral
        PROVE  g = h
    <3> DEFINE c == list.mnMap[g].collateral
    <3>1. WellFormed(list) /\ c # Null /\ c = list.mnMap[h].collateral
      BY <2>2, PropertyAssumption, SMTT(30) DEF IInv, ChainInv, WellFormed, ListTypeOK, DMN
    <3> HIDE DEF c
    <3>2. Recorded(list, g, c) > 0
      BY <3>1, HeldIsOwned, Zenon DEF c
    <3>3. ~OwnedByOther(list, h, c)
      BY <3>1, HeldIsOwned, Zenon
    <3> QED  BY <3>2, <3>3, SMTT(30) DEF Recorded, OwnedByOther
  <2> QED  BY <2>1, <2>2 DEF CollateralUnspent
<1> QED  BY InvHolds, <1>1, PTL

\* An assertion of the unique-property map can only fail while some masternode has no operator key.
THEOREM OnlyRevokedAsserts == Spec => []OnlyRevokedAssert
<1>1. IInv => OnlyRevokedAssert
  <2>1. EmptyList.err = "ok"
    BY DEF EmptyList
  <2> QED  BY <2>1, Zenon DEF IInv, BlockInv, Outcome, OnlyRevokedAssert
<1> QED  BY InvHolds, <1>1, PTL

\* Nobody is paid twice while a masternode that stayed valid meanwhile waits.
THEOREM PaymentAlwaysFair == Spec => []FairPayment
<1>1. IInv => FairPayment
  <2> SUFFICES ASSUME IInv, NEW h \in MN, IsPayee(list, h), NEW w \in owed[h] PROVE FALSE
    BY DEF FairPayment
  <2>1. w \in ValidMNs(list) /\ LastPaid(list, w) < LastPaid(list, h)
    BY Zenon DEF IInv, ChainInv, OwedFirst, IsPayee, HasMN, ValidMNs
  <2>2. LastPaid(list, w) \in Int /\ LastPaid(list, h) \in Int
    <3>1. \A g \in DOMAIN list.mnMap : list.mnMap[g] \in DMN
      BY DEF IInv, TypeOK, ListTypeOK
    <3>2. w \in DOMAIN list.mnMap /\ h \in DOMAIN list.mnMap
      BY <2>1, ZenonT(30) DEF IsPayee, ValidMNs
    <3>3. \A dmn \in DMN : CompareByLastPaidGetHeight(dmn) \in Int
      BY SMTT(30) DEF DMN, CompareByLastPaidGetHeight
    <3> QED  BY <3>1, <3>2, <3>3, Zenon DEF LastPaid
  <2>3. LastPaid(list, h) <= LastPaid(list, w)
    BY <2>1, <2>2 DEF IsPayee, CompareByLastPaid, LastPaid
  <2> QED  BY <2>1, <2>2, <2>3, SMTT(30)
<1> QED  BY InvHolds, <1>1, PTL

=============================================================================
