-------------------------- MODULE DeterministicMNs --------------------------
(***************************************************************************)
(* How a block changes the list of deterministic masternodes               *)
(* (CDeterministicMNManager::BuildNewListFromBlock), with the checks its   *)
(* special transactions pass first (evo/providertx.cpp).  The chain only   *)
(* grows here; reorganisations and storage are in DMNManager.  A block is  *)
(* built one transaction at a time and may be handled to connect it or     *)
(* just to check it (fJustCheck).  A proTxHash that left the list stands   *)
(* for a new hash when it is registered again, and so does an outpoint.    *)
(***************************************************************************)
EXTENDS DeterministicMNList, FiniteSets

CONSTANTS
    SporkValue,  \* SPORK_21_LEGACY_MNS_MAX_HEIGHT
    MaxHeight,   \* bound: last block
    MaxTxs,      \* bound: transactions of the block after each height
    Modes        \* bound: values of fJustCheck below the last block

ASSUME BoundAssumption ==
    /\ SporkValue \in Int /\ MaxHeight \in Nat /\ MaxTxs \in [0..MaxHeight -> Nat]
    /\ Modes \subseteq BOOLEAN

VARIABLES
    height,     \* the tip
    list,       \* GetListForBlock(tip)
    utxo,       \* unspent collateral-sized coins in pcoinsTip
    phase,      \* "idle", "txs" (first loop of the block), "spends" (second loop)
    fJustCheck,
    newList,    \* the list being built
    coins,      \* utxo after the transactions of the block so far
    spent,      \* outpoints the block spends that the second loop has yet to see
    nTxs,
    owed        \* history: owed[m] = masternodes valid ever since m was paid and not paid since

vars == <<height, list, utxo, phase, fJustCheck, newList, coins, spent, nTxs, owed>>

chain == <<height, list, utxo, owed>>

nHeight == height + 1

Init ==
    /\ height = 0 /\ list = EmptyList
    /\ utxo \in SUBSET Outpoint
    /\ phase = "idle" /\ fJustCheck = FALSE /\ newList = EmptyList
    /\ coins = {} /\ spent = {} /\ nTxs = 0
    /\ owed = [m \in MN |-> {}]

-----------------------------------------------------------------------------
(* The loop over the old list that sets confirmedHash; the hash is that of *)
(* the previous block, written here as its height.                         *)

IsDue(dmn) == dmn.confirmed = -1 /\ height - dmn.nRegisteredHeight >= MinConf

\* Mutant: confirmed one block early.
ConfirmEarly(l) ==
    [l EXCEPT !.mnMap = [h \in DOMAIN l.mnMap |->
        IF l.mnMap[h].confirmed = -1 /\ nHeight - l.mnMap[h].nRegisteredHeight >= MinConf
        THEN [l.mnMap[h] EXCEPT !.confirmed = height] ELSE l.mnMap[h]]]

Confirm(l) ==
    IF \E h \in DOMAIN l.mnMap : IsDue(l.mnMap[h]) /\ OwnedByOther(l, h, l.mnMap[h].addr)
    THEN Fail(l, "throw")
    ELSE [l EXCEPT !.mnMap = [h \in DOMAIN l.mnMap |->
            IF IsDue(l.mnMap[h]) THEN [l.mnMap[h] EXCEPT !.confirmed = height] ELSE l.mnMap[h]]]

BeginBlock ==
    /\ phase = "idle"
    /\ phase' = "txs"
    /\ fJustCheck' \in IF height = MaxHeight THEN {TRUE} ELSE Modes
    /\ newList' = Confirm(list)
    /\ coins' = utxo /\ spent' = {} /\ nTxs' = 0
    /\ UNCHANGED chain

-----------------------------------------------------------------------------
(* The special transactions.                                               *)

NextTx ==
    /\ phase = "txs" /\ ~Failed(newList) /\ nTxs < MaxTxs[height]
    /\ nTxs' = nTxs + 1
    /\ UNCHANGED <<chain, phase, fJustCheck>>

LegacyMNObsolete(h) == h > SporkValue

\* The address may be that of the masternode the registration replaces; a key may never be reused.
CheckProRegTx(c, external, addr, owner, operator) ==
    /\ external => c \in utxo
    /\ HasUniqueProperty(list, addr) =>
          external /\ list.mnMap[UniquePropertyMN(list, addr)].collateral = c
    /\ ~HasUniqueProperty(list, owner)
    /\ ~HasUniqueProperty(list, operator)

RemoveByCollateral(l, c) == IF HasUniqueProperty(l, c) THEN RemoveMN(l, UniquePropertyMN(l, c)) ELSE l

NewMN(l, c, addr, owner, operator) ==
    [internalId |-> l.nTotalRegisteredCount, collateral |-> c,
     nRegisteredHeight |-> nHeight, nLastPaidHeight |-> 0,
     nPoSeRevivedHeight |-> -1,
     nPoSeBanHeight |-> IF addr = Null THEN nHeight ELSE -1,
     confirmed |-> -1,
     keyIDOwner |-> owner, keyIDOperator |-> operator, addr |-> addr]

\* Mutant: the new list is not consulted, only the previous one.
RegisterUnchecked(l, h, c, addr, owner, operator) ==
    LET r == RemoveByCollateral(l, c) IN AddMN(r, h, NewMN(r, c, addr, owner, operator))

Register(l, h, c, addr, owner, operator) ==
    LET r == RemoveByCollateral(l, c)
    IN  IF Failed(r) THEN r
        ELSE IF \/ HasUniqueProperty(r, addr)
                \/ HasUniqueProperty(r, owner)
                \/ HasUniqueProperty(r, operator)
        THEN Fail(r, "reject")
        ELSE AddMN(r, h, NewMN(r, c, addr, owner, operator))

\* A collateral that is not external is an output of the registration itself, so a new coin.  What
\* BuildNewListFromBlock does here to the legacy list (mnodeman) is left out.
ProReg(h, c, external, addr, owner, operator) ==
    /\ NextTx
    /\ ~HasMN(list, h) /\ ~HasMN(newList, h)
    /\ ~external => c \notin utxo \cup coins \cup spent
    /\ CheckProRegTx(c, external, addr, owner, operator)
    /\ newList' = Register(newList, h, c, addr, owner, operator)
    /\ coins' = IF external THEN coins ELSE coins \cup {c}
    /\ spent' = spent

\* Mutant: an address is only looked up in the new list.
CheckProUpServTxNoDup(h, addr) == HasMN(list, h) /\ list.mnMap[h].keyIDOperator # Null

\* Signed with the operator key of the previous list, which therefore is not null.
CheckProUpServTx(h, addr) ==
    /\ HasMN(list, h)
    /\ ~OwnedByOther(list, h, addr)
    /\ list.mnMap[h].keyIDOperator # Null

\* The payout of the operator is left out: no transaction changes nOperatorReward, so what
\* CheckProUpServTx found of it in the previous list holds in the new one.
UpdateService(l, h, addr) ==
    IF OwnedByOther(l, h, addr) \/ ~HasMN(l, h) THEN Fail(l, "reject")
    ELSE LET moved == [l.mnMap[h] EXCEPT !.addr = addr]
         IN  UpdateMN(l, h,
                IF moved.nPoSeBanHeight = -1 \/ moved.keyIDOperator = Null THEN moved
                ELSE [moved EXCEPT !.nPoSeBanHeight = -1, !.nPoSeRevivedHeight = nHeight])

ProUpServ(h, addr) ==
    /\ NextTx
    /\ CheckProUpServTx(h, addr)
    /\ newList' = UpdateService(newList, h, addr)
    /\ UNCHANGED <<coins, spent>>

\* ResetOperatorFields and BanIfNotBanned.
ResetAndBan(dmn) ==
    [dmn EXCEPT !.keyIDOperator = Null, !.addr = Null,
                !.nPoSeBanHeight = IF @ = -1 THEN nHeight ELSE @]

CheckProUpRegTx(h, operator) ==
    /\ LegacyMNObsolete(nHeight)
    /\ HasMN(list, h)
    /\ list.mnMap[h].collateral \in utxo
    /\ ~OwnedByOther(list, h, operator)

\* Mutant: a key is only looked up in the previous list.
UpdateRegistrarUnchecked(l, h, operator) ==
    IF ~HasMN(l, h) THEN Fail(l, "reject")
    ELSE LET dmn == l.mnMap[h]
         IN  UpdateMN(l, h, IF dmn.keyIDOperator = operator THEN dmn
                            ELSE [ResetAndBan(dmn) EXCEPT !.keyIDOperator = operator])

UpdateRegistrar(l, h, operator) ==
    IF ~HasMN(l, h) \/ OwnedByOther(l, h, operator) THEN Fail(l, "reject")
    ELSE LET dmn == l.mnMap[h]
         IN  UpdateMN(l, h, IF dmn.keyIDOperator = operator THEN dmn
                            ELSE [ResetAndBan(dmn) EXCEPT !.keyIDOperator = operator])

ProUpReg(h, operator) ==
    /\ NextTx
    /\ CheckProUpRegTx(h, operator)
    /\ newList' = UpdateRegistrar(newList, h, operator)
    /\ UNCHANGED <<coins, spent>>

Revoke(l, h) == IF ~HasMN(l, h) THEN Fail(l, "reject") ELSE UpdateMN(l, h, ResetAndBan(l.mnMap[h]))

ProUpRev(h) ==
    /\ NextTx
    /\ HasMN(list, h) /\ list.mnMap[h].keyIDOperator # Null
    /\ newList' = Revoke(newList, h)
    /\ UNCHANGED <<coins, spent>>

\* Any transaction that spends a coin of the size of a collateral.
Spend(o) ==
    /\ NextTx
    /\ o \in coins
    /\ coins' = coins \ {o} /\ spent' = spent \cup {o}
    /\ UNCHANGED newList

-----------------------------------------------------------------------------
(* The end of the block.                                                   *)

\* Mutant: the inputs of the block are not looked at.
EndTxsIgnoresSpends ==
    /\ phase = "txs" /\ ~Failed(newList)
    /\ phase' = "spends" /\ spent' = {}
    /\ UNCHANGED <<chain, fJustCheck, newList, coins, nTxs>>

EndTxs ==
    /\ phase = "txs" /\ ~Failed(newList)
    /\ phase' = "spends"
    /\ UNCHANGED <<chain, fJustCheck, newList, coins, spent, nTxs>>

\* The second loop over the inputs, one coin at a time.
RemoveSpent(o) ==
    /\ phase = "spends" /\ ~Failed(newList)
    /\ o \in spent
    /\ newList' = RemoveByCollateral(newList, o)
    /\ spent' = spent \ {o}
    /\ UNCHANGED <<chain, phase, fJustCheck, coins, nTxs>>

\* Mutant: the height of the previous block is recorded.
PayAtPrevious(l, payee) ==
    IF payee # Null /\ HasMN(l, payee)
    THEN UpdateMN(l, payee, [l.mnMap[payee] EXCEPT !.nLastPaidHeight = height])
    ELSE l

Pay(l, payee) ==
    IF payee # Null /\ HasMN(l, payee)
    THEN UpdateMN(l, payee, [l.mnMap[payee] EXCEPT !.nLastPaidHeight = nHeight])
    ELSE l

\* The masternodes that were valid before and after the block, and all the way through it.
StayedValid(l) == {h \in ValidMNs(list) \cap ValidMNs(l) : l.mnMap[h].nPoSeRevivedHeight # nHeight}

OwedAfter(l, payee) ==
    [m \in MN |-> (IF m = payee THEN StayedValid(l) ELSE owed[m] \cap StayedValid(l)) \ {payee}]

\* Mutant: the number of masternodes is taken for the number of registrations.
RebuiltTotalCounts(l, total) == total = Cardinality(DOMAIN l.mnMap)

\* A list rebuilt from the diff of the block counts the registrations the diff still shows.
RebuiltTotal(l, total) ==
    LET totals == {list.nTotalRegisteredCount} \cup
                  {l.mnMap[h].internalId + 1 : h \in DOMAIN l.mnMap \ DOMAIN list.mnMap}
    IN  total \in totals /\ \A t \in totals : t <= total

FinishBlock ==
    /\ phase = "spends" /\ ~Failed(newList) /\ spent = {}
    /\ LET payee == GetMNPayee(list)
           l == Pay(newList, payee)
       IN  /\ ~Failed(l)
           /\ ~fJustCheck
           /\ \E total \in 0..l.nTotalRegisteredCount :
                 /\ total = l.nTotalRegisteredCount \/ RebuiltTotal(l, total)
                 /\ list' = [l EXCEPT !.nTotalRegisteredCount = total]
           /\ owed' = OwedAfter(l, payee)
    /\ height' = nHeight
    /\ utxo' = coins
    /\ phase' = "idle" /\ newList' = EmptyList /\ coins' = {} /\ nTxs' = 0 /\ fJustCheck' = FALSE
    /\ UNCHANGED spent

\* The block was only checked, or is refused; after a failed assertion, the restart.
DropBlock ==
    /\ phase # "idle"
    /\ \/ Failed(newList)
       \/ phase = "spends" /\ spent = {} /\ (fJustCheck \/ Failed(Pay(newList, GetMNPayee(list))))
    /\ phase' = "idle" /\ newList' = EmptyList /\ coins' = {} /\ spent' = {} /\ nTxs' = 0
    /\ fJustCheck' = FALSE
    /\ UNCHANGED chain

Next ==
    \/ BeginBlock
    \/ \E h \in MN, c \in Outpoint, external \in BOOLEAN, addr \in Service \cup {Null}, owner, operator \in KeyID :
          ProReg(h, c, external, addr, owner, operator)
    \/ \E h \in MN, addr \in Service : ProUpServ(h, addr)
    \/ \E h \in MN, operator \in KeyID : ProUpReg(h, operator)
    \/ \E h \in MN : ProUpRev(h)
    \/ \E o \in Outpoint : Spend(o) \/ RemoveSpent(o)
    \/ EndTxs
    \/ FinishBlock
    \/ DropBlock

Spec == Init /\ [][Next]_vars

-----------------------------------------------------------------------------
(* Properties.                                                             *)

\* The state has the types of the code's fields.
TypeOK ==
    /\ height \in 0..MaxHeight
    /\ ListTypeOK(list) /\ ListTypeOK(newList)
    /\ utxo \subseteq Outpoint
    /\ coins \subseteq Outpoint /\ spent \subseteq Outpoint
    /\ phase \in {"idle", "txs", "spends"}
    /\ fJustCheck \in BOOLEAN
    /\ nTxs \in Nat
    /\ owed \in [MN -> SUBSET MN]

\* mnUniquePropertyMap is exact after every call of AddMN, UpdateMN and RemoveMN: it names
\* the only masternode that holds a collateral, address or key and counts the fields that
\* hold it, also when one key is both owner and operator.  So no property has two owners.
UniquePropertiesExact ==
    /\ PropertiesExact(list)
    /\ ~Failed(newList) => PropertiesExact(newList)

\* mnInternalIdMap and mnMap are inverse to each other and every id is below
\* nTotalRegisteredCount, also when a rebuilt list has forgotten registrations that came
\* and went within one block: the next registration never meets an id in use.
InternalIdsExact == IdsExact(list) /\ (~Failed(newList) => IdsExact(newList))

\* A masternode that may be paid has an address and an operator key: the ones without
\* (registered without address, revoked, key just changed) are PoSe-banned until a
\* PROUPSERV transaction revives them.
ValidHaveService ==
    \A h \in ValidMNs(list) : list.mnMap[h].addr # Null /\ list.mnMap[h].keyIDOperator # Null

\* confirmedHash is set once, to the block MinConf blocks after the registration, in the
\* block that follows it, whatever else happened to the masternode meanwhile.
ConfirmedOnTime ==
    \A h \in DOMAIN list.mnMap :
       LET dmn == list.mnMap[h]
           at == dmn.nRegisteredHeight + MinConf
       IN  IF height > at THEN dmn.confirmed = at ELSE dmn.confirmed = -1

\* The checks before AddMN and UpdateMN leave them nothing to throw about: ProcessBlock
\* never answers failed-dmn-block for a block whose transactions passed CheckSpecialTx.
NeverThrows == newList.err # "throw"

\* The collateral of every listed masternode is an unspent coin of its own.
CollateralUnspent ==
    /\ \A h \in DOMAIN list.mnMap : list.mnMap[h].collateral \in utxo
    /\ \A g, h \in DOMAIN list.mnMap : list.mnMap[g].collateral = list.mnMap[h].collateral => g = h

\* Payments go round: a masternode is not paid again before every masternode that has
\* been valid ever since its last payment was paid.
FairPayment == \A h \in MN : IsPayee(list, h) => owed[h] = {}

\* The only assertion of the unique-property map that can fail is that of a null operator
\* key, when a revoked masternode leaves the list.
OnlyRevokedAssert ==
    newList.err = "assert" => \E h \in DOMAIN newList.mnMap : newList.mnMap[h].keyIDOperator = Null

\* No assertion of AddUniqueProperty and DeleteUniqueProperty ever fails.
NeverAsserts == newList.err # "assert"

=============================================================================
