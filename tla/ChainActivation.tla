-------------------------- MODULE ChainActivation --------------------------
(***************************************************************************)
(* Chain selection (validation.cpp).  Blocks are accepted into the block   *)
(* index in any order their parents allow; ActivateBestChain moves the tip *)
(* towards the best candidate in rounds and lets go of cs_main between two *)
(* rounds; the RPCs invalidateblock and reconsiderblock change the flags   *)
(* that the candidates are chosen by.  m_cs_chainstate allows one          *)
(* ActivateBestChain at a time, cs_main one critical section at a time.    *)
(* No block file is ever pruned, checkpoints are not used to revive failed *)
(* blocks and a disk never fails.                                          *)
(***************************************************************************)
EXTENDS Naturals, Sequences, FiniteSets, SequencesExt

CONSTANTS
    Block,              \* the blocks other than the genesis block
    Genesis,
    Null,               \* a null CBlockIndex pointer
    Parent,             \* pprev
    Ancestors,          \* the blocks from the genesis block to this one, itself included
    Work,               \* nChainWork
    StakeBlock,         \* the proof-of-stake blocks
    BadContext,         \* the blocks ContextualCheckBlock refuses
    BadConnect,         \* the blocks ConnectBlock refuses
    MaxReorg,           \* -maxreorg
    MaxRPCs,            \* bound: calls of invalidateblock and reconsiderblock
    Addresses,          \* the orders in memory that CBlockIndex objects may have
    InvalidateAnytime   \* whether invalidateblock may come between two rounds

AllBlocks == Block \cup {Genesis}

ASSUME TreeAssumption ==
    /\ Genesis \notin Block /\ Null \notin AllBlocks
    /\ Parent \in [Block -> AllBlocks]
    /\ Ancestors \in [AllBlocks -> SUBSET AllBlocks]
    /\ Ancestors[Genesis] = {Genesis}
    /\ \A b \in Block : Ancestors[b] = Ancestors[Parent[b]] \cup {b} /\ b \notin Ancestors[Parent[b]]
    /\ \A b \in AllBlocks : \A a \in Ancestors[b] : Ancestors[a] \subseteq Ancestors[b]

ASSUME WorkAssumption ==
    /\ Work \in [AllBlocks -> Nat]
    /\ \A b \in Block : Work[Parent[b]] < Work[b]

ASSUME OtherAssumptions ==
    /\ StakeBlock \subseteq Block /\ BadContext \subseteq Block /\ BadConnect \subseteq Block
    /\ MaxReorg \in Nat /\ MaxRPCs \in Nat
    /\ Addresses \subseteq [AllBlocks -> Nat]
    /\ \A f \in Addresses : \A a, b \in AllBlocks : a # b => f[a] # f[b]
    /\ InvalidateAnytime \in BOOLEAN

VARIABLES
    mapBlockIndex,
    haveData,           \* BLOCK_HAVE_DATA, and with it BLOCK_VALID_TRANSACTIONS and nTx > 0
    failedValid,        \* BLOCK_FAILED_VALID
    failedChild,        \* BLOCK_FAILED_CHILD
    unsaved,            \* BLOCK_FAILED_CHILD flags that setDirtyBlockIndex does not know of
    linked,             \* nChainTx # 0
    nSequenceId,
    nBlockSequenceId,
    address,            \* where the CBlockIndex objects are
    mapBlocksUnlinked,  \* its pairs, in order, by their second components
    setBlockIndexCandidates,
    tip,                \* chainActive.Tip()
    queue,              \* the queue of ReceivedBlockTransactions
    due,                \* some thread is about to call ActivateBestChain
    stage,              \* where ActivateBestChain is
    pindexMostWork,
    starting_tip,
    blocks_connected,
    rpcs,               \* calls of the RPCs so far
    left,               \* history: blocks that reconsiderblock left marked
    omitted,            \* history: blocks that reconsiderblock kept from the candidates
    halted              \* an assertion failed

indexVars == <<mapBlockIndex, haveData, failedValid, failedChild, unsaved, linked,
               nSequenceId, nBlockSequenceId, address, mapBlocksUnlinked>>
roundVars == <<pindexMostWork, starting_tip, blocks_connected>>
vars == <<indexVars, setBlockIndexCandidates, tip, queue, due, stage, roundVars,
          rpcs, left, omitted, halted>>

Failed == failedValid \cup failedChild

ActiveChain == Ancestors[tip]

\* Nobody holds cs_main.
Unlocked == ~halted /\ queue = <<>> /\ stage \in {"idle", "round"}

\* CBlockIndexWorkComparator: a sorts before b, with these sequence ids and addresses.
SortsBefore(id, addr, a, b) ==
    \/ Work[a] < Work[b]
    \/ Work[a] = Work[b] /\ id[a] > id[b]
    \/ Work[a] = Work[b] /\ id[a] = id[b] /\ addr[a] > addr[b]

Worse(a, b) == SortsBefore(nSequenceId, address, a, b)

\* LoadGenesisBlock and the ActivateBestChain of LoadChainTip on an empty data directory.
Init ==
    /\ mapBlockIndex = {Genesis} /\ haveData = {Genesis} /\ linked = {Genesis}
    /\ failedValid = {} /\ failedChild = {} /\ unsaved = {}
    /\ nSequenceId = [b \in AllBlocks |-> IF b = Genesis THEN 1 ELSE 0]
    /\ nBlockSequenceId = 2
    /\ address \in Addresses
    /\ mapBlocksUnlinked = <<>>
    /\ setBlockIndexCandidates = {Genesis}
    /\ tip = Genesis
    /\ queue = <<>> /\ due = FALSE /\ stage = "idle"
    /\ pindexMostWork = Null /\ starting_tip = Null /\ blocks_connected = FALSE
    /\ rpcs = 0 /\ left = {} /\ omitted = {} /\ halted = FALSE

----------------------------------------------------------------------------
(* Accepting blocks *)

\* GetPrevIndex and the test for known headers in AcceptBlockHeader.
MayAccept(b) ==
    /\ Parent[b] \in mapBlockIndex \ Failed
    /\ b \notin Failed

\* A block that is already there: ProcessNewBlock goes on to ActivateBestChain all the same.
AcceptDuplicate(b) ==
    /\ Unlocked /\ MayAccept(b) /\ b \in haveData
    /\ due' = TRUE
    /\ UNCHANGED <<indexVars, setBlockIndexCandidates, tip, queue, stage, roundVars,
                   rpcs, left, omitted, halted>>

\* ContextualCheckBlock fails: the header stays in the index, marked.  (ProcessNewBlock calls CheckBlock
\* before AcceptBlock, and a block it refuses leaves no trace.)
AcceptBadContext(b) ==
    /\ Unlocked /\ MayAccept(b) /\ b \in BadContext \ haveData
    /\ mapBlockIndex' = mapBlockIndex \cup {b}
    /\ failedValid' = failedValid \cup {b}
    /\ UNCHANGED <<haveData, failedChild, unsaved, linked, nSequenceId, nBlockSequenceId, address,
                   mapBlocksUnlinked, setBlockIndexCandidates, tip, queue, due, stage, roundVars,
                   rpcs, left, omitted, halted>>

\* The stake is spent, or a fork is too long or not on disk: the header stays, unmarked.
AcceptBadStake(b) ==
    /\ Unlocked /\ MayAccept(b) /\ b \in StakeBlock \ (haveData \cup BadContext)
    /\ mapBlockIndex' = mapBlockIndex \cup {b}
    /\ UNCHANGED <<haveData, failedValid, failedChild, unsaved, linked, nSequenceId, nBlockSequenceId,
                   address, mapBlocksUnlinked, setBlockIndexCandidates, tip, queue, due, stage,
                   roundVars, rpcs, left, omitted, halted>>

\* What a proof-of-stake block off the tip needs: the blocks up to the split on disk, and few.
ForkReadable(b) ==
    LET fork == Ancestors[Parent[b]] \ ActiveChain
    IN  Parent[b] # tip => {Parent[b]} \cup fork \subseteq haveData /\ Cardinality(fork) < MaxReorg

\* Mutant: a block whose parent is not linked is forgotten.
RememberNothing(b) == mapBlocksUnlinked

\* mapBlocksUnlinked with a block that waits for an ancestor.
Remember(b) == Append(mapBlocksUnlinked, b)

\* AcceptBlock up to the loop of ReceivedBlockTransactions.
AcceptBlock(b) ==
    /\ Unlocked /\ MayAccept(b) /\ b \notin haveData \cup BadContext
    /\ b \in StakeBlock => ForkReadable(b)
    /\ mapBlockIndex' = mapBlockIndex \cup {b}
    /\ haveData' = haveData \cup {b}
    /\ due' = TRUE
    /\ IF Parent[b] \in linked
       THEN queue' = <<b>> /\ UNCHANGED mapBlocksUnlinked
       ELSE mapBlocksUnlinked' = Remember(b) /\ UNCHANGED queue
    /\ UNCHANGED <<failedValid, failedChild, unsaved, linked, nSequenceId, nBlockSequenceId, address,
                   setBlockIndexCandidates, tip, stage, roundVars, rpcs, left, omitted, halted>>

\* mapBlocksUnlinked without the children of a block that has been linked.
StillUnlinked(b) == SelectSeq(mapBlocksUnlinked, LAMBDA c : Parent[c] # b)

\* One turn of the loop in ReceivedBlockTransactions.
ReceivedBlockTransactions ==
    /\ ~halted /\ queue # <<>>
    /\ LET b == Head(queue) IN
       /\ linked' = linked \cup {b}
       /\ nSequenceId' = [nSequenceId EXCEPT ![b] = nBlockSequenceId]
       /\ nBlockSequenceId' = nBlockSequenceId + 1
       /\ setBlockIndexCandidates' = setBlockIndexCandidates \cup
             {c \in {b} : ~SortsBefore(nSequenceId', address, c, tip)}
       /\ queue' = Tail(queue) \o SelectSeq(mapBlocksUnlinked, LAMBDA c : Parent[c] = b)
       /\ mapBlocksUnlinked' = StillUnlinked(b)
    /\ UNCHANGED <<mapBlockIndex, haveData, failedValid, failedChild, unsaved, address, tip, due,
                   stage, roundVars, rpcs, left, omitted, halted>>

----------------------------------------------------------------------------
(* ActivateBestChain *)

\* cs_main is taken for a round; the first round of a call needs a call.
BeginRound ==
    /\ Unlocked /\ (stage = "idle" => due)
    /\ due' = (due /\ stage = "round")
    /\ starting_tip' = tip
    /\ blocks_connected' = FALSE
    /\ stage' = IF pindexMostWork = Null THEN "find" ELSE "step"
    /\ UNCHANGED <<indexVars, setBlockIndexCandidates, tip, queue, pindexMostWork,
                   rpcs, left, omitted, halted>>

\* Mutant: only the candidate itself is looked at.
FailedOnPathOnlyTip(new) == {new} \cap Failed

\* The failed blocks between the active chain and a candidate.
FailedOnPath(new) == (Ancestors[new] \ ActiveChain) \cap Failed

\* One turn of the loop in FindMostWorkChain: the best candidate is returned or, when a block on the
\* way to it has failed, it is dropped together with the blocks down to the failed one.
FindMostWorkChain ==
    /\ ~halted /\ stage = "find"
    /\ IF setBlockIndexCandidates = {}
       THEN stage' = "step" /\ UNCHANGED <<indexVars, setBlockIndexCandidates, pindexMostWork, halted>>
       ELSE LET new == CHOOSE c \in setBlockIndexCandidates :
                           \A d \in setBlockIndexCandidates \ {c} : Worse(d, c)
                path == Ancestors[new] \ ActiveChain
                failed == CHOOSE f \in FailedOnPath(new) : \A g \in FailedOnPath(new) : Work[g] <= Work[f]
                above == path \ Ancestors[failed]
            IN IF FailedOnPath(new) = {}
               THEN /\ halted' = ~(path \subseteq linked)
                    /\ pindexMostWork' = new /\ stage' = "step"
                    /\ UNCHANGED <<indexVars, setBlockIndexCandidates>>
               ELSE /\ halted' = ~(above \cup {failed} \subseteq linked)
                    /\ failedChild' = failedChild \cup above
                    /\ unsaved' = unsaved \cup (above \ failedChild)
                    /\ setBlockIndexCandidates' = setBlockIndexCandidates \ (above \cup {failed})
                    /\ UNCHANGED <<mapBlockIndex, haveData, failedValid, linked, nSequenceId,
                                   nBlockSequenceId, address, mapBlocksUnlinked, pindexMostWork, stage>>
    /\ UNCHANGED <<tip, queue, due, starting_tip, blocks_connected, rpcs, left, omitted>>

\* PruneBlockIndexCandidates for tip t.
Pruned(candidates, t) == {c \in candidates : ~Worse(c, t)}

\* Mutant: one round and no more.
EndRoundAlways(newTip, mostWork, connected) ==
    /\ stage' = "idle" /\ pindexMostWork' = Null
    /\ starting_tip' = Null /\ blocks_connected' = FALSE

\* The round is over with this tip and choice: another one, or the end of the call.
EndRound(newTip, mostWork, connected) ==
    /\ stage' = IF connected /\ mostWork # newTip THEN "round" ELSE "idle"
    /\ pindexMostWork' = IF stage' = "idle" THEN Null ELSE mostWork
    /\ starting_tip' = Null /\ blocks_connected' = FALSE

\* Nothing to do: the inner loop is left.
LeaveRound ==
    /\ ~halted /\ stage = "step" /\ pindexMostWork \in {Null, tip}
    /\ EndRound(tip, pindexMostWork, blocks_connected)
    /\ UNCHANGED <<indexVars, setBlockIndexCandidates, tip, queue, due, rpcs, left, omitted, halted>>

\* Mutant: a block that fails is not marked.
InvalidBlockFoundNot(b, bad) == {}

\* The block InvalidBlockFound marks and takes from the candidates, if it failed.
InvalidBlockFound(b, bad) == {p \in {b} : bad}

\* ActivateBestChainStep: back to the fork, then forward until a block fails (InvalidBlockFound) or the
\* chain has more work than the old tip.  Every connected block prunes the candidates.
ActivateBestChainStep ==
    /\ ~halted /\ stage = "step" /\ pindexMostWork \notin {Null, tip}
    /\ LET fork == CHOOSE f \in Ancestors[pindexMostWork] \cap ActiveChain :
                       Ancestors[f] = Ancestors[pindexMostWork] \cap ActiveChain
           path == Ancestors[pindexMostWork] \ ActiveChain
           stops == {p \in path : p \in BadConnect \/ Work[p] > Work[tip] \/ p = pindexMostWork}
           stop == CHOOSE p \in stops : \A q \in stops : Work[p] <= Work[q]
           bad == path # {} /\ stop \in BadConnect
           newTip == IF path = {} THEN fork ELSE IF bad THEN Parent[stop] ELSE stop
           pruned == IF newTip = fork THEN setBlockIndexCandidates
                     ELSE Pruned(setBlockIndexCandidates, newTip)
           mostWork == IF bad THEN Null ELSE pindexMostWork
       IN  /\ tip' = newTip
           /\ failedValid' = failedValid \cup InvalidBlockFound(stop, bad)
           /\ unsaved' = unsaved \ InvalidBlockFound(stop, bad)
           /\ setBlockIndexCandidates' = pruned \ InvalidBlockFound(stop, bad)
           /\ halted' = (newTip # fork /\ pruned = {})
           /\ IF Worse(newTip, starting_tip)
              THEN /\ stage' = IF bad THEN "find" ELSE "step"
                   /\ pindexMostWork' = mostWork
                   /\ blocks_connected' = TRUE
                   /\ UNCHANGED starting_tip
              ELSE EndRound(newTip, mostWork, TRUE)
    /\ UNCHANGED <<mapBlockIndex, haveData, failedChild, linked, nSequenceId, nBlockSequenceId, address,
                   mapBlocksUnlinked, queue, due, rpcs, left, omitted>>

----------------------------------------------------------------------------
(* The RPCs and restarts *)

\* Mutant: only better blocks come back.
AsGoodAsStrict(c, t) == Worse(t, c)

\* What InvalidateBlock makes a candidate again.
AsGoodAs(c, t) == ~Worse(c, t)

\* InvalidateBlock: the block fails, the tip goes below it, and every block that is now as good as the
\* tip becomes a candidate.
InvalidateBlock(b) ==
    /\ Unlocked /\ b \in mapBlockIndex /\ rpcs < MaxRPCs
    /\ rpcs' = rpcs + 1
    /\ InvalidateAnytime \/ pindexMostWork = Null
    /\ LET gone == {a \in ActiveChain : b \in Ancestors[a]}
           newTip == IF gone = {} THEN tip ELSE Parent[b]
       IN  /\ failedValid' = failedValid \cup {b}
           /\ failedChild' = failedChild \cup gone
           /\ unsaved' = unsaved \ (gone \cup {b})
           /\ tip' = newTip
           /\ setBlockIndexCandidates' = (setBlockIndexCandidates \ (gone \cup {b})) \cup
                 {c \in (haveData \cap linked) \ (Failed \cup gone \cup {b}) : AsGoodAs(c, newTip)}
    /\ due' = TRUE /\ omitted' = {}
    /\ UNCHANGED <<mapBlockIndex, haveData, linked, nSequenceId, nBlockSequenceId, address,
                   mapBlocksUnlinked, queue, stage, roundVars, left, halted>>

\* Mutant: only BLOCK_FAILED_VALID is cleared.
ClearedValidOnly(all) == failedChild

\* What clearing BLOCK_FAILED_MASK leaves of the BLOCK_FAILED_CHILD flags.
ClearedChild(all) == failedChild \ all

\* ReconsiderBlock: the flags of the block, its descendants and its ancestors are cleared.  Blocks that
\* are neither keep the mark they have because of such an ancestor (left), and an ancestor does not
\* become a candidate, even if it is as good as the tip (omitted).
ReconsiderBlock(b) ==
    /\ Unlocked /\ b \in mapBlockIndex /\ rpcs < MaxRPCs
    /\ rpcs' = rpcs + 1
    /\ LET cleared == {c \in Failed : b \in Ancestors[c]}
           all == cleared \cup Ancestors[b]
           above == {c \in failedChild : Ancestors[c] \cap Ancestors[b] \cap Failed # {}}
       IN  /\ failedValid' = failedValid \ all
           /\ failedChild' = ClearedChild(all)
           /\ unsaved' = unsaved \ all
           /\ setBlockIndexCandidates' = setBlockIndexCandidates \cup
                 {c \in cleared \cap haveData \cap linked : Worse(tip, c)}
           /\ left' = (left \cup above) \ all
           /\ omitted' = omitted \cup
                 {c \in (Ancestors[b] \cap Failed \cap linked) \ setBlockIndexCandidates' : ~Worse(c, tip)}
    /\ due' = TRUE
    /\ UNCHANGED <<mapBlockIndex, haveData, linked, nSequenceId, nBlockSequenceId, address,
                   mapBlocksUnlinked, tip, queue, stage, roundVars, halted>>

\* LoadBlockIndexDB: blocks whose data and whose ancestors' data are there.
LinkedOnLoad == {b \in haveData : Ancestors[b] \subseteq haveData}

\* LoadBlockIndexDB visits the blocks by height and address.
VisitedBefore(addr, a, b) ==
    \/ Cardinality(Ancestors[a]) < Cardinality(Ancestors[b])
    \/ Cardinality(Ancestors[a]) = Cardinality(Ancestors[b]) /\ addr[a] < addr[b]

\* A clean shutdown and a start: LoadBlockIndexDB, LoadChainTip and the ActivateBestChain of
\* ThreadImport.
Restart ==
    /\ Unlocked
    /\ address' \in Addresses
    /\ failedChild' = failedChild \ unsaved
    /\ unsaved' = {}
    /\ left' = left \ unsaved /\ omitted' = {}
    /\ linked' = LinkedOnLoad
    /\ nSequenceId' = [b \in AllBlocks |-> 0]
    /\ nBlockSequenceId' = 1
    /\ \E s \in SetToSeqs(haveData \ LinkedOnLoad) :
          /\ \A i, j \in DOMAIN s : i < j => VisitedBefore(address', s[i], s[j])
          /\ mapBlocksUnlinked' = s
    /\ setBlockIndexCandidates' = {c \in LinkedOnLoad \ (failedValid \cup failedChild') :
                                      ~SortsBefore(nSequenceId', address', c, tip)}
    /\ halted' = (setBlockIndexCandidates' = {})
    /\ due' = TRUE /\ stage' = "idle"
    /\ pindexMostWork' = Null /\ starting_tip' = Null /\ blocks_connected' = FALSE
    /\ UNCHANGED <<mapBlockIndex, haveData, failedValid, tip, queue, rpcs>>

----------------------------------------------------------------------------
\* What the thread in ActivateBestChain or AcceptBlock does by itself.
Proceed == ReceivedBlockTransactions \/ BeginRound \/ FindMostWorkChain \/ LeaveRound \/ ActivateBestChainStep

Next ==
    \/ Proceed
    \/ Restart
    \/ \E b \in Block : \/ AcceptDuplicate(b) \/ AcceptBadContext(b) \/ AcceptBadStake(b)
                        \/ AcceptBlock(b) \/ InvalidateBlock(b) \/ ReconsiderBlock(b)

Spec == Init /\ [][Next]_vars

FairSpec == Spec /\ WF_vars(Proceed)

----------------------------------------------------------------------------
(* Properties *)

\* Types, and the places where the call's own variables are set.
TypeOK ==
    /\ mapBlockIndex \subseteq AllBlocks /\ haveData \subseteq mapBlockIndex /\ linked \subseteq haveData
    /\ failedValid \subseteq mapBlockIndex \ {Genesis} /\ failedChild \subseteq mapBlockIndex \ {Genesis}
    /\ unsaved \subseteq failedChild /\ left \subseteq failedChild /\ omitted \subseteq linked
    /\ nSequenceId \in [AllBlocks -> Nat] /\ nBlockSequenceId \in Nat
    /\ address \in Addresses
    /\ mapBlocksUnlinked \in Seq(haveData \ linked) /\ queue \in Seq(haveData \ linked)
    /\ setBlockIndexCandidates \subseteq linked
    /\ tip \in linked
    /\ due \in BOOLEAN /\ blocks_connected \in BOOLEAN /\ halted \in BOOLEAN /\ rpcs \in 0..MaxRPCs
    /\ stage \in {"idle", "round", "find", "step"}
    /\ pindexMostWork \in linked \cup {Null} /\ (stage = "idle" => pindexMostWork = Null)
    /\ starting_tip \in linked \cup {Null} /\ (stage \in {"find", "step"} => starting_tip # Null)

\* A block is linked (nChainTx) exactly when its data and all its ancestors' data have arrived, in
\* whatever order that happened; otherwise, unless it descends from a failed block, it is remembered in
\* mapBlocksUnlinked.  These are assertions of CheckBlockIndex.
LinkedExact ==
    Unlocked => \A b \in mapBlockIndex :
        /\ b \in linked <=> Ancestors[b] \subseteq haveData
        /\ b \notin linked => nSequenceId[b] = 0
        /\ b \in haveData \ linked /\ Ancestors[b] \cap failedValid = {} => b \in Range(mapBlocksUnlinked)

\* The blocks that are not, and are not above, blocks that reconsiderblock left marked.
Settled == {b \in mapBlockIndex : Ancestors[b] \cap left = {}}

\* setBlockIndexCandidates has every linked block that is as good as the tip and descends from no failed
\* block, and nothing that is worse than the tip, whenever cs_main can be taken.  An assertion of
\* CheckBlockIndex.  ReconsiderBlock breaks it for the blocks it leaves marked and, when it keeps a
\* block from the candidates, until invalidateblock or a restart collects them anew.
CandidatesExact ==
    Unlocked => \A b \in linked :
        /\ (omitted = {} /\ b \in Settled /\ ~Worse(b, tip) /\ Ancestors[b] \cap failedValid = {}) =>
              b \in setBlockIndexCandidates
        /\ b \in setBlockIndexCandidates => ~Worse(b, tip)

\* A block is marked BLOCK_FAILED_CHILD only below a block that is marked BLOCK_FAILED_VALID, through
\* invalidations, reconsiderations and restarts.  An assertion of CheckBlockIndex, which the code keeps
\* but for the blocks that ReconsiderBlock leaves marked: invalidate x, let FindMostWorkChain mark its
\* child z, reconsider another child y, and z stays marked below x, which no longer is.
FailedHaveCause ==
    Unlocked => \A b \in failedChild \cap Settled : Ancestors[b] \cap failedValid # {}

\* The assertion of CheckBlockIndex as it stands, without the exception: it fails for what ReconsiderBlock
\* leaves marked (ChainActivationReconsider.cfg).
AllFailedHaveCause ==
    Unlocked => \A b \in failedChild : Ancestors[b] \cap failedValid # {}

\* The active chain has no block that ConnectBlock refuses or that is marked as failed.
ActiveChainGood == ActiveChain \cap (BadConnect \cup BadContext \cup Failed) = {}

\* When no ActivateBestChain runs or is about to, no linked block without a failed ancestor is better
\* than the tip, unless ReconsiderBlock has kept a block from the candidates.
TipIsBest ==
    Unlocked /\ stage = "idle" /\ ~due /\ omitted = {} =>
        \A b \in linked : Ancestors[b] \cap Failed = {} => ~Worse(tip, b)

\* The assertions of FindMostWorkChain (candidates are linked) and of PruneBlockIndexCandidates (a
\* candidate is left) hold.
NeverAsserts == ~halted

\* A call of ActivateBestChain that has begun ends, whatever blocks and RPCs come between its rounds.
ActivationEnds == stage # "idle" ~> stage = "idle"
=============================================================================
