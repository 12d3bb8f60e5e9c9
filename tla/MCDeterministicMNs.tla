------------------------- MODULE MCDeterministicMNs -------------------------
EXTENDS DeterministicMNs, MNListDiff

CONSTANTS m1, m2

MCTwo == {m1, m2}
MCRankTwo == m1 :> 1 @@ m2 :> 2

\* Two transactions in the first and in the third block, one in the others, none in the last.
MCMaxTxs == [h \in 0..MaxHeight |-> IF h \in {0, 2} THEN 2 ELSE IF h < MaxHeight THEN 1 ELSE 0]

\* Outpoints, addresses and keys are only compared for equality.
MCSymmetry == Permutations(Outpoint) \cup Permutations(Service) \cup Permutations(KeyID)

\* The diff ProcessBlock stores rebuilds the list of the block from that of the previous
\* one, with the same internal ids, in the order ApplyDiff takes: since no transaction may
\* take over what another masternode holds in the previous list, no step of ApplyDiff
\* meets a property that is still held by another masternode.  (Removing a masternode
\* without operator key is the failure of NeverAsserts and is left out.)
DiffRebuildsList ==
    [][height' # height =>
         LET diff == BuildDiff(list, list')
         IN  (\A id \in diff.removed : list.mnMap[GetMNByInternalId(list, id)].keyIDOperator # Null) =>
               [ApplyDiff(list, diff) EXCEPT !.nTotalRegisteredCount = list'.nTotalRegisteredCount] = list']_vars

=============================================================================
