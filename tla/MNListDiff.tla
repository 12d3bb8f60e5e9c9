----------------------------- MODULE MNListDiff -----------------------------
(***************************************************************************)
(* CDeterministicMNList::ApplyDiff: removals, then additions, then         *)
(* updates, each in the order of the internal ids.  The masternodes that   *)
(* are removed or updated are found again by internal id.                  *)
(***************************************************************************)
EXTENDS DeterministicMNList, SequencesExt

\* op applied to the members of S one after the other, by internal id.
ById(op(_, _), l, S, Id(_)) ==
    LET Latest(T) == CHOOSE x \in T : \A y \in T : Id(y) <= Id(x)
    IN  MapThenFoldSet(op, l, LAMBDA x : x, Latest, S)

\* RemoveMN of the masternode with this id; without one RemoveMN and the loop both throw.
RemoveById(id, l) == RemoveMN(l, GetMNByInternalId(l, id))

\* UpdateMN of the masternode with this id, which asserts that there is one.
UpdateById(id, l, new) ==
    IF ~Failed(l) /\ ~HasMN(l, GetMNByInternalId(l, id)) THEN Fail(l, "assert")
    ELSE UpdateMN(l, GetMNByInternalId(l, id), new)

\* Mutant: additions before removals.
ApplyDiffAddsFirst(l, diff) ==
    LET Add(h, acc) == AddMN(acc, h, diff.added[h])
        added == ById(Add, l, DOMAIN diff.added, LAMBDA h : diff.added[h].internalId)
    IN  ById(RemoveById, added, diff.removed, LAMBDA id : id)

ApplyDiff(l, diff) ==
    LET Add(h, acc)     == AddMN(acc, h, diff.added[h])
        Update(id, acc) == UpdateById(id, acc, diff.updated[id])
        removed == ById(RemoveById, l, diff.removed, LAMBDA id : id)
        added   == ById(Add, removed, DOMAIN diff.added, LAMBDA h : diff.added[h].internalId)
    IN  ById(Update, added, DOMAIN diff.updated, LAMBDA id : id)

=============================================================================
