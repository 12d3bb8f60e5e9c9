--------------------------- MODULE DBTransaction ---------------------------
(***************************************************************************)
(* CDBTransaction (dbwrapper.h): an overlay of pending writes and deletes  *)
(* over a parent store, committed into a target that is again an overlay   *)
(* or a LevelDB batch.  A store is a function from keys to values, absent  *)
(* keys being mapped to None.                                              *)
(***************************************************************************)
CONSTANTS
    Key,        \* database keys
    Value,      \* values stored under them
    None        \* no value stored

ASSUME NoneAssumption == None \notin Value

Store == [Key -> Value \cup {None}]

Overlay == [writes : Store, deletes : SUBSET Key]

EmptyStore == [k \in Key |-> None]

\* Clear(): the state of a fresh or cleared transaction.
Clean == [writes |-> EmptyStore, deletes |-> {}]

IsClean(t) == t.writes = EmptyStore /\ t.deletes = {}

\* Write(ssKey, v): the key stops being deleted and holds v.
TxWrite(t, k, v) == [writes  |-> [t.writes EXCEPT ![k] = v],
                     deletes |-> t.deletes \ {k}]

\* Erase(ssKey): a pending write is dropped and the key is marked deleted.
TxErase(t, k) == [writes  |-> [t.writes EXCEPT ![k] = None],
                  deletes |-> t.deletes \cup {k}]

\* Mutant: the delete marks are not looked at.
TxReadThroughDelete(t, parent, k) ==
    IF t.writes[k] # None THEN t.writes[k] ELSE parent[k]

\* Read(ssKey): deletes hide the key, writes come next, then the parent.
TxRead(t, parent, k) ==
    IF k \in t.deletes THEN None
    ELSE IF t.writes[k] # None THEN t.writes[k] ELSE parent[k]

\* What the overlay shows on top of a parent store.  It is also the contents
\* of a database after a batch with the overlay's operations is written to it.
View(t, parent) == [k \in Key |-> TxRead(t, parent, k)]

\* Commit(): every delete is erased from the target, then every write is
\* written to it.
TxCommit(t, target) ==
    [writes  |-> [k \in Key |->
                    IF t.writes[k] # None THEN t.writes[k]
                    ELSE IF k \in t.deletes THEN None ELSE target.writes[k]],
     deletes |-> (target.deletes \cup t.deletes) \ {k \in Key : t.writes[k] # None}]

=============================================================================
