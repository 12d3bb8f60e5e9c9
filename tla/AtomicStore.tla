---------------------------- MODULE AtomicStore ----------------------------
(***************************************************************************)
(* What the EvoDB promises its callers: a key-value store with one pending *)
(* transaction.  The pending view is committed or rolled back as a whole,  *)
(* the committed view is made durable as a whole, and a crash leaves the   *)
(* last durable view.                                                      *)
(***************************************************************************)
CONSTANTS Key, Value, None

VARIABLES
    durable,    \* what survives a crash
    committed,  \* what survives a rollback
    view        \* what a read returns

vars == <<durable, committed, view>>

Store == [Key -> Value \cup {None}]

Init ==
    /\ durable \in Store
    /\ committed = durable
    /\ view = durable

Put(k, v) ==
    /\ view' = [view EXCEPT ![k] = v]
    /\ UNCHANGED <<durable, committed>>

Commit ==
    /\ committed' = view
    /\ UNCHANGED <<durable, view>>

Rollback ==
    /\ view' = committed
    /\ UNCHANGED <<durable, committed>>

Persist ==
    /\ view = committed
    /\ durable' = committed
    /\ UNCHANGED <<committed, view>>

Crash ==
    /\ committed' = durable
    /\ view' = durable
    /\ UNCHANGED durable

Next ==
    \/ \E k \in Key, v \in Value \cup {None} : Put(k, v)
    \/ Commit
    \/ Rollback
    \/ Persist
    \/ Crash

Spec == Init /\ [][Next]_vars

=============================================================================
