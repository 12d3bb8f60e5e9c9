-------------------------- MODULE CheckQueueProofs --------------------------
(***************************************************************************)
(* The verdict of the check queue is exact and its master is never left    *)
(* asleep, for any number of workers, checks and any batch size.  The      *)
(* inductive invariant says what the three counters count and what fAllOk  *)
(* knows while checks are still pending.                                   *)
(***************************************************************************)
EXTENDS CheckQueue, FiniteSetTheorems, TLAPS

Stage == {"out", "adding", "run", "wait", "woken", "unwind", "gone"}

\* Checks added and not done, without those in the hands of the threads S.
PendingBut(S) == {c \in added : c \in queue \/ \E b \in Actor \ S : c \in vChecks[b]}

Pending == PendingBut({})

Busy == {a \in Actor : pc[a] = "run"}

Asleep == {a \in Actor : pc[a] \in {"wait", "woken"}}

CountInv ==
    /\ nTodo = Cardinality(Pending)
    /\ nTotal = nIdle + Cardinality(Busy)
    /\ Cardinality(Asleep) <= nIdle

\* ok is right about the checks of the current block outside P.
Knows(ok, P) ==
    /\ ok => \A c \in added : c \in Bad => c \in P
    /\ ~ok => \E c \in added : c \in Bad /\ c \notin P

VerdictInv ==
    /\ Knows(fAllOk, Pending)
    /\ \A a \in Actor : pc[a] = "run" /\ ~fOk[a] => ~fAllOk

NothingAdded == pc[Master] = "out" => added = {}

IInv == TypeOK /\ CountInv /\ VerdictInv /\ NothingAdded /\ VerdictExact /\ MasterNotForgotten

\* Where thread a stands between the first lines of a critical section and the
\* test of the queue, its batch handed in.
Mid(a, total, idle, ok, todo, stages) ==
    /\ total \in Nat /\ idle \in Nat /\ ok \in BOOLEAN
    /\ stages \in [Actor -> Stage]
    /\ \A b \in Actor \ {a} : \/ stages[b] = pc[b]
                              \/ pc[b] = "wait" /\ stages[b] = "woken"
    /\ todo = Cardinality(PendingBut({a}))
    /\ total = idle + Cardinality(Busy \ {a}) + 1
    /\ Cardinality(Asleep \ {a}) <= idle
    /\ Knows(ok, PendingBut({a}))
    /\ \A b \in Actor \ {a} : pc[b] = "run" /\ ~fOk[b] => ~ok
    /\ a # Master /\ stages[Master] = "wait" => queue # {} \/ \E w \in Worker \ {a} : pc[w] = "run"

-----------------------------------------------------------------------------

\* The sets that are counted are finite.
LEMMA Finite ==
    ASSUME TypeOK, NEW S
    PROVE  /\ IsFiniteSet(Actor) /\ IsFiniteSet(added)
           /\ IsFiniteSet(PendingBut(S)) /\ IsFiniteSet(Busy) /\ IsFiniteSet(Asleep)
           /\ \A a \in Actor : IsFiniteSet(vChecks[a])
           /\ IsFiniteSet(queue)
<1>1. IsFiniteSet(Actor)
  BY QueueAssumption, FS_AddElement DEF Actor
<1>2. IsFiniteSet(added)
  BY QueueAssumption, FS_Subset DEF TypeOK
<1>3. PendingBut(S) \in SUBSET added /\ Busy \in SUBSET Actor /\ Asleep \in SUBSET Actor
  BY DEF PendingBut, Busy, Asleep
<1>4. queue \in SUBSET added /\ \A a \in Actor : vChecks[a] \in SUBSET added
  BY DEF TypeOK
<1> QED  BY <1>1, <1>2, <1>3, <1>4, FS_Subset

\* A batch is never empty.
LEMMA BatchNotEmpty ==
    ASSUME TypeOK, NEW total \in Nat, NEW idle \in Nat, NEW batch,
           Cardinality(batch) = BatchLength(total, idle)
    PROVE  batch # {}
<1> DEFINE share == Cardinality(queue) \div (total + idle + 1)
           least == IF share < nBatchSize THEN share ELSE nBatchSize
<1>1. Cardinality(queue) \in Nat
  BY Finite, FS_CardinalityType
<1>2. share \in Int
  BY <1>1
<1>3. least \in Int
  BY <1>2, QueueAssumption
<1> HIDE DEF least
<1>4. (IF least > 1 THEN least ELSE 1) # 0
  BY <1>3
<1>5. Cardinality(batch) # 0
  BY <1>4 DEF BatchLength, least
<1> QED  BY <1>5, FS_EmptySet

\* TakeBatch hands over checks of the queue and forgets none.
LEMMA TakeKeeps ==
    ASSUME IInv, NEW a \in Actor, NEW total, NEW idle, NEW ok, NEW todo, NEW stages,
           Mid(a, total, idle, ok, todo, stages), nTodo' = todo, UNCHANGED interrupted,
           a = Master => pc[a] # "out",
           TakeBatch(a, total, idle, ok, stages)
    PROVE  IInv'
<1>1. PICK batch \in SUBSET queue :
         /\ batch # {}
         /\ queue' = queue \ batch
         /\ vChecks' = [vChecks EXCEPT ![a] = batch]
  BY BatchNotEmpty, Zenon DEF TakeBatch, Mid, IInv
<1>2. /\ pc' = [stages EXCEPT ![a] = "run"]
      /\ fOk' = [fOk EXCEPT ![a] = ok]
      /\ fAllOk' = ok /\ nTotal' = total /\ nIdle' = idle
      /\ UNCHANGED <<added, fRet>>
  BY DEF TakeBatch
<1>3. TypeOK'
  <2>1. /\ vChecks \in [Actor -> SUBSET added] /\ queue \subseteq added /\ added \subseteq Check
        /\ fOk \in [Actor -> BOOLEAN]
        /\ \A b \in Actor : /\ vChecks[b] # {} <=> pc[b] = "run"
                            /\ vChecks[b] \cap queue = {}
                            /\ \A d \in Actor \ {b} : vChecks[b] \cap vChecks[d] = {}
    BY DEF IInv, TypeOK
  <2>2. \A b \in Actor : /\ vChecks'[b] # {} <=> pc'[b] = "run"
                         /\ vChecks'[b] \cap queue' = {}
                         /\ \A d \in Actor \ {b} : vChecks'[b] \cap vChecks'[d] = {}
    BY <1>1, <1>2, <2>1 DEF Mid, Stage
  <2>3. vChecks' \in [Actor -> SUBSET added'] /\ queue' \subseteq added' /\ added' \subseteq Check
    BY <1>1, <1>2, <2>1
  <2>4. /\ {nIdle', nTotal', nTodo'} \subseteq Nat /\ fAllOk' \in BOOLEAN
        /\ pc' \in [Actor -> Stage] /\ fOk' \in [Actor -> BOOLEAN]
    <3>1. todo \in Nat
      BY Finite, FS_CardinalityType DEF IInv, Mid
    <3> QED  BY <1>2, <2>1, <3>1 DEF Mid, Stage
  <2>5. interrupted' \subseteq Actor /\ fRet' \in [ok : BOOLEAN, clean : BOOLEAN]
    BY <1>2 DEF IInv, TypeOK
  <2> QED  BY <2>2, <2>3, <2>4, <2>5 DEF TypeOK, Stage
<1>4. Pending' = PendingBut({a})
  BY <1>1, <1>2 DEF Pending, PendingBut, IInv, TypeOK
<1>5. Busy' = (Busy \ {a}) \cup {a} /\ Asleep' = Asleep \ {a}
  BY <1>2 DEF Busy, Asleep, Mid, Stage
<1>6. CountInv'
  <2>1. IsFiniteSet(Busy \ {a}) /\ Cardinality(Busy \ {a}) \in Nat
    BY Finite, FS_RemoveElement, FS_CardinalityType, Zenon DEF IInv
  <2>2. Cardinality(Busy') = Cardinality(Busy \ {a}) + 1
    BY <1>5, <2>1, FS_AddElement
  <2> QED  BY <1>2, <1>4, <1>5, <2>1, <2>2 DEF CountInv, Mid
<1>7. VerdictInv'
  <2>1. Knows(fAllOk, Pending)'
    BY <1>2, <1>4, SMTT(30) DEF Knows, Mid
  <2>2. \A b \in Actor : pc'[b] = "run" /\ ~fOk'[b] => ~fAllOk'
    BY <1>2 DEF Mid, Stage, IInv, TypeOK
  <2> QED  BY <2>1, <2>2 DEF VerdictInv
<1>8. NothingAdded'
  BY <1>1, <1>2 DEF NothingAdded, Mid, IInv, Actor
<1>9. VerdictExact'
  BY <1>2 DEF IInv, VerdictExact
<1>10. MasterNotForgotten'
  <2>1. CASE a = Master
    BY <1>2, <2>1 DEF MasterNotForgotten, Mid
  <2>2. CASE a # Master
    BY <1>2, <2>2 DEF MasterNotForgotten, Mid, Actor
  <2> QED  BY <2>1, <2>2
<1> QED  BY <1>3, <1>6, <1>7, <1>8, <1>9, <1>10 DEF IInv

\* A thread that finds nothing to do goes to sleep; a master that does so leaves
\* a worker with a batch.
LEMMA SleepKeeps ==
    ASSUME IInv, NEW a \in Actor, NEW total, NEW idle, NEW ok, NEW todo, NEW stages,
           Mid(a, total, idle, ok, todo, stages), nTodo' = todo, UNCHANGED interrupted,
           a = Master => pc[a] # "out",
           Sleep(a, total, idle, ok, todo, stages)
    PROVE  IInv'
<1>1. /\ pc' = [stages EXCEPT ![a] = "wait"]
      /\ vChecks' = [vChecks EXCEPT ![a] = {}]
      /\ fAllOk' = ok /\ nTotal' = total /\ nIdle' = idle + 1
      /\ UNCHANGED <<queue, fOk, added, fRet>>
      /\ queue = {} /\ ~(a = Master /\ todo = 0)
  BY DEF Sleep
<1>2. todo \in Nat
  BY Finite, FS_CardinalityType DEF IInv, Mid
<1>3. TypeOK'
  <2>1. \A b \in Actor : /\ vChecks'[b] # {} <=> pc'[b] = "run"
                         /\ vChecks'[b] \cap queue' = {}
                         /\ \A d \in Actor \ {b} : vChecks'[b] \cap vChecks'[d] = {}
    BY <1>1 DEF Mid, Stage, IInv, TypeOK
  <2>2. vChecks' \in [Actor -> SUBSET added']
    BY <1>1 DEF IInv, TypeOK
  <2>3. /\ {nIdle', nTotal', nTodo'} \subseteq Nat /\ fAllOk' \in BOOLEAN
        /\ pc' \in [Actor -> Stage]
    BY <1>1, <1>2 DEF Mid, Stage
  <2> QED  BY <1>1, <2>1, <2>2, <2>3 DEF IInv, TypeOK, Stage
<1>4. Pending' = PendingBut({a})
  BY <1>1 DEF Pending, PendingBut, IInv, TypeOK
<1>5. Busy' = Busy \ {a} /\ Asleep' = (Asleep \ {a}) \cup {a}
  BY <1>1 DEF Busy, Asleep, Mid, Stage
<1>6. CountInv'
  <2>1. /\ IsFiniteSet(Asleep \ {a}) /\ Cardinality(Asleep \ {a}) \in Nat
        /\ Cardinality(Busy \ {a}) \in Nat
    BY Finite, FS_RemoveElement, FS_CardinalityType, Zenon DEF IInv
  <2>2. Cardinality(Asleep') = Cardinality(Asleep \ {a}) + 1
    BY <1>5, <2>1, FS_AddElement
  <2> QED  BY <1>1, <1>4, <1>5, <2>1, <2>2 DEF CountInv, Mid
<1>7. VerdictInv'
  <2>1. Knows(fAllOk, Pending)'
    BY <1>1, <1>4, Zenon DEF Knows, Mid
  <2>2. \A b \in Actor : pc'[b] = "run" /\ ~fOk'[b] => ~fAllOk'
    BY <1>1 DEF Mid, Stage, IInv, TypeOK
  <2> QED  BY <2>1, <2>2 DEF VerdictInv
<1>8. NothingAdded'
  BY <1>1 DEF NothingAdded, Mid, IInv, Actor
<1>9. VerdictExact'
  BY <1>1 DEF IInv, VerdictExact
<1>10. MasterNotForgotten'
  <2>1. CASE a = Master
    <3>1. PendingBut({a}) # {}
      BY <1>1, <2>1, FS_EmptySet, Zenon DEF Mid
    <3>2. PICK w \in Worker : vChecks[w] # {}
      BY <1>1, <2>1, <3>1 DEF PendingBut, Actor
    <3>3. pc[w] = "run" /\ w # a
      BY <2>1, <3>2, QueueAssumption DEF IInv, TypeOK, Actor
    <3> QED  BY <1>1, <3>3 DEF MasterNotForgotten, Mid, Actor
  <2>2. CASE a # Master
    BY <1>1, <2>2 DEF MasterNotForgotten, Mid, Actor
  <2> QED  BY <2>1, <2>2
<1> QED  BY <1>3, <1>6, <1>7, <1>8, <1>9, <1>10 DEF IInv

\* The master returns only when nothing is pending, so its verdict is about all
\* checks that were added.
LEMMA ReturnKeeps ==
    ASSUME IInv, NEW a \in Actor, NEW total, NEW idle, NEW ok, NEW todo, NEW stages,
           Mid(a, total, idle, ok, todo, stages), nTodo' = todo, UNCHANGED interrupted,
           Return(a, total, idle, ok, todo, stages)
    PROVE  IInv'
<1>1. /\ pc' = [stages EXCEPT ![a] = "out"]
      /\ vChecks' = [vChecks EXCEPT ![a] = {}]
      /\ fRet' = [ok |-> ok, clean |-> added \cap Bad = {}] /\ added' = {}
      /\ fAllOk' = TRUE /\ nTotal' = total - 1 /\ nIdle' = idle
      /\ UNCHANGED <<queue, fOk>>
      /\ queue = {} /\ a = Master /\ todo = 0
  BY DEF Return
<1>2. PendingBut({a}) = {}
  BY <1>1, Finite, FS_EmptySet, Zenon DEF Mid, IInv
<1>3. \A b \in Actor : vChecks'[b] = {}
  BY <1>1, <1>2 DEF PendingBut, IInv, TypeOK
<1>4. \A b \in Actor : pc'[b] # "run"
  BY <1>1, <1>3 DEF IInv, TypeOK, Mid, Stage
<1>5. /\ Cardinality(Busy \ {a}) \in Nat /\ Cardinality(Asleep \ {a}) \in Nat
  BY Finite, FS_RemoveElement, FS_CardinalityType, Zenon DEF IInv
<1>6. TypeOK'
  <2>1. vChecks' \in [Actor -> SUBSET added']
    BY <1>1, <1>3 DEF IInv, TypeOK
  <2>2. {nIdle', nTotal', nTodo'} \subseteq Nat /\ fAllOk' \in BOOLEAN /\ pc' \in [Actor -> Stage]
    BY <1>1, <1>5 DEF Mid, Stage
  <2>3. fRet' \in [ok : BOOLEAN, clean : BOOLEAN]
    BY <1>1 DEF Mid
  <2>4. queue' = {} /\ fOk' \in [Actor -> BOOLEAN] /\ interrupted' \subseteq Actor
    BY <1>1 DEF IInv, TypeOK
  <2> QED  BY <1>1, <1>3, <1>4, <2>1, <2>2, <2>3, <2>4 DEF TypeOK, Stage
<1>7. CountInv'
  <2>1. Pending' = {} /\ Busy' = Busy \ {a} /\ Asleep' = Asleep \ {a}
    BY <1>1 DEF Pending, PendingBut, Busy, Asleep, Mid, Stage
  <2> QED  BY <1>1, <1>5, <2>1, FS_EmptySet DEF CountInv, Mid
<1>8. VerdictInv'
  BY <1>1, <1>4 DEF VerdictInv, Knows
<1>9. NothingAdded'
  BY <1>1 DEF NothingAdded
<1>10. VerdictExact'
  <2>1. ok <=> added \cap Bad = {}
    BY <1>2, Zenon DEF Mid, Knows
  <2> QED  BY <1>1, <2>1 DEF VerdictExact, Mid
<1>11. MasterNotForgotten'
  BY <1>1 DEF MasterNotForgotten, Mid, Actor
<1> QED  BY <1>6, <1>7, <1>8, <1>9, <1>10, <1>11 DEF IInv

\* Loop, from the test of the queue on.
LEMMA ProceedKeeps ==
    ASSUME IInv, NEW a \in Actor, NEW total, NEW idle, NEW ok, NEW todo, NEW stages,
           Mid(a, total, idle, ok, todo, stages), a = Master => pc[a] # "out",
           Proceed(a, total, idle, ok, todo, stages)
    PROVE  IInv'
BY TakeKeeps, SleepKeeps, ReturnKeeps DEF Proceed

\* A thread that enters Loop holds no checks.
LEMMA EnterKeeps ==
    ASSUME IInv, NEW a \in Actor, Enter(a)
    PROVE  IInv'
<1>1. pc[a] \in {"adding", "unwind", "out"} /\ vChecks[a] = {} /\ (a = Master => pc[a] # "out")
  BY QueueAssumption DEF Enter, IInv, TypeOK
<1>2. PendingBut({a}) = Pending /\ Busy \ {a} = Busy /\ Asleep \ {a} = Asleep
  BY <1>1 DEF PendingBut, Pending, Busy, Asleep
<1>3. /\ Cardinality(Busy) \in Nat
      /\ Cardinality(Busy \ {a}) = Cardinality(Busy)
  BY <1>2, Finite, FS_CardinalityType, Zenon DEF IInv
<1>4. a # Master /\ pc[Master] = "wait" => \E w \in Worker \ {a} : pc[w] = "run"
  BY <1>1 DEF IInv, MasterNotForgotten
<1>5. Mid(a, nTotal + 1, nIdle, fAllOk, nTodo, pc)
  <2>1. /\ nTotal + 1 \in Nat /\ nIdle \in Nat /\ fAllOk \in BOOLEAN
        /\ pc \in [Actor -> Stage]
        /\ nTotal + 1 = nIdle + Cardinality(Busy \ {a}) + 1
    BY <1>3 DEF IInv, TypeOK, CountInv, Stage
  <2>2. /\ nTodo = Cardinality(PendingBut({a}))
        /\ Cardinality(Asleep \ {a}) <= nIdle
        /\ Knows(fAllOk, PendingBut({a}))
        /\ \A b \in Actor \ {a} : pc[b] = "run" /\ ~fOk[b] => ~fAllOk
    BY <1>2 DEF IInv, CountInv, VerdictInv
  <2> QED  BY <1>4, <2>1, <2>2 DEF Mid
<1> QED  BY <1>1, <1>5, ProceedKeeps DEF Enter

\* A thread that is woken was counted as idle.
LEMMA WakeUpKeeps ==
    ASSUME IInv, NEW a \in Actor, WakeUp(a)
    PROVE  IInv'
<1>1. pc[a] = "woken" /\ vChecks[a] = {}
  BY DEF WakeUp, IInv, TypeOK
<1>2. PendingBut({a}) = Pending /\ Busy \ {a} = Busy /\ a \in Asleep
  BY <1>1 DEF PendingBut, Pending, Busy, Asleep
<1>3. /\ Cardinality(Busy) \in Nat /\ Cardinality(Asleep) \in Nat /\ Cardinality(Asleep \ {a}) \in Nat
      /\ Cardinality(Asleep \ {a}) = Cardinality(Asleep) - 1
      /\ Cardinality(Busy \ {a}) = Cardinality(Busy)
  BY <1>2, Finite, FS_CardinalityType, FS_RemoveElement, Zenon DEF IInv
<1>4. a # Master /\ pc[Master] = "wait" => \E w \in Worker \ {a} : pc[w] = "run"
  BY <1>1 DEF IInv, MasterNotForgotten
<1>5. Mid(a, nTotal, nIdle - 1, fAllOk, nTodo, pc)
  <2>1. /\ nTotal \in Nat /\ nIdle \in Nat /\ fAllOk \in BOOLEAN
        /\ pc \in [Actor -> Stage]
        /\ nTotal = nIdle + Cardinality(Busy) /\ Cardinality(Asleep) <= nIdle
    BY DEF IInv, TypeOK, CountInv, Stage
  <2>3. /\ nIdle - 1 \in Nat
        /\ nTotal = nIdle - 1 + Cardinality(Busy \ {a}) + 1
        /\ Cardinality(Asleep \ {a}) <= nIdle - 1
    BY <1>3, <2>1
  <2>2. /\ nTodo = Cardinality(PendingBut({a}))
        /\ Knows(fAllOk, PendingBut({a}))
        /\ \A b \in Actor \ {a} : pc[b] = "run" /\ ~fOk[b] => ~fAllOk
    BY <1>2 DEF IInv, CountInv, VerdictInv
  <2> QED  BY <1>4, <2>1, <2>2, <2>3 DEF Mid
<1> QED  BY <1>1, <1>5, ProceedKeeps DEF WakeUp

\* The batch that is handed in is taken off nTodo, its failure enters fAllOk, and
\* the master is woken if it was the last.
LEMMA FinishKeeps ==
    ASSUME IInv, NEW a \in Actor, FinishBatch(a)
    PROVE  IInv'
<1> DEFINE todo == nTodo - Cardinality(vChecks[a])
           ok == fAllOk /\ BatchOk(a)
           stages == NotifyMaster(a, todo)
<1>1. pc[a] = "run" /\ Proceed(a, nTotal, nIdle, ok, todo, stages)
  BY DEF FinishBatch
<1>2. todo = Cardinality(PendingBut({a}))
  <2>1. Pending = PendingBut({a}) \cup vChecks[a] /\ PendingBut({a}) \cap vChecks[a] = {}
    BY DEF Pending, PendingBut, IInv, TypeOK
  <2>2. /\ IsFiniteSet(PendingBut({a})) /\ IsFiniteSet(vChecks[a])
        /\ Cardinality(PendingBut({a})) \in Nat /\ Cardinality(vChecks[a]) \in Nat
    BY Finite, FS_CardinalityType DEF IInv
  <2>3. Cardinality(Pending) = Cardinality(PendingBut({a})) + Cardinality(vChecks[a])
    <3>1. Cardinality({}) = 0
      BY FS_EmptySet
    <3>2. Cardinality(PendingBut({a}) \cup vChecks[a])
            = Cardinality(PendingBut({a})) + Cardinality(vChecks[a]) - Cardinality(PendingBut({a}) \cap vChecks[a])
      BY <2>2, FS_Union, Zenon
    <3>3. /\ Cardinality(Pending) = Cardinality(PendingBut({a}) \cup vChecks[a])
          /\ Cardinality(PendingBut({a}) \cap vChecks[a]) = 0
      BY <2>1, <3>1, Zenon
    <3> QED  BY <2>2, <3>2, <3>3
  <2> QED  BY <2>2, <2>3 DEF IInv, CountInv
<1>3. Knows(ok, PendingBut({a}))
  <2>1. Pending = PendingBut({a}) \cup vChecks[a] /\ PendingBut({a}) \cap vChecks[a] = {}
    BY DEF Pending, PendingBut, IInv, TypeOK
  <2>2. vChecks[a] \subseteq added /\ fAllOk \in BOOLEAN /\ fOk[a] \in BOOLEAN
    BY DEF IInv, TypeOK
  <2>3. ASSUME fAllOk, vChecks[a] \cap Bad = {}
        PROVE  \A c \in added : c \in Bad => c \in PendingBut({a})
    BY <2>1, <2>3 DEF IInv, VerdictInv, Knows
  <2>4. ASSUME ~fAllOk
        PROVE  \E c \in added : c \in Bad /\ c \notin PendingBut({a})
    BY <2>1, <2>4 DEF IInv, VerdictInv, Knows
  <2>5. ASSUME vChecks[a] \cap Bad # {}
        PROVE  \E c \in added : c \in Bad /\ c \notin PendingBut({a})
    BY <2>1, <2>2, <2>5
  <2>6. ~fOk[a] => ~fAllOk
    BY <1>1 DEF IInv, VerdictInv
  <2> QED  BY <2>2, <2>3, <2>4, <2>5, <2>6 DEF Knows, BatchOk
<1>4. /\ stages \in [Actor -> Stage]
      /\ \A b \in Actor \ {a} : stages[b] = pc[b] \/ (pc[b] = "wait" /\ stages[b] = "woken")
  BY DEF NotifyMaster, IInv, TypeOK, Stage, Actor
<1>5. nTotal = nIdle + Cardinality(Busy \ {a}) + 1
  <2>1. a \in Busy
    BY <1>1 DEF Busy
  <2>2. Cardinality(Busy) \in Nat /\ Cardinality(Busy \ {a}) = Cardinality(Busy) - 1
    BY <2>1, Finite, FS_CardinalityType, FS_RemoveElement DEF IInv
  <2> QED  BY <2>2 DEF IInv, CountInv, TypeOK
<1>6. Asleep \ {a} = Asleep
  BY <1>1 DEF Asleep
<1>7. a # Master /\ stages[Master] = "wait" => queue # {} \/ \E w \in Worker \ {a} : pc[w] = "run"
  <2> SUFFICES ASSUME a # Master, stages[Master] = "wait", queue = {}
               PROVE  \E w \in Worker \ {a} : pc[w] = "run"
    OBVIOUS
  <2>1. pc[Master] = "wait" /\ todo # 0
    BY DEF NotifyMaster, IInv, TypeOK, Actor
  <2>2. PendingBut({a}) # {}
    BY <1>2, <2>1, FS_EmptySet
  <2>3. PICK w \in Actor \ {a} : vChecks[w] # {}
    BY <2>2 DEF PendingBut
  <2> QED  BY <2>1, <2>3 DEF IInv, TypeOK, Actor
<1>8. ok \in BOOLEAN /\ \A b \in Actor \ {a} : pc[b] = "run" /\ ~fOk[b] => ~ok
  BY DEF IInv, VerdictInv
<1>9. nTotal \in Nat /\ nIdle \in Nat /\ Cardinality(Asleep) <= nIdle
  BY DEF IInv, TypeOK, CountInv
<1> HIDE DEF todo, ok, stages
<1>10. Mid(a, nTotal, nIdle, ok, todo, stages)
  BY <1>2, <1>3, <1>4, <1>5, <1>6, <1>7, <1>8, <1>9 DEF Mid
<1> QED  BY <1>1, <1>10, ProceedKeeps

\* Steps that move no check and leave the counters alone: a thread wakes, an
\* interruption is requested or thrown, a control is made.
LEMMA StageKeeps ==
    ASSUME IInv, UNCHANGED <<queue, counters, fAllOk, vChecks, fOk, added, fRet>>,
           interrupted' \subseteq Actor, pc' \in [Actor -> Stage],
           \A b \in Actor : /\ pc'[b] = "run" <=> pc[b] = "run"
                            /\ pc'[b] \in {"wait", "woken"} => pc[b] \in {"wait", "woken"},
           pc'[Master] = "out" => pc[Master] = "out",
           pc'[Master] = "wait" => pc[Master] = "wait"
    PROVE  IInv'
<1>1. TypeOK'
  BY DEF IInv, TypeOK, Stage, counters
<1>2. Pending' = Pending /\ Busy' = Busy
  BY DEF Pending, PendingBut, Busy
<1>3. Cardinality(Asleep') <= Cardinality(Asleep)
  <2>1. Asleep' \subseteq Asleep
    BY DEF Asleep
  <2> QED  BY <2>1, Finite, FS_Subset DEF IInv
<1>4. CountInv'
  <2>1. Cardinality(Pending') = Cardinality(Pending) /\ Cardinality(Busy') = Cardinality(Busy)
    BY <1>2, Zenon
  <2>2. Cardinality(Asleep) \in Nat /\ Cardinality(Asleep') \in Nat
    <3>1. IsFiniteSet(Asleep) /\ Asleep' \subseteq Asleep
      BY Finite DEF IInv, Asleep
    <3> QED  BY <3>1, FS_Subset, FS_CardinalityType
  <2> QED  BY <1>3, <2>1, <2>2 DEF IInv, CountInv, TypeOK, counters
<1>5. VerdictInv'
  BY <1>2 DEF IInv, VerdictInv, Knows
<1>6. NothingAdded' /\ VerdictExact'
  BY DEF IInv, NothingAdded, VerdictExact
<1>7. MasterNotForgotten'
  BY DEF IInv, MasterNotForgotten, Actor
<1> QED  BY <1>1, <1>4, <1>5, <1>6, <1>7 DEF IInv

\* Add makes checks pending that were not known before.
LEMMA AddKeeps ==
    ASSUME IInv, NEW checks \in SUBSET Check, Add(checks)
    PROVE  IInv'
<1>1. /\ pc[Master] = "adding" /\ checks \subseteq Check \ added
      /\ queue' = queue \cup checks /\ added' = added \cup checks
      /\ nTodo' = nTodo + Cardinality(checks)
      /\ UNCHANGED <<nIdle, nTotal, fAllOk, vChecks, fOk, interrupted, fRet>>
  BY DEF Add
<1>2. PICK W \in SUBSET Worker : /\ \A w \in W : pc[w] = "wait"
                                 /\ pc' = [a \in Actor |-> IF a \in W THEN "woken" ELSE pc[a]]
  BY DEF Add, NotifyWorkers
<1>3. IsFiniteSet(checks) /\ Cardinality(checks) \in Nat
  BY QueueAssumption, FS_Subset, FS_CardinalityType
<1>4. TypeOK'
  <2>1. \A b \in Actor : /\ vChecks'[b] # {} <=> pc'[b] = "run"
                         /\ vChecks'[b] \cap queue' = {}
                         /\ \A d \in Actor \ {b} : vChecks'[b] \cap vChecks'[d] = {}
    BY <1>1, <1>2 DEF IInv, TypeOK
  <2>2. nTodo' \in Nat /\ pc' \in [Actor -> Stage]
    BY <1>1, <1>2, <1>3 DEF IInv, TypeOK, Stage
  <2>3. vChecks' \in [Actor -> SUBSET added'] /\ queue' \subseteq added' /\ added' \subseteq Check
    BY <1>1 DEF IInv, TypeOK
  <2> QED  BY <1>1, <2>1, <2>2, <2>3 DEF IInv, TypeOK, Stage
<1>5. Pending' = Pending \cup checks /\ Pending \cap checks = {}
  BY <1>1 DEF Pending, PendingBut, IInv, TypeOK
<1>6. Busy' = Busy /\ Asleep' = Asleep
  BY <1>2 DEF Busy, Asleep
<1>7. CountInv'
  <2>1. IsFiniteSet(Pending) /\ Cardinality(Pending) \in Nat
    BY Finite, FS_CardinalityType DEF IInv, Pending
  <2>2. Cardinality({}) = 0
    BY FS_EmptySet
  <2>3. Cardinality(Pending \cup checks)
          = Cardinality(Pending) + Cardinality(checks) - Cardinality(Pending \cap checks)
    BY <1>3, <2>1, FS_Union
  <2>4. /\ Cardinality(Pending') = Cardinality(Pending \cup checks)
        /\ Cardinality(Pending \cap checks) = 0
        /\ Cardinality(Busy') = Cardinality(Busy) /\ Cardinality(Asleep') = Cardinality(Asleep)
    BY <1>5, <1>6, <2>2, Zenon
  <2> QED  BY <1>1, <1>3, <2>1, <2>3, <2>4 DEF IInv, CountInv
<1>8. VerdictInv'
  <2>1. Knows(fAllOk, Pending)'
    BY <1>1, <1>5 DEF IInv, VerdictInv, Knows
  <2> QED  BY <1>1, <1>2, <2>1 DEF IInv, VerdictInv
<1>9. pc'[Master] = "adding"
  BY <1>1, <1>2, QueueAssumption DEF Actor
<1> QED  BY <1>1, <1>4, <1>7, <1>8, <1>9 DEF IInv, NothingAdded, VerdictExact, MasterNotForgotten

-----------------------------------------------------------------------------

\* No thread has entered Loop.
LEMMA InitIInv ==
    ASSUME Init
    PROVE  IInv
<1>1. Pending = {} /\ Busy = {} /\ Asleep = {}
  BY DEF Init, Pending, PendingBut, Busy, Asleep
<1>2. Cardinality(Pending) = 0 /\ Cardinality(Busy) = 0 /\ Cardinality(Asleep) = 0
  <2>1. Cardinality({}) = 0
    BY FS_EmptySet
  <2> QED  BY <1>1, <2>1, Zenon
<1>3. CountInv
  BY <1>2 DEF Init, CountInv
<1>4. TypeOK
  BY DEF Init, TypeOK
<1>5. VerdictInv /\ NothingAdded /\ VerdictExact
  BY DEF Init, VerdictInv, Knows, NothingAdded, VerdictExact
<1>6. MasterNotForgotten
  BY DEF Init, MasterNotForgotten, Actor
<1> QED  BY <1>3, <1>4, <1>5, <1>6 DEF IInv

\* One case per action.
LEMMA NextIInv ==
    ASSUME IInv, [Next]_vars
    PROVE  IInv'
<1>1. ASSUME NEW a \in Actor, Spurious(a)
      PROVE  IInv'
  <2>1. /\ pc' \in [Actor -> Stage] /\ interrupted' \subseteq Actor
        /\ \A b \in Actor : /\ pc'[b] = "run" <=> pc[b] = "run"
                            /\ pc'[b] \in {"wait", "woken"} => pc[b] \in {"wait", "woken"}
        /\ pc'[Master] = "out" => pc[Master] = "out"
        /\ pc'[Master] = "wait" => pc[Master] = "wait"
    BY <1>1 DEF Spurious, IInv, TypeOK, Stage, Actor
  <2> QED  BY <1>1, <2>1, StageKeeps DEF Spurious, counters
<1>2. ASSUME NEW a \in Actor, Interrupted(a)
      PROVE  IInv'
  <2>1. /\ pc' \in [Actor -> Stage] /\ interrupted' \subseteq Actor
        /\ \A b \in Actor : /\ pc'[b] = "run" <=> pc[b] = "run"
                            /\ pc'[b] \in {"wait", "woken"} => pc[b] \in {"wait", "woken"}
        /\ pc'[Master] = "out" => pc[Master] = "out"
        /\ pc'[Master] = "wait" => pc[Master] = "wait"
    BY <1>2 DEF Interrupted, IInv, TypeOK, Stage, Actor
  <2> QED  BY <1>2, <2>1, StageKeeps DEF Interrupted, counters
<1>3. CASE CCheckQueueControl
  <2>1. /\ pc' \in [Actor -> Stage] /\ interrupted' \subseteq Actor
        /\ \A b \in Actor : /\ pc'[b] = "run" <=> pc[b] = "run"
                            /\ pc'[b] \in {"wait", "woken"} => pc[b] \in {"wait", "woken"}
        /\ pc'[Master] = "out" => pc[Master] = "out"
        /\ pc'[Master] = "wait" => pc[Master] = "wait"
    BY <1>3 DEF CCheckQueueControl, IInv, TypeOK, Stage, Actor
  <2> QED  BY <1>3, <2>1, StageKeeps DEF CCheckQueueControl, counters
<1>4. CASE InterruptAll
  <2>1. interrupted' \subseteq Actor /\ pc' \in [Actor -> Stage]
    BY <1>4 DEF InterruptAll, IInv, TypeOK, Stage, Actor
  <2> QED  BY <1>4, <2>1, StageKeeps DEF InterruptAll, counters
<1>5. CASE UNCHANGED vars
  <2>1. interrupted' \subseteq Actor /\ pc' \in [Actor -> Stage]
    BY <1>5 DEF vars, IInv, TypeOK, Stage
  <2> QED  BY <1>5, <2>1, StageKeeps DEF vars, counters
<1> QED
  BY <1>1, <1>2, <1>3, <1>4, <1>5, EnterKeeps, FinishKeeps, WakeUpKeeps, AddKeeps DEF Next, LoopStep

\* Types, and every check that was added and not done is in the queue or in
\* exactly one batch: Loop neither loses nor duplicates a check.
THEOREM TypeCorrect == Spec => []TypeOK
<1>1. Init => IInv
  BY InitIInv
<1>2. IInv /\ [Next]_vars => IInv'
  BY NextIInv
<1>3. IInv => TypeOK
  BY DEF IInv
<1> QED  BY <1>1, <1>2, <1>3, PTL DEF Spec

\* Wait returns true exactly if every check that was added returns true.
THEOREM VerdictIsExact == Spec => []VerdictExact
<1>1. Init => IInv
  BY InitIInv
<1>2. IInv /\ [Next]_vars => IInv'
  BY NextIInv
<1>3. IInv => VerdictExact
  BY DEF IInv
<1> QED  BY <1>1, <1>2, <1>3, PTL DEF Spec

\* The assertion in the constructor of CCheckQueueControl holds.
THEOREM ControlFindsIdleQueue == Spec => []IdleBetweenBlocks
<1>1. Init => IInv
  BY InitIInv
<1>2. IInv /\ [Next]_vars => IInv'
  BY NextIInv
<1>3. ASSUME IInv, pc[Master] = "out"
      PROVE  IsIdle
  <2>1. added = {} /\ \A a \in Actor : vChecks[a] = {}
    BY <1>3 DEF IInv, NothingAdded, TypeOK
  <2>2. Pending = {} /\ Busy = {}
    BY <1>3, <2>1 DEF Pending, PendingBut, Busy, IInv, TypeOK
  <2>3. Cardinality(Pending) = 0 /\ Cardinality(Busy) = 0
    <3>1. Cardinality({}) = 0
      BY FS_EmptySet
    <3> QED  BY <2>2, <3>1, Zenon
  <2>4. nTodo = 0 /\ nTotal = nIdle
    BY <1>3, <2>3 DEF IInv, CountInv, TypeOK
  <2>5. fAllOk
    BY <1>3, <2>1 DEF IInv, VerdictInv, Knows
  <2> QED  BY <2>4, <2>5 DEF IsIdle
<1>4. IInv => IdleBetweenBlocks
  BY <1>3 DEF IdleBetweenBlocks
<1> QED  BY <1>1, <1>2, <1>4, PTL DEF Spec

\* No wake-up of the master is lost.
THEOREM MasterIsWoken == Spec => []MasterNotForgotten
<1>1. Init => IInv
  BY InitIInv
<1>2. IInv /\ [Next]_vars => IInv'
  BY NextIInv
<1>3. IInv => MasterNotForgotten
  BY DEF IInv
<1> QED  BY <1>1, <1>2, <1>3, PTL DEF Spec

=============================================================================
