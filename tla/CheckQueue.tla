----------------------------- MODULE CheckQueue -----------------------------
(***************************************************************************)
(* CCheckQueue and CCheckQueueControl (checkqueue.h), as ConnectBlock uses *)
(* them for script checks: a master adds checks and then joins the workers *)
(* until all are done.  A step is one critical section of the mutex; the   *)
(* checks of a batch are run between two of them and touch nothing shared. *)
(* Checks are taken from the queue in any order ("the order of booleans    *)
(* doesn't matter").  fQuit is never set by the program and is left out.   *)
(***************************************************************************)
EXTENDS Integers, FiniteSets

CONSTANTS
    Worker,      \* threads running ThreadScriptCheck
    Master,      \* the thread that connects a block; it holds cs_main
    Check,       \* script checks of a block
    Bad,         \* those that return false
    nBatchSize

ASSUME QueueAssumption ==
    /\ IsFiniteSet(Worker) /\ Master \notin Worker
    /\ IsFiniteSet(Check) /\ Bad \subseteq Check
    /\ nBatchSize \in Nat \ {0}

Actor == Worker \cup {Master}

VARIABLES
    queue,
    nIdle,
    nTotal,
    fAllOk,
    nTodo,
    pc,           \* "out" of Loop, "adding" (a control exists), "run" (a batch), "wait", "woken", "unwind", "gone"
    vChecks,      \* the batch of each thread
    fOk,          \* what fAllOk was when the batch was taken
    interrupted,  \* threads with an interruption pending
    added,        \* history: checks added under the current control
    fRet          \* history: what the last Wait returned, and whether its checks were all good

counters == <<nIdle, nTotal, nTodo>>

vars == <<queue, nIdle, nTotal, fAllOk, nTodo, pc, vChecks, fOk, interrupted, added, fRet>>

Init ==
    /\ queue = {} /\ nIdle = 0 /\ nTotal = 0 /\ fAllOk = TRUE /\ nTodo = 0
    /\ pc = [a \in Actor |-> "out"]
    /\ vChecks = [a \in Actor |-> {}]
    /\ fOk = [a \in Actor |-> TRUE]
    /\ interrupted = {}
    /\ added = {}
    /\ fRet = [ok |-> TRUE, clean |-> TRUE]

-----------------------------------------------------------------------------
(* Loop from the test of the queue on, for thread a, with the counters as  *)
(* the code before has left them and with stages where others are woken.   *)

BatchLength(total, idle) ==
    LET share == Cardinality(queue) \div (total + idle + 1)
        least == IF share < nBatchSize THEN share ELSE nBatchSize
    IN  IF least > 1 THEN least ELSE 1

TakeBatch(a, total, idle, ok, stages) ==
    /\ queue # {}
    /\ \E batch \in SUBSET queue :
          /\ Cardinality(batch) = BatchLength(total, idle)
          /\ queue' = queue \ batch
          /\ vChecks' = [vChecks EXCEPT ![a] = batch]
    /\ fOk' = [fOk EXCEPT ![a] = ok]
    /\ pc' = [stages EXCEPT ![a] = "run"]
    /\ fAllOk' = ok /\ nTotal' = total /\ nIdle' = idle
    /\ UNCHANGED <<added, fRet>>

Sleep(a, total, idle, ok, todo, stages) ==
    /\ queue = {} /\ ~(a = Master /\ todo = 0)
    /\ pc' = [stages EXCEPT ![a] = "wait"]
    /\ vChecks' = [vChecks EXCEPT ![a] = {}]
    /\ fAllOk' = ok /\ nTotal' = total /\ nIdle' = idle + 1
    /\ UNCHANGED <<queue, fOk, added, fRet>>

\* Mutant: the verdict is not reset for the next block.
ReturnKeepsVerdict(a, total, idle, ok, todo, stages) ==
    /\ queue = {} /\ a = Master /\ todo = 0
    /\ pc' = [stages EXCEPT ![a] = "out"]
    /\ vChecks' = [vChecks EXCEPT ![a] = {}]
    /\ fRet' = [ok |-> ok, clean |-> added \cap Bad = {}] /\ added' = {}
    /\ fAllOk' = ok /\ nTotal' = total - 1 /\ nIdle' = idle
    /\ UNCHANGED <<queue, fOk>>

Return(a, total, idle, ok, todo, stages) ==
    /\ queue = {} /\ a = Master /\ todo = 0
    /\ pc' = [stages EXCEPT ![a] = "out"]
    /\ vChecks' = [vChecks EXCEPT ![a] = {}]
    /\ fRet' = [ok |-> ok, clean |-> added \cap Bad = {}] /\ added' = {}
    /\ fAllOk' = TRUE /\ nTotal' = total - 1 /\ nIdle' = idle
    /\ UNCHANGED <<queue, fOk>>

Proceed(a, total, idle, ok, todo, stages) ==
    /\ nTodo' = todo
    /\ \/ TakeBatch(a, total, idle, ok, stages)
       \/ Sleep(a, total, idle, ok, todo, stages)
       \/ Return(a, total, idle, ok, todo, stages)
    /\ UNCHANGED interrupted

-----------------------------------------------------------------------------

\* Loop is entered: by a worker, by Wait, and by the destructor of a control
\* whose Wait was interrupted or never called.
Enter(a) ==
    /\ pc[a] \in {"adding", "unwind"} \/ (a \in Worker /\ pc[a] = "out")
    /\ Proceed(a, nTotal + 1, nIdle, fAllOk, nTodo, pc)

\* Mutant: a batch that was cut short does not count as failed.
BatchOkSkipped(a) == fOk[a] => vChecks[a] \cap Bad = {} \/ Cardinality(vChecks[a]) > 1

\* fOk when the batch is done.
BatchOk(a) == fOk[a] /\ vChecks[a] \cap Bad = {}

\* Mutant: the master is woken one check too early.
NotifyMasterEarly(a, todo) ==
    IF todo = 1 /\ a # Master /\ pc[Master] = "wait" THEN [pc EXCEPT ![Master] = "woken"] ELSE pc

NotifyMaster(a, todo) ==
    IF todo = 0 /\ a # Master /\ pc[Master] = "wait" THEN [pc EXCEPT ![Master] = "woken"] ELSE pc

\* Mutant: a worker that is interrupted while it checks does not enter its result.
FinishBatchInterrupted(a) ==
    /\ pc[a] = "run" /\ a \notin interrupted \cap Worker
    /\ LET todo == nTodo - Cardinality(vChecks[a])
       IN  Proceed(a, nTotal, nIdle, fAllOk /\ BatchOk(a), todo, NotifyMaster(a, todo))

\* The batch is done; its result is entered and the next one is looked for.
FinishBatch(a) ==
    /\ pc[a] = "run"
    /\ LET todo == nTodo - Cardinality(vChecks[a])
       IN  Proceed(a, nTotal, nIdle, fAllOk /\ BatchOk(a), todo, NotifyMaster(a, todo))

\* cond.wait returns.
WakeUp(a) ==
    /\ pc[a] = "woken" /\ a \notin interrupted
    /\ Proceed(a, nTotal, nIdle - 1, fAllOk, nTodo, pc)

Spurious(a) ==
    /\ pc[a] = "wait"
    /\ pc' = [pc EXCEPT ![a] = "woken"]
    /\ UNCHANGED <<queue, counters, fAllOk, vChecks, fOk, interrupted, added, fRet>>

-----------------------------------------------------------------------------

IsIdle == nTotal = nIdle /\ nTodo = 0 /\ fAllOk

\* The constructor of CCheckQueueControl, in ConnectBlock.  The node stops when
\* its assertion fails.
CCheckQueueControl ==
    /\ pc[Master] = "out"
    /\ IsIdle
    /\ pc' = [pc EXCEPT ![Master] = "adding"]
    /\ UNCHANGED <<queue, counters, fAllOk, vChecks, fOk, interrupted, added, fRet>>

\* notify_one for a single check, notify_all for more.
NotifyWorkers(n) ==
    LET asleep == {w \in Worker : pc[w] = "wait"}
        woken == IF n = 0 \/ asleep = {} THEN {{}} ELSE IF n = 1 THEN {{w} : w \in asleep} ELSE {asleep}
    IN  \E W \in woken : pc' = [a \in Actor |-> IF a \in W THEN "woken" ELSE pc[a]]

Add(checks) ==
    /\ pc[Master] = "adding"
    /\ checks \subseteq Check \ added
    /\ queue' = queue \cup checks
    /\ nTodo' = nTodo + Cardinality(checks)
    /\ NotifyWorkers(Cardinality(checks))
    /\ added' = added \cup checks
    /\ UNCHANGED <<nIdle, nTotal, fAllOk, vChecks, fOk, interrupted, fRet>>

\* threadGroup.interrupt_all(); the master may be in the group (block import,
\* staking) or not (message handler, RPC).
InterruptAll ==
    /\ interrupted = {} /\ Worker # {}
    /\ \E group \in {Worker, Actor} : interrupted' = group
    /\ UNCHANGED <<queue, counters, fAllOk, pc, vChecks, fOk, added, fRet>>

\* cond.wait throws thread_interrupted: nIdle and nTotal still count the thread,
\* and the master's stack unwinds into the destructor of its control.
Interrupted(a) ==
    /\ pc[a] \in {"wait", "woken"} /\ a \in interrupted
    /\ pc' = [pc EXCEPT ![a] = IF a = Master THEN "unwind" ELSE "gone"]
    /\ interrupted' = IF a = Master THEN interrupted \ {a} ELSE interrupted
    /\ UNCHANGED <<queue, counters, fAllOk, vChecks, fOk, added, fRet>>

LoopStep(a) == Enter(a) \/ FinishBatch(a) \/ WakeUp(a) \/ Interrupted(a)

Next ==
    \/ \E a \in Actor : LoopStep(a) \/ Spurious(a)
    \/ CCheckQueueControl
    \/ \E checks \in SUBSET Check : Add(checks)
    \/ InterruptAll

Spec == Init /\ [][Next]_vars

\* A thread that can go on in Loop does so in the end.
FairSpec == Spec /\ \A a \in Actor : WF_vars(LoopStep(a))

-----------------------------------------------------------------------------
(* Properties *)

\* Types, and no check is in the queue and in a batch, or in two batches.
TypeOK ==
    /\ {nIdle, nTotal, nTodo} \subseteq Nat /\ fAllOk \in BOOLEAN
    /\ pc \in [Actor -> {"out", "adding", "run", "wait", "woken", "unwind", "gone"}]
    /\ fOk \in [Actor -> BOOLEAN]
    /\ vChecks \in [Actor -> SUBSET added] /\ queue \subseteq added /\ added \subseteq Check
    /\ interrupted \subseteq Actor
    /\ fRet \in [ok : BOOLEAN, clean : BOOLEAN]
    /\ \A a \in Actor : /\ vChecks[a] # {} <=> pc[a] = "run"
                       /\ vChecks[a] \cap queue = {}
                       /\ \A b \in Actor \ {a} : vChecks[a] \cap vChecks[b] = {}

\* What Wait tells ConnectBlock: true exactly if no check added under the control
\* fails, however the checks are shared out, cut short after a failure and
\* collected, and whatever happened to earlier blocks.
VerdictExact == fRet.ok = fRet.clean

\* The queue is idle and its verdict is reset whenever no block is connected, so
\* that the assertion of CCheckQueueControl holds; also when workers or an
\* earlier master were interrupted in the middle.
IdleBetweenBlocks == pc[Master] = "out" => IsIdle

\* A master that sleeps is not forgotten: another thread still has a batch, and
\* will wake the master after the last.
MasterNotForgotten == pc[Master] = "wait" => \E w \in Worker : pc[w] = "run"

\* ConnectBlock gets out of the queue again, with workers starting late or
\* interrupted at any moment.
WaitReturns == pc[Master] # "out" ~> pc[Master] = "out"

=============================================================================
