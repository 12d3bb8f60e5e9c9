--------------------------- MODULE ValidationQueue ---------------------------
(***************************************************************************)
(* The queue of validation callbacks: SingleThreadedSchedulerClient on top *)
(* of CScheduler, the threads that fill it and wait for it, and how it is  *)
(* drained at shutdown.  A step is one critical section.                   *)
(*                                                                         *)
(* Callbacks are numbered as they are queued.  Most of them take cs_main   *)
(* (the wallet's do), so they cannot run while another thread holds it.    *)
(* The scheduler's tasks are all ProcessQueue: only their number matters.  *)
(***************************************************************************)
EXTENDS Integers, Sequences, FiniteSets

CONSTANTS
    Thread,     \* threads in CScheduler::serviceQueue
    Importer,   \* threads of threadGroup that connect blocks (ThreadImport, ThreadStakeMinter)
    Caller,     \* RPC threads
    Main,       \* the thread that runs PrepareShutdown
    Null,
    Backlog,    \* callbacks that may wait before ActivateBestChain stops (10)
    MayStop,    \* whether the node is shut down
    MaxCalls    \* bound: rounds of ActivateBestChain and RPC calls

ASSUME QueueAssumption ==
    /\ Backlog \in Nat /\ MaxCalls \in Nat /\ MayStop \in BOOLEAN
    /\ Main \notin Thread \cup Importer \cup Caller
    /\ Thread \cap (Importer \cup Caller) = {} /\ Importer \cap Caller = {}
    /\ Null \notin Thread \cup Importer \cup Caller \cup {Main}

VARIABLES
    tasks,                    \* ProcessQueue tasks in taskQueue
    m_callbacks_pending,
    m_are_callbacks_running,
    pc,                       \* where each thread is
    ret,                      \* where it goes on after the queue's own code
    current,                  \* the callback it runs
    waitFor,                  \* the callback that sets its promise, 0 for none
    entered,                  \* callbacks queued when its last call to Sync began
    csMain,                   \* holder of cs_main, or Null
    interrupted,              \* threadGroup.interrupt_all() was called
    inPool,                   \* the transaction of the RPC calls is in the mempool
    calls,
    issued,                   \* callbacks queued so far
    started,                  \* callbacks invoked so far, in order
    finished                  \* callbacks that have returned

queueVars == <<tasks, m_callbacks_pending, m_are_callbacks_running, issued, started, finished>>

vars == <<queueVars, pc, ret, current, waitFor, entered, csMain, interrupted, inPool, calls>>

Actor == Thread \cup Importer \cup Caller \cup {Main}

Goto(a, stage) == pc' = [pc EXCEPT ![a] = stage]

Init ==
    /\ tasks = 0 /\ m_callbacks_pending = <<>> /\ m_are_callbacks_running = FALSE
    /\ pc = [a \in Actor |-> IF a \in Thread THEN "serve" ELSE "idle"]
    /\ ret = [a \in Actor |-> IF a \in Thread THEN "serve" ELSE "idle"]
    /\ current = [a \in Actor |-> 0]
    /\ waitFor = [a \in Actor |-> 0] /\ entered = [a \in Actor |-> 0]
    /\ csMain = Null /\ interrupted = FALSE /\ inPool = FALSE
    /\ calls = 0 /\ issued = 0 /\ started = <<>> /\ finished = {}

-----------------------------------------------------------------------------
(* SingleThreadedSchedulerClient.                                          *)

\* Mutant: the callback goes to the front of the queue.
AddToProcessQueueFront(a, next) ==
    /\ m_callbacks_pending' = <<issued + 1>> \o m_callbacks_pending
    /\ issued' = issued + 1
    /\ pc' = [pc EXCEPT ![a] = "maybe"] /\ ret' = [ret EXCEPT ![a] = next]
    /\ UNCHANGED <<tasks, m_are_callbacks_running, started, finished>>

\* First half of AddToProcessQueue; next is where the caller goes on afterwards.
AddToProcessQueue(a, next) ==
    /\ m_callbacks_pending' = Append(m_callbacks_pending, issued + 1)
    /\ issued' = issued + 1
    /\ pc' = [pc EXCEPT ![a] = "maybe"] /\ ret' = [ret EXCEPT ![a] = next]
    /\ UNCHANGED <<tasks, m_are_callbacks_running, started, finished>>

MaybeScheduleProcessQueue(a) ==
    /\ pc[a] = "maybe"
    /\ Goto(a, IF m_are_callbacks_running \/ m_callbacks_pending = <<>> THEN ret[a] ELSE "schedule")
    /\ UNCHANGED <<queueVars, ret, current, waitFor, entered, csMain, interrupted, inPool, calls>>

Schedule(a) ==
    /\ pc[a] = "schedule"
    /\ tasks' = tasks + 1
    /\ Goto(a, ret[a])
    /\ UNCHANGED <<m_callbacks_pending, m_are_callbacks_running, issued, started, finished,
                   ret, current, waitFor, entered, csMain, interrupted, inPool, calls>>

\* Mutant: the flag is only set, not tested.
ProcessQueueUntested(a) ==
    /\ pc[a] = "process"
    /\ m_callbacks_pending # <<>>
    /\ m_are_callbacks_running' = TRUE
    /\ m_callbacks_pending' = Tail(m_callbacks_pending)
    /\ current' = [current EXCEPT ![a] = Head(m_callbacks_pending)]
    /\ started' = Append(started, Head(m_callbacks_pending))
    /\ Goto(a, "callback")
    /\ UNCHANGED <<tasks, issued, finished, ret, waitFor, entered, csMain, interrupted, inPool, calls>>

\* First critical section of ProcessQueue.
ProcessQueue(a) ==
    /\ pc[a] = "process"
    /\ \/ /\ m_are_callbacks_running \/ m_callbacks_pending = <<>>
          /\ Goto(a, ret[a])
          /\ UNCHANGED <<queueVars, current>>
       \/ /\ ~m_are_callbacks_running /\ m_callbacks_pending # <<>>
          /\ m_are_callbacks_running' = TRUE
          /\ m_callbacks_pending' = Tail(m_callbacks_pending)
          /\ current' = [current EXCEPT ![a] = Head(m_callbacks_pending)]
          /\ started' = Append(started, Head(m_callbacks_pending))
          /\ Goto(a, "callback")
          /\ UNCHANGED <<tasks, issued, finished>>
    /\ UNCHANGED <<ret, waitFor, entered, csMain, interrupted, inPool, calls>>

\* The callback runs to its end, with cs_main.  One that throws would end serviceQueue, and with
\* TraceThread, which throws again, the process: callbacks are taken to return.
Callback(a) ==
    /\ pc[a] = "callback" /\ csMain = Null
    /\ finished' = finished \cup {current[a]}
    /\ Goto(a, "reset")
    /\ UNCHANGED <<tasks, m_callbacks_pending, m_are_callbacks_running, issued, started,
                   ret, current, waitFor, entered, csMain, interrupted, inPool, calls>>

\* Mutant: the flag is reset, and nothing is scheduled for the rest of the queue.
ResetRunningOnly(a) ==
    /\ pc[a] = "reset"
    /\ m_are_callbacks_running' = FALSE
    /\ Goto(a, ret[a])
    /\ UNCHANGED <<tasks, m_callbacks_pending, issued, started, finished,
                   ret, current, waitFor, entered, csMain, interrupted, inPool, calls>>

\* ~RAIICallbacksRunning, up to its call of MaybeScheduleProcessQueue.
ResetRunning(a) ==
    /\ pc[a] = "reset"
    /\ m_are_callbacks_running' = FALSE
    /\ Goto(a, "maybe")
    /\ UNCHANGED <<tasks, m_callbacks_pending, issued, started, finished,
                   ret, current, waitFor, entered, csMain, interrupted, inPool, calls>>

-----------------------------------------------------------------------------
(* CScheduler::serviceQueue.                                               *)

\* Mutant: the last task is left in the queue.
ServiceQueueLeavesLast(t) ==
    /\ pc[t] = "serve" /\ tasks > 1 /\ ~interrupted
    /\ tasks' = tasks - 1
    /\ pc' = [pc EXCEPT ![t] = "process"] /\ ret' = [ret EXCEPT ![t] = "serve"]
    /\ UNCHANGED <<m_callbacks_pending, m_are_callbacks_running, issued, started, finished,
                   current, waitFor, entered, csMain, interrupted, inPool, calls>>

ServiceQueue(t) ==
    /\ pc[t] = "serve" /\ tasks > 0 /\ ~interrupted
    /\ tasks' = tasks - 1
    /\ pc' = [pc EXCEPT ![t] = "process"] /\ ret' = [ret EXCEPT ![t] = "serve"]
    /\ UNCHANGED <<m_callbacks_pending, m_are_callbacks_running, issued, started, finished,
                   current, waitFor, entered, csMain, interrupted, inPool, calls>>

\* boost::thread_interrupted out of the wait for a task.
ServiceQueueInterrupted(t) ==
    /\ pc[t] = "serve" /\ interrupted
    /\ Goto(t, "gone")
    /\ UNCHANGED <<queueVars, ret, current, waitFor, entered, csMain, interrupted, inPool, calls>>

-----------------------------------------------------------------------------
(* SyncWithValidationInterfaceQueue, and the wait for a promise.           *)

CallbacksPending == Len(m_callbacks_pending)

SyncWithValidationInterfaceQueue(a) ==
    /\ pc[a] = "sync"
    /\ entered' = [entered EXCEPT ![a] = issued]
    /\ Goto(a, IF CallbacksPending = 0 THEN "synced" ELSE "syncAdd")
    /\ UNCHANGED <<queueVars, ret, current, waitFor, csMain, interrupted, inPool, calls>>

SyncAdd(a) ==
    /\ pc[a] = "syncAdd"
    /\ AddToProcessQueue(a, "wait")
    /\ waitFor' = [waitFor EXCEPT ![a] = issued + 1]
    /\ UNCHANGED <<current, entered, csMain, interrupted, inPool, calls>>

Wait(a) ==
    /\ pc[a] = "wait" /\ waitFor[a] \in finished
    /\ Goto(a, "synced")
    /\ UNCHANGED <<queueVars, ret, current, waitFor, entered, csMain, interrupted, inPool, calls>>

-----------------------------------------------------------------------------
(* ActivateBestChain in a thread of threadGroup.                           *)

\* A round: wait when the queue has grown, then connect a block.
ActivateBestChain(i) ==
    /\ pc[i] = "idle" /\ ~interrupted /\ calls < MaxCalls
    /\ calls' = calls + 1
    /\ Goto(i, IF CallbacksPending > Backlog THEN "sync" ELSE "synced")
    /\ UNCHANGED <<queueVars, ret, current, waitFor, entered, csMain, interrupted, inPool>>

\* BlockConnected and UpdatedBlockTip are queued under cs_main; one stands for both.
ActivateBestChainStep(i) ==
    /\ pc[i] = "synced" /\ csMain = Null
    /\ csMain' = i
    /\ AddToProcessQueue(i, "unlock")
    /\ UNCHANGED <<current, waitFor, entered, interrupted, inPool, calls>>

Unlock(i) ==
    /\ pc[i] = "unlock"
    /\ csMain' = Null
    /\ Goto(i, "idle")
    /\ UNCHANGED <<queueVars, ret, current, waitFor, entered, interrupted, inPool, calls>>

\* interruption_point at the head of the loop.
ImporterInterrupted(i) ==
    /\ pc[i] = "idle" /\ interrupted
    /\ Goto(i, "gone")
    /\ UNCHANGED <<queueVars, ret, current, waitFor, entered, csMain, interrupted, inPool, calls>>

-----------------------------------------------------------------------------
(* RPC threads: the syncwithvalidationinterfacequeue call and TryATMP.     *)

CanCall(c) == pc[c] = "idle" /\ pc[Main] = "idle" /\ calls < MaxCalls

CallSync(c) ==
    /\ CanCall(c)
    /\ calls' = calls + 1
    /\ Goto(c, "sync")
    /\ UNCHANGED <<queueVars, ret, current, waitFor, entered, csMain, interrupted, inPool>>

\* TryATMP with a transaction that AcceptToMemoryPool takes, which queues
\* TransactionAddedToMempool.
TryATMP(c) ==
    /\ CanCall(c) /\ csMain = Null /\ ~inPool
    /\ calls' = calls + 1
    /\ csMain' = c /\ inPool' = TRUE
    /\ AddToProcessQueue(c, "promise")
    /\ UNCHANGED <<current, waitFor, entered, interrupted>>

TryATMPPromise(c) ==
    /\ pc[c] = "promise"
    /\ AddToProcessQueue(c, "unlockWait")
    /\ waitFor' = [waitFor EXCEPT ![c] = issued + 1]
    /\ UNCHANGED <<current, entered, csMain, interrupted, inPool, calls>>

\* Mutant: the wait is inside the scope of cs_main.
TryATMPUnlockLate(c) ==
    /\ pc[c] = "unlockWait"
    /\ Goto(c, "wait")
    /\ UNCHANGED <<queueVars, ret, current, waitFor, entered, csMain, interrupted, inPool, calls>>

TryATMPUnlock(c) ==
    /\ pc[c] = "unlockWait"
    /\ csMain' = Null
    /\ Goto(c, "wait")
    /\ UNCHANGED <<queueVars, ret, current, waitFor, entered, interrupted, inPool, calls>>

\* The transaction is in the mempool already: nobody sets the promise.
TryATMPKnown(c) ==
    /\ CanCall(c) /\ csMain = Null /\ inPool
    /\ calls' = calls + 1
    /\ waitFor' = [waitFor EXCEPT ![c] = 0]
    /\ Goto(c, "wait")
    /\ UNCHANGED <<queueVars, ret, current, entered, csMain, interrupted, inPool>>

Return(c) ==
    /\ pc[c] = "synced"
    /\ Goto(c, "idle")
    /\ UNCHANGED <<queueVars, ret, current, waitFor, entered, csMain, interrupted, inPool, calls>>

-----------------------------------------------------------------------------
(* PrepareShutdown.                                                        *)

StartShutdown ==
    /\ MayStop /\ pc[Main] = "idle"
    /\ Goto(Main, "stopServers")
    /\ UNCHANGED <<queueVars, ret, current, waitFor, entered, csMain, interrupted, inPool, calls>>

\* StopHTTPServer joins its workers, then interrupt_all.  The threads of the proof-of-work miner,
\* which GenerateBitcoins(false) interrupts and does not join, are left out.
InterruptAll ==
    /\ pc[Main] = "stopServers" /\ \A c \in Caller : pc[c] = "idle"
    /\ interrupted' = TRUE
    /\ Goto(Main, "join")
    /\ UNCHANGED <<queueVars, ret, current, waitFor, entered, csMain, inPool, calls>>

\* Mutant: the thread group is not joined.
JoinAllNot ==
    /\ pc[Main] = "join"
    /\ Goto(Main, "flushState")
    /\ UNCHANGED <<queueVars, ret, current, waitFor, entered, csMain, interrupted, inPool, calls>>

JoinAll ==
    /\ pc[Main] = "join" /\ \A a \in Thread \cup Importer : pc[a] = "gone"
    /\ Goto(Main, "flushState")
    /\ UNCHANGED <<queueVars, ret, current, waitFor, entered, csMain, interrupted, inPool, calls>>

\* FlushStateToDisk, which queues SetBestChain.
FlushState ==
    /\ pc[Main] = "flushState"
    /\ AddToProcessQueue(Main, "empty")
    /\ UNCHANGED <<current, waitFor, entered, csMain, interrupted, inPool, calls>>

\* FlushBackgroundCallbacks: EmptyQueue runs ProcessQueue until nothing is left.
EmptyQueue ==
    /\ pc[Main] = "empty"
    /\ pc' = [pc EXCEPT ![Main] = "process"] /\ ret' = [ret EXCEPT ![Main] = "emptyCheck"]
    /\ UNCHANGED <<queueVars, current, waitFor, entered, csMain, interrupted, inPool, calls>>

EmptyQueueContinue ==
    /\ pc[Main] = "emptyCheck"
    /\ Goto(Main, IF m_callbacks_pending # <<>> THEN "empty" ELSE "exit")
    /\ UNCHANGED <<queueVars, ret, current, waitFor, entered, csMain, interrupted, inPool, calls>>

-----------------------------------------------------------------------------

QueueStep(a) ==
    MaybeScheduleProcessQueue(a) \/ Schedule(a) \/ ProcessQueue(a) \/ Callback(a) \/ ResetRunning(a)

SyncStep(a) == SyncWithValidationInterfaceQueue(a) \/ SyncAdd(a) \/ Wait(a)

ThreadStep(t) == ServiceQueue(t) \/ ServiceQueueInterrupted(t)

\* What an importing thread does once it has begun a round.
ImporterStep(i) == SyncStep(i) \/ ActivateBestChainStep(i) \/ Unlock(i) \/ ImporterInterrupted(i)

\* What an RPC thread does once it is in a call.
CallerStep(c) == SyncStep(c) \/ TryATMPPromise(c) \/ TryATMPUnlock(c) \/ Return(c)

ShutdownStep == InterruptAll \/ JoinAll \/ FlushState \/ EmptyQueue \/ EmptyQueueContinue

Next ==
    \/ \E a \in Actor : QueueStep(a)
    \/ \E t \in Thread : ThreadStep(t)
    \/ \E i \in Importer : ActivateBestChain(i) \/ ImporterStep(i)
    \/ \E c \in Caller : CallSync(c) \/ TryATMP(c) \/ TryATMPKnown(c) \/ CallerStep(c)
    \/ StartShutdown \/ ShutdownStep

\* Threads that can go on do so; nobody has to call or to shut down.
Fairness ==
    /\ \A a \in Actor : WF_vars(QueueStep(a))
    /\ \A t \in Thread : WF_vars(ThreadStep(t))
    /\ \A i \in Importer : WF_vars(ImporterStep(i))
    /\ \A c \in Caller : WF_vars(CallerStep(c))
    /\ WF_vars(ShutdownStep)

Spec == Init /\ [][Next]_vars /\ Fairness

-----------------------------------------------------------------------------
(* Properties.                                                             *)

Stage == {"idle", "serve", "gone", "maybe", "schedule", "process", "callback", "reset",
          "sync", "syncAdd", "synced", "wait", "unlock", "promise", "unlockWait",
          "stopServers", "join", "flushState", "empty", "emptyCheck", "exit"}

TypeOK ==
    /\ tasks \in Nat /\ m_callbacks_pending \in Seq(Nat) /\ m_are_callbacks_running \in BOOLEAN
    /\ pc \in [Actor -> Stage] /\ ret \in [Actor -> Stage]
    /\ current \in [Actor -> Nat] /\ waitFor \in [Actor -> Nat] /\ entered \in [Actor -> Nat]
    /\ csMain \in Actor \cup {Null} /\ interrupted \in BOOLEAN /\ inPool \in BOOLEAN
    /\ calls \in Nat /\ issued \in Nat /\ started \in Seq(Nat) /\ finished \subseteq Nat

Running(a) == pc[a] \in {"callback", "reset"}

\* "Each callback will complete before the next one is invoked": at most one thread is
\* between the two critical sections of ProcessQueue, and all callbacks invoked before
\* its own have returned.
Serial ==
    /\ m_are_callbacks_running = (\E a \in Actor : Running(a))
    /\ \A a, b \in Actor : Running(a) /\ Running(b) => a = b
    /\ \A a \in Actor : pc[a] = "callback" => 1..Len(started) = finished \cup {current[a]}

\* Callbacks are invoked in the order in which they were queued, and none is dropped or
\* invoked twice.
InOrder ==
    /\ \A k \in 1..Len(started) : started[k] = k
    /\ \A k \in 1..Len(m_callbacks_pending) : m_callbacks_pending[k] = Len(started) + k
    /\ issued = Len(started) + Len(m_callbacks_pending)

\* No lost wake-up: while a callback waits, one is running or somebody is about to run or
\* to schedule ProcessQueue, although both tests of the flag are made without the
\* scheduler's lock.
SomebodyCares ==
    m_callbacks_pending # <<>> =>
       \/ m_are_callbacks_running \/ tasks > 0
       \/ \E a \in Actor : pc[a] \in {"maybe", "schedule", "process"}
       \/ pc[Main] \in {"empty", "emptyCheck"}

\* A thread that waited for a promise finds every callback finished that was queued
\* before its own, as CallFunctionInValidationInterfaceQueue promises.
WaitedMeansCaughtUp ==
    \A a \in Actor : waitFor[a] \in finished => 1..waitFor[a] \subseteq finished

\* FlushBackgroundCallbacks runs with no scheduler thread left (the assertion of
\* EmptyQueue), and when it returns every callback has been run.
FlushedAtExit ==
    /\ pc[Main] \in {"empty", "emptyCheck", "exit"} => \A t \in Thread : pc[t] = "gone"
    /\ pc[Main] = "exit" => m_callbacks_pending = <<>> /\ finished = 1..issued

\* The join of the thread group does not end: a thread of the group waits for a callback.
JoinHangs == interrupted /\ \E i \in Importer : pc[i] = "wait"

\* Every queued callback is run in the end, by the scheduler or at shutdown, unless the
\* shutdown itself hangs (CleanExit is about that).
CallbacksRun == \A n \in 1..(2 * MaxCalls + 1) : issued >= n ~> n \in finished \/ JoinHangs

\* A thread that waits for a promise which was handed to the queue goes on in the end,
\* with the same exception.
WaitersGoOn == \A a \in Importer \cup Caller : pc[a] = "wait" /\ waitFor[a] # 0 ~> pc[a] # "wait" \/ JoinHangs

\* Every RPC call returns.
CallsReturn == \A c \in Caller : pc[c] = "wait" ~> pc[c] # "wait"

\* "A clean exit happens when StartShutdown()" is called.
CleanExit == pc[Main] = "stopServers" ~> pc[Main] = "exit"

=============================================================================
