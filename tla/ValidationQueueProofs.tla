------------------------ MODULE ValidationQueueProofs ------------------------
(***************************************************************************)
(* The callback queue is serial, ordered and loses no wake-up for any      *)
(* number of threads and callbacks.  The inductive invariant adds to the   *)
(* properties which stages each kind of thread can be in, what finished    *)
(* holds exactly, and that nothing but the shutdown thread is left once    *)
(* the threads are joined.                                                 *)
(***************************************************************************)
EXTENDS ValidationQueue, TLAPS

QueueStage == {"maybe", "schedule"}

RunStage == {"process", "callback", "reset"} \cup QueueStage

ThreadStage == {"serve", "gone"} \cup RunStage

ImporterStage == {"idle", "gone", "sync", "syncAdd", "synced", "wait", "unlock"} \cup QueueStage

CallerStage == {"idle", "sync", "syncAdd", "synced", "wait", "promise", "unlockWait"} \cup QueueStage

Joined == {"flushState", "empty", "emptyCheck", "exit"} \cup RunStage

MainStage == {"idle", "stopServers", "join"} \cup Joined

StageOK ==
    /\ \A t \in Thread : pc[t] \in ThreadStage /\ ret[t] = "serve"
    /\ \A i \in Importer : pc[i] \in ImporterStage /\ ret[i] \in {"idle", "wait", "unlock"}
    /\ \A c \in Caller : pc[c] \in CallerStage /\ ret[c] \in {"idle", "wait", "promise", "unlockWait"}
    /\ pc[Main] \in MainStage /\ ret[Main] \in {"idle", "empty", "emptyCheck"}
    /\ pc[Main] \in Joined => \A a \in Thread \cup Importer : pc[a] = "gone"
    /\ pc[Main] \in {"join"} \cup Joined => \A c \in Caller : pc[c] = "idle"

OneRuns ==
    /\ m_are_callbacks_running = (\E a \in Actor : Running(a))
    /\ \A a, b \in Actor : Running(a) /\ Running(b) => a = b

FinishedExact ==
    /\ (\A a \in Actor : pc[a] # "callback") => finished = 1..Len(started)
    /\ \A a \in Actor : pc[a] = "callback" =>
          /\ current[a] = Len(started) /\ Len(started) > 0
          /\ finished = 1..(Len(started) - 1)

QueueInv == OneRuns /\ FinishedExact /\ InOrder /\ SomebodyCares

ExitEmpty == pc[Main] = "exit" => m_callbacks_pending = <<>>

IInv == TypeOK /\ StageOK /\ QueueInv /\ ExitEmpty

-----------------------------------------------------------------------------
(* A queue that holds n + 1, n + 2 and so on.                              *)

\* Appending the next number keeps such a queue.
LEMMA AppendNext ==
    ASSUME NEW q \in Seq(Nat), NEW n \in Nat, \A k \in 1..Len(q) : q[k] = n + k
    PROVE  LET r == Append(q, n + Len(q) + 1)
           IN  /\ r \in Seq(Nat) /\ Len(r) = Len(q) + 1
               /\ \A k \in 1..Len(r) : r[k] = n + k
OBVIOUS

\* Its head is n + 1, and its tail is such a queue for n + 1.
LEMMA TakeHead ==
    ASSUME NEW q \in Seq(Nat), NEW n \in Nat, \A k \in 1..Len(q) : q[k] = n + k, q # <<>>
    PROVE  /\ Head(q) = n + 1 /\ Tail(q) \in Seq(Nat) /\ Len(Tail(q)) = Len(q) - 1
           /\ \A k \in 1..Len(Tail(q)) : Tail(q)[k] = (n + 1) + k
OBVIOUS

-----------------------------------------------------------------------------
(* Steps that leave the queue alone.                                       *)

\* A thread that moves between stages outside the queue's own code, while the queue and
\* the other threads stay as they are, keeps the queue's invariant.
LEMMA QuietMove ==
    ASSUME TypeOK, QueueInv, NEW a \in Actor, NEW s \in Stage,
           ~Running(a), s \notin {"callback", "reset"},
           UNCHANGED queueVars, UNCHANGED current, pc' = [pc EXCEPT ![a] = s],
           \/ pc[a] \notin {"maybe", "schedule", "process", "empty", "emptyCheck"}
           \/ s \in {"maybe", "schedule", "process"}
           \/ m_are_callbacks_running \/ m_callbacks_pending = <<>>
           \/ a = Main /\ s = "empty"
    PROVE  QueueInv'
<1>1. \A b \in Actor : Running(b)' = Running(b)
  BY DEF Running, TypeOK
<1>2. \A b \in Actor : (pc[b] = "callback")' = (pc[b] = "callback")
  BY DEF Running, TypeOK
<1>3. OneRuns'
  BY <1>1 DEF QueueInv, OneRuns, queueVars
<1>4. FinishedExact'
  BY <1>2 DEF QueueInv, FinishedExact, queueVars
<1>5. InOrder'
  BY DEF QueueInv, InOrder, queueVars
<1>6. SomebodyCares'
  <2>1. SUFFICES ASSUME m_callbacks_pending # <<>>, ~m_are_callbacks_running, ~(tasks > 0)
                 PROVE  \/ \E b \in Actor : pc'[b] \in {"maybe", "schedule", "process"}
                        \/ pc'[Main] \in {"empty", "emptyCheck"}
    BY DEF SomebodyCares, queueVars
  <2>2. \/ \E b \in Actor : pc[b] \in {"maybe", "schedule", "process"}
        \/ pc[Main] \in {"empty", "emptyCheck"}
    BY <2>1 DEF QueueInv, SomebodyCares
  <2>3. Main \in Actor
    BY DEF Actor
  <2>4. \A b \in Actor : b # a => pc'[b] = pc[b]
    BY DEF TypeOK
  <2>5. pc'[a] = s
    BY DEF TypeOK
  <2> QED
    BY <2>1, <2>2, <2>3, <2>4, <2>5
<1> QED
  BY <1>3, <1>4, <1>5, <1>6 DEF QueueInv

\* Queueing a callback keeps the queue's invariant: the new one is the last, and its
\* thread is about to schedule ProcessQueue.
LEMMA AddKeeps ==
    ASSUME TypeOK, QueueInv, NEW a \in Actor, NEW next \in Stage, ~Running(a),
           AddToProcessQueue(a, next), UNCHANGED current
    PROVE  QueueInv'
<1>1. pc' = [pc EXCEPT ![a] = "maybe"] /\ pc'[a] = "maybe"
  BY DEF AddToProcessQueue, TypeOK
<1>2. \A b \in Actor : Running(b)' = Running(b)
  BY <1>1 DEF Running, TypeOK
<1>3. \A b \in Actor : (pc[b] = "callback")' = (pc[b] = "callback")
  BY <1>1 DEF Running, TypeOK
<1>4. OneRuns'
  BY <1>2 DEF QueueInv, OneRuns, AddToProcessQueue
<1>5. FinishedExact'
  BY <1>3 DEF QueueInv, FinishedExact, AddToProcessQueue
<1>6. InOrder'
  <2>1. /\ m_callbacks_pending \in Seq(Nat) /\ Len(started) \in Nat
        /\ \A k \in 1..Len(m_callbacks_pending) : m_callbacks_pending[k] = Len(started) + k
        /\ issued = Len(started) + Len(m_callbacks_pending)
        /\ \A k \in 1..Len(started) : started[k] = k
    BY DEF QueueInv, InOrder, TypeOK
  <2>2. m_callbacks_pending' = Append(m_callbacks_pending, Len(started) + Len(m_callbacks_pending) + 1)
    BY <2>1 DEF AddToProcessQueue
  <2>3. /\ Len(m_callbacks_pending') = Len(m_callbacks_pending) + 1
        /\ \A k \in 1..Len(m_callbacks_pending') : m_callbacks_pending'[k] = Len(started) + k
    BY <2>1, <2>2, AppendNext, Zenon
  <2>4. started' = started /\ issued' = issued + 1
    BY DEF AddToProcessQueue
  <2>5. issued' = Len(started') + Len(m_callbacks_pending')
    BY <2>1, <2>3, <2>4
  <2> QED
    BY <2>1, <2>3, <2>4, <2>5 DEF InOrder
<1>7. SomebodyCares'
  BY <1>1 DEF SomebodyCares
<1> QED
  BY <1>4, <1>5, <1>6, <1>7 DEF QueueInv

-----------------------------------------------------------------------------
(* The queue's own steps.                                                  *)

\* Scheduling ProcessQueue leaves a task behind.
LEMMA ScheduleKeeps ==
    ASSUME TypeOK, QueueInv, NEW a \in Actor, Schedule(a), ret[a] \notin {"callback", "reset"}
    PROVE  QueueInv'
<1>1. \A b \in Actor : Running(b)' = Running(b)
  BY DEF Schedule, Goto, Running, TypeOK
<1>2. \A b \in Actor : (pc[b] = "callback")' = (pc[b] = "callback")
  BY DEF Schedule, Goto, Running, TypeOK
<1>3. OneRuns'
  BY <1>1 DEF QueueInv, OneRuns, Schedule
<1>4. FinishedExact'
  BY <1>2 DEF QueueInv, FinishedExact, Schedule
<1>5. InOrder'
  BY DEF QueueInv, InOrder, Schedule
<1>6. SomebodyCares'
  BY DEF SomebodyCares, Schedule, TypeOK
<1> QED
  BY <1>3, <1>4, <1>5, <1>6 DEF QueueInv

\* Taking a task from the scheduler brings the thread to ProcessQueue.
LEMMA ServiceKeeps ==
    ASSUME TypeOK, QueueInv, NEW a \in Actor, ServiceQueue(a)
    PROVE  QueueInv'
<1>1. \A b \in Actor : Running(b)' = Running(b)
  BY DEF ServiceQueue, Running, TypeOK
<1>2. \A b \in Actor : (pc[b] = "callback")' = (pc[b] = "callback")
  BY DEF ServiceQueue, Running, TypeOK
<1>3. OneRuns'
  BY <1>1 DEF QueueInv, OneRuns, ServiceQueue
<1>4. FinishedExact'
  BY <1>2 DEF QueueInv, FinishedExact, ServiceQueue
<1>5. InOrder'
  BY DEF QueueInv, InOrder, ServiceQueue
<1>6. SomebodyCares'
  <2>1. pc'[a] = "process"
    BY DEF ServiceQueue, TypeOK
  <2> QED
    BY <2>1 DEF SomebodyCares
<1> QED
  BY <1>3, <1>4, <1>5, <1>6 DEF QueueInv

\* ProcessQueue invokes the oldest callback when no other runs.
LEMMA InvokeKeeps ==
    ASSUME TypeOK, QueueInv, NEW a \in Actor, ProcessQueue(a),
           ~m_are_callbacks_running, m_callbacks_pending # <<>>
    PROVE  QueueInv'
<1>1. /\ pc[a] = "process" /\ pc' = [pc EXCEPT ![a] = "callback"] /\ pc'[a] = "callback"
      /\ m_are_callbacks_running' = TRUE /\ m_callbacks_pending' = Tail(m_callbacks_pending)
      /\ current' = [current EXCEPT ![a] = Head(m_callbacks_pending)]
      /\ started' = Append(started, Head(m_callbacks_pending))
      /\ UNCHANGED <<tasks, issued, finished>>
  BY Zenon DEF ProcessQueue, Goto, TypeOK
<1>2. \A b \in Actor : ~Running(b)
  BY DEF QueueInv, OneRuns
<1>3. \A b \in Actor : b # a => pc'[b] = pc[b]
  BY <1>1 DEF TypeOK
<1>4. OneRuns'
  BY <1>1, <1>2, <1>3 DEF OneRuns, Running
<1>5. /\ m_callbacks_pending \in Seq(Nat) /\ started \in Seq(Nat) /\ Len(started) \in Nat
      /\ \A k \in 1..Len(m_callbacks_pending) : m_callbacks_pending[k] = Len(started) + k
      /\ issued = Len(started) + Len(m_callbacks_pending)
      /\ \A k \in 1..Len(started) : started[k] = 0 + k
  BY DEF QueueInv, InOrder, TypeOK
<1>6. /\ Head(m_callbacks_pending) = Len(started) + 1
      /\ Len(Tail(m_callbacks_pending)) = Len(m_callbacks_pending) - 1
      /\ \A k \in 1..Len(Tail(m_callbacks_pending)) : Tail(m_callbacks_pending)[k] = (Len(started) + 1) + k
  BY <1>5, TakeHead
<1>7. started' = Append(started, 0 + Len(started) + 1)
  BY <1>1, <1>5, <1>6
<1>8. Len(started') = Len(started) + 1 /\ \A k \in 1..Len(started') : started'[k] = 0 + k
  BY <1>5, <1>7, AppendNext
<1>9. InOrder'
  <2>1. issued' = Len(started') + Len(m_callbacks_pending')
    BY <1>1, <1>5, <1>6, <1>8
  <2>2. \A k \in 1..Len(started') : started'[k] = k
    BY <1>8
  <2>3. \A k \in 1..Len(m_callbacks_pending') : m_callbacks_pending'[k] = Len(started') + k
    BY <1>1, <1>6, <1>8
  <2> QED
    BY <2>1, <2>2, <2>3 DEF InOrder
<1>10. FinishedExact'
  <2>1. finished = 1..Len(started)
    BY <1>2 DEF QueueInv, FinishedExact, Running
  <2>2. current'[a] = Len(started) + 1
    BY <1>1, <1>6 DEF TypeOK
  <2>3. \A b \in Actor : pc'[b] = "callback" => b = a
    BY <1>2, <1>3 DEF Running
  <2>4. Len(started') - 1 = Len(started)
    BY <1>5, <1>8
  <2> QED
    BY <1>1, <1>5, <1>8, <2>1, <2>2, <2>3, <2>4 DEF FinishedExact
<1>11. SomebodyCares'
  BY <1>1 DEF SomebodyCares
<1> QED
  BY <1>4, <1>9, <1>10, <1>11 DEF QueueInv

\* A callback that returns completes the prefix of finished callbacks.
LEMMA CallbackKeeps ==
    ASSUME TypeOK, QueueInv, NEW a \in Actor, Callback(a)
    PROVE  QueueInv'
<1>1. /\ pc[a] = "callback" /\ pc' = [pc EXCEPT ![a] = "reset"] /\ pc'[a] = "reset"
      /\ finished' = finished \cup {current[a]} /\ current' = current
      /\ UNCHANGED <<tasks, m_callbacks_pending, m_are_callbacks_running, issued, started>>
  BY DEF Callback, Goto, TypeOK
<1>2. \A b \in Actor : Running(b)' = Running(b)
  BY <1>1 DEF Running, TypeOK
<1>3. OneRuns'
  BY <1>1, <1>2 DEF QueueInv, OneRuns
<1>4. FinishedExact'
  <2>1. \A b \in Actor : pc'[b] # "callback"
    BY <1>1 DEF QueueInv, OneRuns, Running, TypeOK
  <2>2. current[a] = Len(started) /\ Len(started) > 0 /\ finished = 1..(Len(started) - 1)
    BY <1>1 DEF QueueInv, FinishedExact
  <2>3. Len(started) \in Nat
    BY DEF TypeOK
  <2>4. finished' = 1..Len(started)
    BY <1>1, <2>2, <2>3
  <2> QED
    BY <1>1, <2>1, <2>4 DEF FinishedExact
<1>5. InOrder'
  BY <1>1 DEF QueueInv, InOrder
<1>6. SomebodyCares'
  <2>1. m_are_callbacks_running
    BY <1>1, Zenon DEF QueueInv, OneRuns, Running
  <2> QED
    BY <1>1, <2>1 DEF SomebodyCares
<1> QED
  BY <1>3, <1>4, <1>5, <1>6 DEF QueueInv

\* Resetting the flag is followed by another look at the queue.
LEMMA ResetKeeps ==
    ASSUME TypeOK, QueueInv, NEW a \in Actor, ResetRunning(a)
    PROVE  QueueInv'
<1>1. /\ pc[a] = "reset" /\ pc' = [pc EXCEPT ![a] = "maybe"] /\ pc'[a] = "maybe"
      /\ m_are_callbacks_running' = FALSE /\ current' = current
      /\ UNCHANGED <<tasks, m_callbacks_pending, issued, started, finished>>
  BY DEF ResetRunning, Goto, TypeOK
<1>2. \A b \in Actor : ~Running(b)'
  BY <1>1 DEF QueueInv, OneRuns, Running, TypeOK
<1>3. OneRuns'
  BY <1>1, <1>2, Zenon DEF OneRuns
<1>4. FinishedExact'
  <2>1. \A b \in Actor : pc'[b] # "callback"
    BY <1>2 DEF Running
  <2>2. \A b \in Actor : pc[b] # "callback"
    BY <1>1 DEF QueueInv, OneRuns, Running
  <2> QED
    BY <1>1, <2>1, <2>2 DEF QueueInv, FinishedExact
<1>5. InOrder'
  BY <1>1 DEF QueueInv, InOrder
<1>6. SomebodyCares'
  BY <1>1 DEF SomebodyCares
<1> QED
  BY <1>3, <1>4, <1>5, <1>6 DEF QueueInv

-----------------------------------------------------------------------------
(* Where each kind of thread can be.                                       *)

\* Thread a may go to stage s, with return stage r.
Allowed(a, s, r) ==
    /\ a \in Thread => s \in ThreadStage /\ r = "serve" /\ (s = "gone" \/ pc[a] # "gone")
    /\ a \in Importer => s \in ImporterStage /\ r \in {"idle", "wait", "unlock"}
                       /\ (s = "gone" \/ pc[a] # "gone")
    /\ a \in Caller => s \in CallerStage /\ r \in {"idle", "wait", "promise", "unlockWait"}
                     /\ (s = "idle" \/ pc[a] # "idle" \/ pc[Main] = "idle")
    /\ a = Main => /\ s \in MainStage /\ r \in {"idle", "empty", "emptyCheck"}
                   /\ s \in Joined => \/ pc[Main] \in Joined
                                      \/ pc[Main] = "join" /\ \A b \in Thread \cup Importer : pc[b] = "gone"
                   /\ s = "join" => \A c \in Caller : pc[c] = "idle"

\* The stages stay right when one thread moves as it may.
LEMMA StageMove ==
    ASSUME TypeOK, StageOK, NEW a \in Actor, NEW s, NEW r, Allowed(a, s, r),
           pc' = [pc EXCEPT ![a] = s], ret' = [ret EXCEPT ![a] = r]
    PROVE  StageOK'
<1>1. /\ pc'[a] = s /\ ret'[a] = r
      /\ \A b \in Actor : b # a => pc'[b] = pc[b] /\ ret'[b] = ret[b]
  BY DEF TypeOK
<1>2. Thread \subseteq Actor /\ Importer \subseteq Actor /\ Caller \subseteq Actor /\ Main \in Actor
  BY DEF Actor
<1>3. \A t \in Thread : pc'[t] \in ThreadStage /\ ret'[t] = "serve"
  BY <1>1, <1>2 DEF StageOK, Allowed
<1>4. \A i \in Importer : pc'[i] \in ImporterStage /\ ret'[i] \in {"idle", "wait", "unlock"}
  BY <1>1, <1>2 DEF StageOK, Allowed
<1>5. \A c \in Caller : pc'[c] \in CallerStage /\ ret'[c] \in {"idle", "wait", "promise", "unlockWait"}
  BY <1>1, <1>2 DEF StageOK, Allowed
<1>6. pc'[Main] \in MainStage /\ ret'[Main] \in {"idle", "empty", "emptyCheck"}
  BY <1>1, <1>2 DEF StageOK, Allowed
<1>7. pc'[Main] \in Joined => \A b \in Thread \cup Importer : pc'[b] = "gone"
  <2>1. CASE a = Main
    BY <1>1, <1>2, <2>1, QueueAssumption DEF StageOK, Allowed
  <2>2. CASE a # Main
    BY <1>1, <1>2, <2>2 DEF StageOK, Allowed
  <2> QED
    BY <2>1, <2>2
<1>8. pc'[Main] \in {"join"} \cup Joined => \A c \in Caller : pc'[c] = "idle"
  <2>1. CASE a = Main
    BY <1>1, <1>2, <2>1, QueueAssumption DEF StageOK, Allowed
  <2>2. CASE a # Main
    BY <1>1, <1>2, <2>2 DEF StageOK, Allowed, Joined, RunStage, QueueStage
  <2> QED
    BY <2>1, <2>2
<1> QED
  BY <1>3, <1>4, <1>5, <1>6, <1>7, <1>8 DEF StageOK

\* A move outside the queue's own code keeps the whole invariant.
LEMMA Move ==
    ASSUME IInv, NEW a \in Actor, NEW s \in Stage, Allowed(a, s, ret[a]),
           ~Running(a), s \notin {"callback", "reset"},
           pc' = [pc EXCEPT ![a] = s], UNCHANGED <<queueVars, ret, current>>,
           waitFor' \in [Actor -> Nat], entered' \in [Actor -> Nat], csMain' \in Actor \cup {Null},
           interrupted' \in BOOLEAN, inPool' \in BOOLEAN, calls' \in Nat,
           \/ pc[a] \notin {"maybe", "schedule", "process", "empty", "emptyCheck"}
           \/ s \in {"maybe", "schedule", "process"}
           \/ m_are_callbacks_running \/ m_callbacks_pending = <<>>
           \/ a = Main /\ s = "empty",
           a = Main /\ s = "exit" => m_callbacks_pending = <<>>
    PROVE  IInv'
<1>1. TypeOK'
  BY Zenon DEF IInv, TypeOK, queueVars
<1>2. StageOK'
  <2>1. ret' = [ret EXCEPT ![a] = ret[a]]
    BY DEF IInv, TypeOK
  <2> QED
    BY <2>1, StageMove, Zenon DEF IInv
<1>3. QueueInv'
  BY QuietMove, Zenon DEF IInv
<1>4. ExitEmpty'
  BY DEF IInv, ExitEmpty, TypeOK, queueVars, Actor
<1> QED
  BY <1>1, <1>2, <1>3, <1>4 DEF IInv

\* So does queueing a callback, from a stage outside the queue's own code.
LEMMA Add ==
    ASSUME IInv, NEW a \in Actor, NEW next \in Stage, Allowed(a, "maybe", next), ~Running(a),
           AddToProcessQueue(a, next), UNCHANGED current, pc[Main] # "exit",
           waitFor' \in [Actor -> Nat], entered' \in [Actor -> Nat], csMain' \in Actor \cup {Null},
           interrupted' \in BOOLEAN, inPool' \in BOOLEAN, calls' \in Nat
    PROVE  IInv'
<1>1. TypeOK'
  <2>1. m_callbacks_pending' \in Seq(Nat) /\ issued' \in Nat
    BY DEF IInv, TypeOK, AddToProcessQueue
  <2>2. pc' \in [Actor -> Stage] /\ ret' \in [Actor -> Stage]
    BY Zenon DEF IInv, TypeOK, AddToProcessQueue, Stage
  <2> QED
    BY <2>1, <2>2, Zenon DEF IInv, TypeOK, AddToProcessQueue
<1>2. StageOK'
  BY StageMove, Zenon DEF IInv, AddToProcessQueue
<1>3. QueueInv'
  BY AddKeeps DEF IInv
<1>4. ExitEmpty'
  BY DEF IInv, ExitEmpty, TypeOK, AddToProcessQueue, Actor
<1> QED
  BY <1>1, <1>2, <1>3, <1>4 DEF IInv

-----------------------------------------------------------------------------
(* The invariant.                                                          *)

\* No thread runs a callback yet and all wait for work.
LEMMA InitInv == Init => IInv
<1> SUFFICES ASSUME Init PROVE IInv
  OBVIOUS
<1>1. \A a \in Actor : pc[a] = (IF a \in Thread THEN "serve" ELSE "idle") /\ ret[a] = pc[a]
  BY DEF Init
<1>2. TypeOK
  <2>1. pc \in [Actor -> Stage] /\ ret \in [Actor -> Stage]
    BY DEF Init, Stage
  <2>2. current \in [Actor -> Nat] /\ waitFor \in [Actor -> Nat] /\ entered \in [Actor -> Nat]
    BY DEF Init
  <2>3. m_callbacks_pending \in Seq(Nat) /\ started \in Seq(Nat) /\ finished \subseteq Nat
    BY DEF Init
  <2>4. m_are_callbacks_running \in BOOLEAN /\ interrupted \in BOOLEAN /\ inPool \in BOOLEAN
    BY Zenon DEF Init
  <2>5. tasks \in Nat /\ calls \in Nat /\ issued \in Nat /\ csMain \in Actor \cup {Null}
    BY DEF Init
  <2> QED
    BY <2>1, <2>2, <2>3, <2>4, <2>5 DEF TypeOK
<1>3. StageOK
  <2>1. \A t \in Thread : pc[t] = "serve" /\ ret[t] = "serve"
    BY <1>1 DEF Actor
  <2>2. \A a \in Importer \cup Caller \cup {Main} : pc[a] = "idle" /\ ret[a] = "idle"
    BY <1>1, QueueAssumption DEF Actor
  <2> QED
    BY <2>1, <2>2 DEF StageOK, ThreadStage, ImporterStage, CallerStage, MainStage, Joined, RunStage, QueueStage
<1>4. \A a \in Actor : pc[a] # "callback" /\ ~Running(a)
  BY <1>1 DEF Running
<1>5. OneRuns
  BY <1>4, Zenon DEF Init, OneRuns
<1>6. Len(started) = 0 /\ Len(m_callbacks_pending) = 0 /\ finished = {} /\ issued = 0
  BY DEF Init
<1>7. FinishedExact
  BY <1>4, <1>6 DEF FinishedExact
<1>8. InOrder
  BY <1>6 DEF InOrder
<1>9. SomebodyCares
  BY DEF Init, SomebodyCares
<1>10. ExitEmpty
  BY DEF Init, ExitEmpty
<1> QED
  BY <1>2, <1>3, <1>5, <1>7, <1>8, <1>9, <1>10 DEF IInv, QueueInv

\* A thread in the queue's own code goes back to a stage that suits its kind.
LEMMA ReturnAllowed ==
    ASSUME TypeOK, StageOK, NEW a \in Actor, pc[a] \in {"maybe", "schedule", "process"}
    PROVE  /\ Allowed(a, ret[a], ret[a]) /\ ret[a] \in Stage
           /\ ret[a] \notin {"callback", "reset", "exit"}
<1>1. ret[a] \in Stage
  BY DEF TypeOK
<1>2. CASE a \in Thread
  BY <1>1, <1>2, QueueAssumption DEF StageOK, Allowed, ThreadStage
<1>3. CASE a \in Importer
  BY <1>1, <1>3, QueueAssumption DEF StageOK, Allowed, ImporterStage
<1>4. CASE a \in Caller
  BY <1>1, <1>4, QueueAssumption DEF StageOK, Allowed, CallerStage
<1>5. CASE a = Main
  BY <1>1, <1>5, QueueAssumption DEF StageOK, Allowed, MainStage, Joined, RunStage, QueueStage
<1> QED
  BY <1>2, <1>3, <1>4, <1>5 DEF Actor

\* Within that code it may go to any later stage of it.
LEMMA StayAllowed ==
    ASSUME TypeOK, StageOK, NEW a \in Actor, NEW s,
           \/ pc[a] \in {"process", "callback", "reset"} /\ s \in RunStage
           \/ pc[a] \in QueueStage /\ s \in QueueStage
    PROVE  Allowed(a, s, ret[a])
<1>1. CASE a \in Thread
  BY <1>1, QueueAssumption DEF StageOK, Allowed, ThreadStage, RunStage, QueueStage
<1>2. CASE a \in Importer
  BY <1>2, QueueAssumption DEF StageOK, Allowed, ImporterStage, RunStage, QueueStage
<1>3. CASE a \in Caller
  BY <1>3, QueueAssumption DEF StageOK, Allowed, CallerStage, RunStage, QueueStage
<1>4. CASE a = Main
  BY <1>4, QueueAssumption DEF StageOK, Allowed, MainStage, Joined, RunStage, QueueStage
<1> QED
  BY <1>1, <1>2, <1>3, <1>4 DEF Actor

\* The steps of the queue's own code keep the invariant.
LEMMA QueueStepInv == ASSUME IInv, NEW a \in Actor, QueueStep(a) PROVE IInv'
<1> USE DEF IInv
<1>1. CASE MaybeScheduleProcessQueue(a)
  <2>1. CASE m_are_callbacks_running \/ m_callbacks_pending = <<>>
    BY <1>1, <2>1, ReturnAllowed, Move, Zenon DEF MaybeScheduleProcessQueue, Goto, Running, TypeOK
  <2>2. CASE ~(m_are_callbacks_running \/ m_callbacks_pending = <<>>)
    <3>1. Allowed(a, "schedule", ret[a])
      BY <1>1, StayAllowed DEF MaybeScheduleProcessQueue, QueueStage
    <3> QED
      BY <1>1, <2>2, <3>1, Move, Zenon DEF MaybeScheduleProcessQueue, Goto, Running, TypeOK, Stage
  <2> QED
    BY <2>1, <2>2
<1>2. CASE Schedule(a)
  <2>1. Allowed(a, ret[a], ret[a]) /\ ret[a] \in Stage /\ ret[a] \notin {"callback", "reset", "exit"}
    BY <1>2, ReturnAllowed DEF Schedule
  <2>2. TypeOK'
    BY <1>2, <2>1 DEF Schedule, Goto, TypeOK
  <2>3. StageOK'
    <3>1. pc' = [pc EXCEPT ![a] = ret[a]] /\ ret' = [ret EXCEPT ![a] = ret[a]]
      BY <1>2 DEF Schedule, Goto, TypeOK
    <3> QED
      BY <2>1, <3>1, StageMove, Zenon
  <2>4. QueueInv'
    BY <1>2, <2>1, ScheduleKeeps
  <2>5. ExitEmpty'
    BY <1>2, <2>1 DEF Schedule, Goto, ExitEmpty, TypeOK, Actor
  <2> QED
    BY <2>2, <2>3, <2>4, <2>5
<1>3. CASE ProcessQueue(a)
  <2>1. CASE m_are_callbacks_running \/ m_callbacks_pending = <<>>
    <3>1. Allowed(a, ret[a], ret[a]) /\ ret[a] \in Stage /\ ret[a] \notin {"callback", "reset", "exit"}
      BY <1>3, ReturnAllowed, Zenon DEF ProcessQueue
    <3>2. pc' = [pc EXCEPT ![a] = ret[a]] /\ UNCHANGED <<queueVars, ret, current>> /\ pc[a] = "process"
      BY <1>3, <2>1, SMTT(30) DEF ProcessQueue, Goto
    <3> QED
      BY <1>3, <2>1, <3>1, <3>2, Move, Zenon DEF ProcessQueue, Running, TypeOK
  <2>2. CASE ~m_are_callbacks_running /\ m_callbacks_pending # <<>>
    <3>1. Allowed(a, "callback", ret[a])
      BY <1>3, StayAllowed DEF ProcessQueue, RunStage
    <3>2. TypeOK'
      <4>1. /\ Tail(m_callbacks_pending) \in Seq(Nat) /\ Head(m_callbacks_pending) \in Nat
            /\ Append(started, Head(m_callbacks_pending)) \in Seq(Nat)
        BY <2>2 DEF TypeOK
      <4>2. pc' \in [Actor -> Stage]
        BY <1>3, <2>2, Zenon DEF ProcessQueue, Goto, TypeOK, Stage
      <4> QED
        BY <1>3, <2>2, <4>1, <4>2, Zenon DEF ProcessQueue, TypeOK
    <3>3. StageOK'
      <4>1. pc' = [pc EXCEPT ![a] = "callback"] /\ ret' = [ret EXCEPT ![a] = ret[a]]
        BY <1>3, <2>2 DEF ProcessQueue, Goto, TypeOK
      <4> QED
        BY <3>1, <4>1, StageMove, Zenon
    <3>4. QueueInv'
      BY <1>3, <2>2, InvokeKeeps
    <3>5. ExitEmpty'
      BY <1>3, <2>2 DEF ProcessQueue, Goto, ExitEmpty, TypeOK, Actor
    <3> QED
      BY <3>2, <3>3, <3>4, <3>5
  <2> QED
    BY <2>1, <2>2
<1>4. CASE Callback(a)
  <2>1. Allowed(a, "reset", ret[a])
    BY <1>4, StayAllowed DEF Callback, RunStage
  <2>2. TypeOK'
    BY <1>4, Zenon DEF Callback, Goto, TypeOK, Stage
  <2>3. StageOK'
    <3>1. pc' = [pc EXCEPT ![a] = "reset"] /\ ret' = [ret EXCEPT ![a] = ret[a]]
      BY <1>4 DEF Callback, Goto, TypeOK
    <3> QED
      BY <2>1, <3>1, StageMove, Zenon
  <2>4. QueueInv'
    BY <1>4, CallbackKeeps
  <2>5. ExitEmpty'
    BY <1>4 DEF Callback, Goto, ExitEmpty, TypeOK, Actor
  <2> QED
    BY <2>2, <2>3, <2>4, <2>5
<1>5. CASE ResetRunning(a)
  <2>1. Allowed(a, "maybe", ret[a])
    BY <1>5, StayAllowed DEF ResetRunning, RunStage, QueueStage
  <2>2. TypeOK'
    BY <1>5, Zenon DEF ResetRunning, Goto, TypeOK, Stage
  <2>3. StageOK'
    <3>1. pc' = [pc EXCEPT ![a] = "maybe"] /\ ret' = [ret EXCEPT ![a] = ret[a]]
      BY <1>5 DEF ResetRunning, Goto, TypeOK
    <3> QED
      BY <2>1, <3>1, StageMove, Zenon
  <2>4. QueueInv'
    BY <1>5, ResetKeeps
  <2>5. ExitEmpty'
    BY <1>5 DEF ResetRunning, Goto, ExitEmpty, TypeOK, Actor
  <2> QED
    BY <2>2, <2>3, <2>4, <2>5
<1> QED
  BY <1>1, <1>2, <1>3, <1>4, <1>5 DEF QueueStep

\* The steps of scheduler threads keep it.
LEMMA ThreadStepInv == ASSUME IInv, NEW t \in Thread, ThreadStep(t) PROVE IInv'
<1> USE DEF IInv
<1>1. t \in Actor /\ t \notin Importer /\ t \notin Caller /\ t # Main
  BY QueueAssumption DEF Actor
<1>2. CASE ServiceQueue(t)
  <2>1. TypeOK'
    BY <1>1, <1>2 DEF ServiceQueue, TypeOK, Stage
  <2>2. Allowed(t, "process", "serve")
    BY <1>1, <1>2 DEF ServiceQueue, Allowed, ThreadStage, RunStage
  <2>3. StageOK'
    BY <1>1, <1>2, <2>2, StageMove, Zenon DEF ServiceQueue
  <2>4. QueueInv'
    BY <1>1, <1>2, ServiceKeeps
  <2>5. ExitEmpty'
    BY <1>1, <1>2 DEF ServiceQueue, ExitEmpty, TypeOK, Actor
  <2> QED
    BY <2>1, <2>3, <2>4, <2>5
<1>3. CASE ServiceQueueInterrupted(t)
  <2>1. Allowed(t, "gone", ret[t])
    BY <1>1 DEF Allowed, ThreadStage, StageOK
  <2> QED
    BY <1>1, <1>3, <2>1, Move, Zenon DEF ServiceQueueInterrupted, Goto, Running, TypeOK, Stage
<1> QED
  BY <1>2, <1>3 DEF ThreadStep

\* The steps of SyncWithValidationInterfaceQueue keep it.
LEMMA SyncStepInv == ASSUME IInv, NEW a \in Importer \cup Caller, SyncStep(a) PROVE IInv'
<1> USE DEF IInv
<1>T. /\ issued \in Nat /\ calls \in Nat /\ pc \in [Actor -> Stage] /\ ret \in [Actor -> Stage]
      /\ waitFor \in [Actor -> Nat] /\ entered \in [Actor -> Nat] /\ csMain \in Actor \cup {Null}
      /\ interrupted \in BOOLEAN /\ inPool \in BOOLEAN
  BY DEF TypeOK
<1>N. issued + 1 \in Nat /\ calls + 1 \in Nat
  BY <1>T
<1>1. a \in Actor /\ a \notin Thread /\ a # Main
  BY QueueAssumption DEF Actor
<1>0. pc[a] \in {"sync", "syncAdd", "wait"}
  BY DEF SyncStep, SyncWithValidationInterfaceQueue, SyncAdd, Wait
<1>2. \A s \in {"synced", "syncAdd"} : Allowed(a, s, ret[a])
  BY <1>0, <1>1 DEF Allowed, ImporterStage, CallerStage, StageOK
<1>M. pc[Main] # "exit"
  BY <1>0 DEF StageOK, Joined
<1>3. CASE SyncWithValidationInterfaceQueue(a)
  <2>1. entered' \in [Actor -> Nat]
    BY <1>T, <1>N, <1>3, Zenon DEF SyncWithValidationInterfaceQueue
  <2>2. PICK s \in {"synced", "syncAdd"} : pc' = [pc EXCEPT ![a] = s]
    BY <1>3, Zenon DEF SyncWithValidationInterfaceQueue, Goto
  <2> QED
    BY <1>T, <1>N, <1>1, <1>2, <1>3, <2>1, <2>2, Move, Zenon DEF SyncWithValidationInterfaceQueue, Running, Stage
<1>4. CASE SyncAdd(a)
  <2>0. waitFor' = [waitFor EXCEPT ![a] = issued + 1]
    BY <1>4 DEF SyncAdd
  <2>1. waitFor' \in [Actor -> Nat]
    BY <1>T, <1>N, <2>0, Zenon
  <2>2. Allowed(a, "maybe", "wait")
    BY <1>0, <1>1 DEF Allowed, ImporterStage, CallerStage, QueueStage
  <2> QED
    BY <1>T, <1>N, <1>0, <1>M, <1>1, <1>4, <2>1, <2>2, Add DEF SyncAdd, Running, Stage
<1>5. CASE Wait(a)
  BY <1>T, <1>N, <1>1, <1>2, <1>5, Move, Zenon DEF Wait, Goto, Running, Stage
<1> QED
  BY <1>3, <1>4, <1>5 DEF SyncStep

\* So do the threads that connect blocks.
LEMMA ImporterInv ==
    ASSUME IInv, NEW i \in Importer, ActivateBestChain(i) \/ ImporterStep(i) PROVE IInv'
<1> USE DEF IInv
<1>T. /\ issued \in Nat /\ calls \in Nat /\ pc \in [Actor -> Stage] /\ ret \in [Actor -> Stage]
      /\ waitFor \in [Actor -> Nat] /\ entered \in [Actor -> Nat] /\ csMain \in Actor \cup {Null}
      /\ interrupted \in BOOLEAN /\ inPool \in BOOLEAN
  BY DEF TypeOK
<1>N. issued + 1 \in Nat /\ calls + 1 \in Nat
  BY <1>T
<1>1. i \in Actor /\ i \notin Thread /\ i \notin Caller /\ i # Main
  BY QueueAssumption DEF Actor
<1>0. pc[i] # "gone"
  BY DEF ActivateBestChain, ImporterStep, SyncStep, SyncWithValidationInterfaceQueue, SyncAdd, Wait,
         ActivateBestChainStep, Unlock, ImporterInterrupted
<1>2. \A s \in {"sync", "synced", "idle", "gone"} : Allowed(i, s, ret[i])
  BY <1>0, <1>1 DEF Allowed, ImporterStage, StageOK
<1>M. pc[Main] # "exit"
  BY <1>0 DEF StageOK, Joined
<1>3. CASE ActivateBestChain(i)
  <2>1. PICK s \in {"sync", "synced"} : pc' = [pc EXCEPT ![i] = s]
    BY <1>3, Zenon DEF ActivateBestChain, Goto
  <2> QED
    BY <1>T, <1>N, <1>1, <1>2, <1>3, <2>1, Move, Zenon DEF ActivateBestChain, Running, Stage
<1>4. CASE SyncStep(i)
  BY <1>4, SyncStepInv
<1>5. CASE ActivateBestChainStep(i)
  <2>1. Allowed(i, "maybe", "unlock")
    BY <1>0, <1>1 DEF Allowed, ImporterStage, QueueStage
  <2> QED
    BY <1>T, <1>N, <1>M, <1>1, <1>5, <2>1, Add DEF ActivateBestChainStep, Running, Stage
<1>6. CASE Unlock(i)
  BY <1>T, <1>N, <1>1, <1>2, <1>6, Move, Zenon DEF Unlock, Goto, Running, Stage
<1>7. CASE ImporterInterrupted(i)
  BY <1>T, <1>N, <1>1, <1>2, <1>7, Move, Zenon DEF ImporterInterrupted, Goto, Running, Stage
<1> QED
  BY <1>3, <1>4, <1>5, <1>6, <1>7 DEF ImporterStep

\* And the RPC threads.
LEMMA CallerInv ==
    ASSUME IInv, NEW c \in Caller, CallSync(c) \/ TryATMP(c) \/ TryATMPKnown(c) \/ CallerStep(c)
    PROVE  IInv'
<1> USE DEF IInv
<1>T. /\ issued \in Nat /\ calls \in Nat /\ pc \in [Actor -> Stage] /\ ret \in [Actor -> Stage]
      /\ waitFor \in [Actor -> Nat] /\ entered \in [Actor -> Nat] /\ csMain \in Actor \cup {Null}
      /\ interrupted \in BOOLEAN /\ inPool \in BOOLEAN
  BY DEF TypeOK
<1>N. issued + 1 \in Nat /\ calls + 1 \in Nat
  BY <1>T
<1>1. c \in Actor /\ c \notin Thread /\ c \notin Importer /\ c # Main
  BY QueueAssumption DEF Actor
<1>0. pc[c] # "idle" \/ pc[Main] = "idle"
  BY DEF CallSync, TryATMP, TryATMPKnown, CanCall, CallerStep, SyncStep, SyncWithValidationInterfaceQueue,
         SyncAdd, Wait, TryATMPPromise, TryATMPUnlock, Return
<1>2. \A s \in {"sync", "wait", "idle"} : Allowed(c, s, ret[c])
  BY <1>0, <1>1 DEF Allowed, CallerStage, StageOK
<1>3. \A s \in {"promise", "unlockWait"} : Allowed(c, "maybe", s)
  BY <1>0, <1>1 DEF Allowed, CallerStage, QueueStage
<1>M. pc[Main] # "exit"
  BY <1>0 DEF StageOK, Joined
<1>4. CASE CallSync(c)
  BY <1>T, <1>N, <1>1, <1>2, <1>4, Move, Zenon DEF CallSync, CanCall, Goto, Running, Stage
<1>5. CASE TryATMP(c)
  <2>1. inPool' \in BOOLEAN
    BY <1>5, Zenon DEF TryATMP
  <2> QED
    BY <1>T, <1>N, <1>M, <1>1, <1>3, <1>5, <2>1, Add DEF TryATMP, CanCall, Running, Stage
<1>6. CASE TryATMPKnown(c)
  <2>1. waitFor' \in [Actor -> Nat]
    BY <1>T, <1>N, <1>6, Zenon DEF TryATMPKnown
  <2> QED
    BY <1>T, <1>N, <1>1, <1>2, <1>6, <2>1, Move, Zenon DEF TryATMPKnown, CanCall, Goto, Running, Stage
<1>7. CASE SyncStep(c)
  BY <1>7, SyncStepInv
<1>8. CASE TryATMPPromise(c)
  <2>1. waitFor' \in [Actor -> Nat]
    BY <1>T, <1>N, <1>8, Zenon DEF TryATMPPromise
  <2> QED
    BY <1>T, <1>N, <1>M, <1>1, <1>3, <1>8, <2>1, Add DEF TryATMPPromise, Running, Stage
<1>9. CASE TryATMPUnlock(c)
  BY <1>T, <1>N, <1>1, <1>2, <1>9, Move, Zenon DEF TryATMPUnlock, Goto, Running, Stage
<1>10. CASE Return(c)
  BY <1>T, <1>N, <1>1, <1>2, <1>10, Move, Zenon DEF Return, Goto, Running, Stage
<1> QED
  BY <1>4, <1>5, <1>6, <1>7, <1>8, <1>9, <1>10 DEF CallerStep

\* And the thread that shuts the node down.
LEMMA ShutdownInv == ASSUME IInv, StartShutdown \/ ShutdownStep PROVE IInv'
<1> USE DEF IInv
<1>T. /\ pc \in [Actor -> Stage] /\ ret \in [Actor -> Stage] /\ calls \in Nat
      /\ waitFor \in [Actor -> Nat] /\ entered \in [Actor -> Nat] /\ csMain \in Actor \cup {Null}
      /\ interrupted \in BOOLEAN /\ inPool \in BOOLEAN
  BY DEF TypeOK
<1>1. Main \in Actor /\ Main \notin Thread /\ Main \notin Importer /\ Main \notin Caller
  BY QueueAssumption DEF Actor
<1>2. \A s \in {"stopServers", "join"} : (s = "join" => \A c \in Caller : pc[c] = "idle") => Allowed(Main, s, ret[Main])
  BY <1>1 DEF Allowed, MainStage, Joined, RunStage, QueueStage, StageOK
<1>3. \A s \in Joined : pc[Main] \in Joined => Allowed(Main, s, ret[Main])
  BY <1>1 DEF Allowed, MainStage, StageOK
<1>4. CASE StartShutdown
  BY <1>T, <1>1, <1>2, <1>4, Move, Zenon DEF StartShutdown, Goto, Running, Stage
<1>5. CASE InterruptAll
  <2>1. interrupted' \in BOOLEAN
    BY <1>5, Zenon DEF InterruptAll
  <2> QED
    BY <1>T, <1>1, <1>2, <1>5, <2>1, Move, Zenon DEF InterruptAll, Goto, Running, Stage
<1>6. CASE JoinAll
  <2>1. Allowed(Main, "flushState", ret[Main])
    BY <1>1, <1>6 DEF Allowed, JoinAll, MainStage, Joined, StageOK
  <2> QED
    BY <1>T, <1>1, <1>6, <2>1, Move, Zenon DEF JoinAll, Goto, Running, Stage
<1>7. CASE FlushState
  <2>0. pc[Main] = "flushState"
    BY <1>7 DEF FlushState
  <2>1. Allowed(Main, "maybe", "empty")
    BY <1>1, <2>0 DEF Allowed, MainStage, Joined, RunStage, QueueStage
  <2> QED
    BY <1>T, <1>1, <1>7, <2>0, <2>1, Add DEF FlushState, Running, Stage
<1>8. CASE EmptyQueue
  <2>0. pc[Main] = "empty"
    BY <1>8 DEF EmptyQueue
  <2>1. Allowed(Main, "process", "emptyCheck")
    BY <1>1, <2>0 DEF Allowed, MainStage, Joined, RunStage, QueueStage
  <2>2. StageOK'
    BY <1>1, <1>8, <2>1, StageMove, Zenon DEF EmptyQueue
  <2>3. TypeOK'
    BY <1>1, <1>8 DEF EmptyQueue, TypeOK, queueVars, Stage
  <2>4. QueueInv'
    BY <1>1, <1>8, QuietMove, Zenon DEF EmptyQueue, Running, Stage
  <2>5. ExitEmpty'
    BY <1>1, <1>8 DEF EmptyQueue, ExitEmpty, TypeOK
  <2> QED
    BY <2>2, <2>3, <2>4, <2>5
<1>9. CASE EmptyQueueContinue
  <2>1. \A s \in {"empty", "exit"} : Allowed(Main, s, ret[Main])
    BY <1>3, <1>9 DEF EmptyQueueContinue, Joined
  <2>2. CASE m_callbacks_pending # <<>>
    BY <1>T, <1>1, <1>9, <2>1, <2>2, Move, Zenon DEF EmptyQueueContinue, Goto, Running, Stage
  <2>3. CASE m_callbacks_pending = <<>>
    BY <1>T, <1>1, <1>9, <2>1, <2>3, Move, Zenon DEF EmptyQueueContinue, Goto, Running, Stage
  <2> QED
    BY <2>2, <2>3
<1> QED
  BY <1>4, <1>5, <1>6, <1>7, <1>8, <1>9 DEF ShutdownStep

\* Every step keeps the invariant.
LEMMA NextInv == IInv /\ [Next]_vars => IInv'
<1> SUFFICES ASSUME IInv, [Next]_vars PROVE IInv'
  OBVIOUS
<1>1. CASE \E a \in Actor : QueueStep(a)
  BY <1>1, QueueStepInv
<1>2. CASE \E t \in Thread : ThreadStep(t)
  BY <1>2, ThreadStepInv
<1>3. CASE \E i \in Importer : ActivateBestChain(i) \/ ImporterStep(i)
  BY <1>3, ImporterInv
<1>4. CASE \E c \in Caller : CallSync(c) \/ TryATMP(c) \/ TryATMPKnown(c) \/ CallerStep(c)
  BY <1>4, CallerInv
<1>5. CASE StartShutdown \/ ShutdownStep
  BY <1>5, ShutdownInv
<1>6. CASE UNCHANGED vars
  <2>1. TypeOK' /\ StageOK'
    BY <1>6 DEF IInv, vars, queueVars, TypeOK, StageOK
  <2>2. QueueInv'
    BY <1>6, Zenon DEF IInv, vars, queueVars, QueueInv, OneRuns, FinishedExact, InOrder, SomebodyCares, Running
  <2>3. ExitEmpty'
    BY <1>6 DEF IInv, vars, queueVars, ExitEmpty
  <2> QED
    BY <2>1, <2>2, <2>3 DEF IInv
<1> QED
  BY <1>1, <1>2, <1>3, <1>4, <1>5, <1>6 DEF Next

\* The invariant holds throughout.
LEMMA InvHolds == Spec => []IInv
<1> QED
  BY InitInv, NextInv, PTL DEF Spec

-----------------------------------------------------------------------------
(* The theorems.                                                           *)

\* The queue, its counters and the stages of the threads keep their types.
THEOREM TypeCorrect == Spec => []TypeOK
<1>1. IInv => TypeOK
  BY DEF IInv
<1> QED
  BY <1>1, InvHolds, PTL

\* SingleThreadedSchedulerClient runs one callback at a time on any number of scheduler
\* threads, each only after all earlier ones have returned.
THEOREM AlwaysSerial == Spec => []Serial
<1>1. IInv => Serial
  <2> SUFFICES ASSUME IInv PROVE Serial
    OBVIOUS
  <2>1. OneRuns /\ FinishedExact /\ Len(started) \in Nat
    BY DEF IInv, QueueInv, TypeOK
  <2>2. \A a \in Actor : pc[a] = "callback" => 1..Len(started) = finished \cup {current[a]}
    BY <2>1 DEF FinishedExact
  <2> QED
    BY <2>1, <2>2 DEF OneRuns, Serial
<1> QED
  BY <1>1, InvHolds, PTL

\* Callbacks are invoked in the order of AddToProcessQueue, none dropped or repeated.
THEOREM AlwaysInOrder == Spec => []InOrder
<1>1. IInv => InOrder
  BY DEF IInv, QueueInv
<1> QED
  BY <1>1, InvHolds, PTL

\* No wake-up is lost between AddToProcessQueue, ProcessQueue and the scheduler.
THEOREM NoLostWakeup == Spec => []SomebodyCares
<1>1. IInv => SomebodyCares
  BY DEF IInv, QueueInv
<1> QED
  BY <1>1, InvHolds, PTL

\* Whoever waited for a promise handed to the queue finds all earlier callbacks finished.
THEOREM WaitedAlwaysCaughtUp == Spec => []WaitedMeansCaughtUp
<1>1. IInv => WaitedMeansCaughtUp
  <2> SUFFICES ASSUME IInv, NEW a \in Actor, waitFor[a] \in finished
               PROVE  1..waitFor[a] \subseteq finished
    BY DEF WaitedMeansCaughtUp
  <2>1. FinishedExact /\ Len(started) \in Nat
    BY DEF IInv, QueueInv, TypeOK
  <2>2. PICK n \in Int : finished = 1..n
    BY <2>1 DEF FinishedExact
  <2> QED
    BY <2>2
<1> QED
  BY <1>1, InvHolds, PTL

\* The assertion of EmptyQueue holds, and no callback is left behind when it is done.
THEOREM AlwaysFlushedAtExit == Spec => []FlushedAtExit
<1>1. IInv => FlushedAtExit
  <2> SUFFICES ASSUME IInv PROVE FlushedAtExit
    OBVIOUS
  <2>1. ASSUME pc[Main] \in {"empty", "emptyCheck", "exit"} PROVE \A t \in Thread : pc[t] = "gone"
    BY <2>1 DEF IInv, StageOK, Joined
  <2>2. ASSUME pc[Main] = "exit" PROVE m_callbacks_pending = <<>> /\ finished = 1..issued
    <3>1. m_callbacks_pending = <<>> /\ Len(started) \in Nat
      BY <2>2 DEF IInv, ExitEmpty, TypeOK
    <3>2. \A a \in Actor : pc[a] # "callback"
      BY <2>2 DEF IInv, StageOK, Joined, Actor
    <3>3. finished = 1..Len(started)
      BY <3>2, Zenon DEF IInv, QueueInv, FinishedExact
    <3>4. issued = Len(started)
      BY <3>1 DEF IInv, QueueInv, InOrder
    <3> QED
      BY <3>1, <3>3, <3>4
  <2> QED
    BY <2>1, <2>2 DEF FlushedAtExit
<1> QED
  BY <1>1, InvHolds, PTL

=============================================================================
