------------------------ MODULE InfrastructureProofs -------------------------
(***************************************************************************)
(* What the servers rest on: the thread pool, the connection pools and the  *)
(* send path. First ThreadPool, for any number of workers, tasks and keys:  *)
(* its types, that a Stop that returned left no accepted task behind, and   *)
(* that the pool implements TaskExecutor.                                   *)
(***************************************************************************)
EXTENDS ThreadPool, ConnectionPools, SendQueue, SequenceTheorems, FiniteSetTheorems, TLAPS

\* A worker runs a task exactly while it is inside Execute.
BusyInv == \A w \in Worker : pc[w] = "exec" <=> current[w] # NoTask

\* What a worker holds, queued or running, was accepted for it and is unfinished.
ThreadsHeld(w, t) ==
  current[w] = t \/ \E i \in 1 .. Len(tasks[w]) : tasks[w][i] = t

HeldInv == \A w \in Worker, t \in Task :
  ThreadsHeld(w, t) => home[t] = w /\ Accepted(t) /\ t \notin finished

\* A worker holds a task once.
OnceInv == \A w \in Worker :
  /\ \A i, j \in 1 .. Len(tasks[w]) : i # j => tasks[w][i] # tasks[w][j]
  /\ \A i \in 1 .. Len(tasks[w]) : tasks[w][i] # current[w]

\* An accepted, unfinished task is held by its worker.
PlacedInv ==
  /\ \A w \in Worker, t \in Task :
       Accepted(t) /\ t \notin finished /\ home[t] = w => ThreadsHeld(w, t)
  /\ \A t \in Task : t \in finished => Accepted(t)

\* A worker leaves only when it was told to, with an empty queue.
ExitInv == \A w \in Worker : pc[w] = "exit" => ~running[w] /\ tasks[w] = <<>>

\* The controller's loops: what lies behind and before target.
ControlInv ==
  /\ control = "start" => \A w \in Worker :
       /\ w >= target => pc[w] = "none" /\ ~running[w]
       /\ w < target => running[w]
  /\ control = "open" => target = 0 /\ \A w \in Worker : running[w]
  /\ control = "store" => \A w \in Worker : w >= target => running[w]
  /\ control \in {"notify", "join"} => \A w \in Worker : w > target => running[w]
  /\ control \in {"store", "notify", "join"} =>
       \A w \in Worker : w < target => pc[w] = "exit"
  /\ control = "stopped" => \A w \in Worker : pc[w] = "exit"

IInv ==
  /\ TypeOK /\ BusyInv /\ HeldInv /\ OnceInv /\ PlacedInv /\ ExitInv /\ ControlInv
-------------------------------------------------------------------------------
\* Type correctness: Init and every step keep TypeOK.
LEMMA TypeInit == Init => TypeOK
BY PoolSizeAssumption DEF Init, TypeOK, Worker, RunPc

\* key % m_workers.size() and (m_nextIndex + 1) % m_workers.size() name a worker.
LEMMA ModRange == ASSUME NEW a \in Nat, NEW b \in Nat, b > 0 PROVE a % b \in 0 .. (b - 1)
OBVIOUS

LEMMA IndexInWorker == \A t \in Keyed : Index(t) \in Worker
<1> SUFFICES ASSUME NEW t \in Keyed PROVE Index(t) \in Worker
  OBVIOUS
<1>1. Key[t] \in Nat /\ PoolSize \in Nat /\ PoolSize > 0
  BY KeyAssumption, PoolSizeAssumption
<1> QED
  BY <1>1, ModRange DEF Index, Worker

LEMMA NextInWorker == \A i \in Worker : Following(i) \in Worker
<1> SUFFICES ASSUME NEW i \in Worker PROVE Following(i) \in Worker
  OBVIOUS
<1>1. i + 1 \in Nat /\ PoolSize \in Nat /\ PoolSize > 0
  BY PoolSizeAssumption DEF Worker
<1> QED
  BY <1>1, ModRange DEF Worker, Following

LEMMA LoopInWorker ==
  0 \in Worker /\ \A i \in Worker : i + 1 < PoolSize => i + 1 \in Worker
BY PoolSizeAssumption DEF Worker

\* PushTask's critical section keeps the types of what it writes.
LEMMA PushType ==
  ASSUME TypeOK, NEW t \in Task, NEW w \in Worker, Push(t, w)
  PROVE  /\ tasks' \in [Worker -> Seq(Task)]
         /\ home' \in [Task -> Worker]
         /\ submitter' \in [Task -> {"new", "notify", "returned", "rejected"}]
<1>1. Append(tasks[w], t) \in Seq(Task)
  BY DEF TypeOK
<1>2. CASE Accepts(w)
  BY <1>1, <1>2 DEF TypeOK, Push
<1>3. CASE ~Accepts(w)
  BY <1>3 DEF TypeOK, Push
<1> QED
  BY <1>2, <1>3

\* Every step keeps the types.
LEMMA TypeStep == TypeOK /\ BusyInv /\ [Next]_vars => TypeOK'
<1> SUFFICES ASSUME TypeOK, BusyInv, [Next]_vars PROVE TypeOK'
  OBVIOUS
<1> USE NoTaskAssumption DEF TypeOK, RunPc
<1>1. CASE StartWorker
  BY <1>1, LoopInWorker DEF StartWorker
<1>2. CASE CallStop
  BY <1>2 DEF CallStop
<1>3. CASE StopStore
  BY <1>3 DEF StopStore
<1>4. CASE StopNotify
  BY <1>4 DEF StopNotify, Notify
<1>5. CASE StopJoin
  BY <1>5, LoopInWorker DEF StopJoin
<1>6. ASSUME NEW t \in Task, SubmitByKey(t) PROVE TypeOK'
  <2>1. Push(t, Index(t)) /\ Index(t) \in Worker
    BY <1>6, IndexInWorker DEF SubmitByKey
  <2> QED
    BY <1>6, <2>1, PushType DEF SubmitByKey
<1>7. ASSUME NEW t \in Task, Submit(t) PROVE TypeOK'
  <2>1. Push(t, nextIndex) /\ nextIndex \in Worker /\ Following(nextIndex) \in Worker
    BY <1>7, NextInWorker DEF Submit
  <2> QED
    BY <1>7, <2>1, PushType DEF Submit
<1>8. ASSUME NEW t \in Task, NotifyOne(t) PROVE TypeOK'
  <2>1. Following(nextIndex) \in Worker
    BY NextInWorker
  <2> QED
    BY <1>8, <2>1 DEF NotifyOne, Notify
<1>9. ASSUME NEW w \in Worker, TakeTask(w) PROVE TypeOK'
  BY <1>9 DEF TakeTask
<1>10. ASSUME NEW w \in Worker, Leave(w) PROVE TypeOK'
  BY <1>10 DEF Leave
<1>11. ASSUME NEW w \in Worker, PredicateFalse(w) PROVE TypeOK'
  BY <1>11 DEF PredicateFalse
<1>12. ASSUME NEW w \in Worker, Block(w) PROVE TypeOK'
  BY <1>12 DEF Block
<1>13. ASSUME NEW w \in Worker, SpuriousWakeup(w) PROVE TypeOK'
  BY <1>13 DEF SpuriousWakeup
<1>14. ASSUME NEW w \in Worker, Execute(w) PROVE TypeOK'
  BY <1>14 DEF Execute, BusyInv
<1>15. CASE UNCHANGED vars
  BY <1>15 DEF vars
<1> QED
  BY <1>1, <1>2, <1>3, <1>4, <1>5, <1>6, <1>7, <1>8, <1>9, <1>10, <1>11, <1>12,
     <1>13, <1>14, <1>15 DEF Next, Done
-------------------------------------------------------------------------------
\* Steps that move no task keep the invariants about where tasks are.
LEMMA FrameStep ==
  ASSUME IInv, UNCHANGED <<tasks, current, home, finished>>,
         \A t \in Task : Accepted(t)' = Accepted(t)
  PROVE  HeldInv' /\ OnceInv' /\ PlacedInv'
<1>1. \A w \in Worker, t \in Task : ThreadsHeld(w, t)' = ThreadsHeld(w, t)
  BY DEF ThreadsHeld
<1> QED
  BY <1>1 DEF IInv, HeldInv, OnceInv, PlacedInv

\* A task that has not been pushed is held by nobody; PushTask puts it, once, at
\* the end of the queue of a worker that is still running.
LEMMA PushStep ==
  ASSUME IInv, NEW t \in Task, NEW w \in Worker, submitter[t] = "new", Push(t, w),
         UNCHANGED <<running, current, pc, finished, control, target>>
  PROVE  BusyInv' /\ HeldInv' /\ OnceInv' /\ PlacedInv' /\ ExitInv' /\ ControlInv'
<1>1. BusyInv' /\ ControlInv'
  BY DEF IInv, BusyInv, ControlInv
<1>2. \A v \in Worker : ~ThreadsHeld(v, t)
  BY DEF IInv, HeldInv, Accepted
<1>3. t \notin finished
  BY DEF IInv, PlacedInv, Accepted
<1>4. CASE ~Accepts(w)
  <2>1. UNCHANGED tasks /\ submitter' = [submitter EXCEPT ![t] = "rejected"]
        /\ home' = [home EXCEPT ![t] = w]
    BY <1>4 DEF Push
  <2>2. \A u \in Task : Accepted(u)' = Accepted(u) /\ (Accepted(u) => u # t)
    BY <2>1 DEF IInv, TypeOK, Accepted
  <2>3. \A v \in Worker, u \in Task : ThreadsHeld(v, u)' = ThreadsHeld(v, u)
    BY <2>1 DEF ThreadsHeld
  <2>4. \A u \in Task : Accepted(u) => home'[u] = home[u]
    BY <2>1, <2>2 DEF IInv, TypeOK
  <2>5. HeldInv' /\ PlacedInv'
    BY <2>2, <2>3, <2>4 DEF IInv, HeldInv, PlacedInv
  <2>6. OnceInv' /\ ExitInv'
    BY <2>1 DEF IInv, OnceInv, ExitInv
  <2> QED
    BY <1>1, <2>5, <2>6
<1>5. CASE Accepts(w)
  <2>1. /\ tasks' = [tasks EXCEPT ![w] = Append(@, t)]
        /\ submitter' = [submitter EXCEPT ![t] = "notify"]
        /\ home' = [home EXCEPT ![t] = w]
    BY <1>5 DEF Push
  <2>2. \A u \in Task : Accepted(u)' = (Accepted(u) \/ u = t)
    BY <2>1 DEF IInv, TypeOK, Accepted
  <2>3. /\ tasks[w] \in Seq(Task)
        /\ tasks'[w] = Append(tasks[w], t)
        /\ Len(tasks'[w]) = Len(tasks[w]) + 1
        /\ tasks'[w][Len(tasks[w]) + 1] = t
        /\ \A i \in 1 .. Len(tasks[w]) : tasks'[w][i] = tasks[w][i]
        /\ Len(tasks[w]) \in Nat
    BY <2>1 DEF IInv, TypeOK
  <2>4. \A v \in Worker : v # w => tasks'[v] = tasks[v]
    BY <2>1 DEF IInv, TypeOK
  <2>5. \A v \in Worker, u \in Task :
          ThreadsHeld(v, u)' = (ThreadsHeld(v, u) \/ (v = w /\ u = t))
    <3>1. \A i : i \in 1 .. Len(tasks'[w])
                  <=> i \in 1 .. Len(tasks[w]) \/ i = Len(tasks[w]) + 1
      BY <2>3
    <3>2. ASSUME NEW u \in Task PROVE ThreadsHeld(w, u)' = (ThreadsHeld(w, u) \/ u = t)
      BY <2>3, <3>1 DEF ThreadsHeld
    <3>3. ASSUME NEW v \in Worker, v # w, NEW u \in Task
          PROVE  ThreadsHeld(v, u)' = ThreadsHeld(v, u)
      BY <2>4, <3>3 DEF ThreadsHeld
    <3> QED
      BY <3>2, <3>3 DEF ThreadsHeld
  <2>6. \A u \in Task : home'[u] = IF u = t THEN w ELSE home[u]
    BY <2>1 DEF IInv, TypeOK
  <2>7. HeldInv'
    BY <1>2, <1>3, <2>2, <2>5, <2>6 DEF IInv, HeldInv
  <2>8. PlacedInv'
    BY <1>3, <2>2, <2>5, <2>6 DEF IInv, PlacedInv
  <2>9. OnceInv'
    <3>1. current[w] # t /\ \A i \in 1 .. Len(tasks[w]) : tasks[w][i] # t
      BY <1>2 DEF ThreadsHeld
    <3>2. \A i : i \in 1 .. Len(tasks'[w])
                  <=> i \in 1 .. Len(tasks[w]) \/ i = Len(tasks[w]) + 1
      BY <2>3
    <3>3. /\ \A i, j \in 1 .. Len(tasks'[w]) : i # j => tasks'[w][i] # tasks'[w][j]
          /\ \A i \in 1 .. Len(tasks'[w]) : tasks'[w][i] # current[w]
      BY <3>1, <3>2, <2>3 DEF IInv, OnceInv
    <3> QED
      BY <3>3, <2>4 DEF IInv, OnceInv
  <2>10. ExitInv'
    BY <1>5, <2>4 DEF IInv, ExitInv, Accepts
  <2> QED
    BY <1>1, <2>7, <2>8, <2>9, <2>10
<1> QED
  BY <1>4, <1>5

\* The head of a queue moves to current: what is held does not change.
LEMMA TakeStep ==
  ASSUME IInv, NEW w \in Worker, TakeTask(w)
  PROVE  HeldInv' /\ OnceInv' /\ PlacedInv'
<1>1. /\ tasks[w] \in Seq(Task) /\ tasks[w] # <<>>
      /\ current[w] = NoTask
      /\ tasks'[w] = Tail(tasks[w])
      /\ current'[w] = Head(tasks[w])
      /\ \A v \in Worker : v # w => tasks'[v] = tasks[v] /\ current'[v] = current[v]
      /\ UNCHANGED <<home, submitter, finished>>
  BY DEF IInv, TypeOK, BusyInv, TakeTask
<1>2. /\ Len(tasks[w]) \in Nat /\ Len(tasks[w]) >= 1
      /\ Len(tasks'[w]) = Len(tasks[w]) - 1
      /\ \A i \in 1 .. Len(tasks'[w]) : tasks'[w][i] = tasks[w][i + 1]
      /\ current'[w] = tasks[w][1]
  BY <1>1
<1>3. /\ 1 \in 1 .. Len(tasks[w])
      /\ \A i \in 1 .. Len(tasks[w]) : i # 1 =>
           i - 1 \in 1 .. Len(tasks'[w]) /\ tasks'[w][i - 1] = tasks[w][i]
      /\ \A j \in 1 .. Len(tasks'[w]) :
           j + 1 \in 1 .. Len(tasks[w]) /\ tasks'[w][j] = tasks[w][j + 1]
  BY <1>2
<1>4. ASSUME NEW u \in Task PROVE ThreadsHeld(w, u)' = ThreadsHeld(w, u)
  <2>1. current[w] # u
    BY <1>1, NoTaskAssumption
  <2>2. ASSUME NEW i \in 1 .. Len(tasks[w]), tasks[w][i] = u PROVE ThreadsHeld(w, u)'
    <3>1. CASE i = 1
      BY <2>2, <3>1, <1>2 DEF ThreadsHeld
    <3>2. CASE i # 1
      BY <2>2, <3>2, <1>3 DEF ThreadsHeld
    <3> QED
      BY <3>1, <3>2
  <2>3. ASSUME NEW j \in 1 .. Len(tasks'[w]), tasks'[w][j] = u PROVE ThreadsHeld(w, u)
    BY <2>3, <1>3 DEF ThreadsHeld
  <2>4. current'[w] = u => ThreadsHeld(w, u)
    BY <1>2, <1>3 DEF ThreadsHeld
  <2> QED
    BY <2>1, <2>2, <2>3, <2>4 DEF ThreadsHeld
<1>5. ASSUME NEW v \in Worker, v # w, NEW u \in Task PROVE ThreadsHeld(v, u)' = ThreadsHeld(v, u)
  BY <1>1, <1>5 DEF ThreadsHeld
<1>6. \A v \in Worker, u \in Task : ThreadsHeld(v, u)' = ThreadsHeld(v, u)
  BY <1>4, <1>5 DEF ThreadsHeld
<1>7. HeldInv' /\ PlacedInv'
  BY <1>1, <1>6 DEF IInv, HeldInv, PlacedInv, Accepted
<1>8. /\ \A i, j \in 1 .. Len(tasks'[w]) : i # j => tasks'[w][i] # tasks'[w][j]
      /\ \A i \in 1 .. Len(tasks'[w]) : tasks'[w][i] # current'[w]
  <2>1. ASSUME NEW i \in 1 .. Len(tasks'[w]), NEW j \in 1 .. Len(tasks'[w]), i # j
        PROVE  tasks'[w][i] # tasks'[w][j]
    <3>1. i + 1 # j + 1
      BY <2>1
    <3> QED
      BY <3>1, <1>3 DEF IInv, OnceInv
  <2>2. ASSUME NEW i \in 1 .. Len(tasks'[w]) PROVE tasks'[w][i] # current'[w]
    <3>1. i + 1 # 1
      OBVIOUS
    <3> QED
      BY <3>1, <1>2, <1>3 DEF IInv, OnceInv
  <2> QED
    BY <2>1, <2>2
<1>9. ASSUME NEW v \in Worker, v # w
      PROVE  /\ \A i, j \in 1 .. Len(tasks'[v]) : i # j => tasks'[v][i] # tasks'[v][j]
             /\ \A i \in 1 .. Len(tasks'[v]) : tasks'[v][i] # current'[v]
  BY <1>1, <1>9 DEF IInv, OnceInv
<1>10. OnceInv'
  BY <1>8, <1>9 DEF OnceInv
<1> QED
  BY <1>7, <1>10

\* A finished task was held once, so nobody holds it any more.
LEMMA ExecuteStep ==
  ASSUME IInv, NEW w \in Worker, Execute(w)
  PROVE  HeldInv' /\ OnceInv' /\ PlacedInv'
<1>1. /\ current[w] \in Task /\ current[w] # NoTask
      /\ finished' = finished \cup {current[w]}
      /\ current'[w] = NoTask
      /\ \A v \in Worker : v # w => current'[v] = current[v]
      /\ UNCHANGED <<tasks, home, submitter>>
  BY NoTaskAssumption DEF IInv, TypeOK, BusyInv, Execute
<1>2. ThreadsHeld(w, current[w])
  BY DEF ThreadsHeld
<1>3. ASSUME NEW u \in Task PROVE ThreadsHeld(w, u)' = (ThreadsHeld(w, u) /\ u # current[w])
  BY <1>1, NoTaskAssumption DEF ThreadsHeld, IInv, OnceInv
<1>4. ASSUME NEW v \in Worker, v # w, NEW u \in Task
      PROVE  ThreadsHeld(v, u)' = ThreadsHeld(v, u) /\ (ThreadsHeld(v, u) => u # current[w])
  <2>1. ThreadsHeld(v, u)' = ThreadsHeld(v, u)
    BY <1>1, <1>4 DEF ThreadsHeld
  <2>2. ThreadsHeld(v, u) => u # current[w]
    BY <1>2, <1>4 DEF IInv, HeldInv
  <2> QED
    BY <2>1, <2>2
<1>5. \A v \in Worker, u \in Task : ThreadsHeld(v, u)' = (ThreadsHeld(v, u) /\ u # current[w])
  BY <1>3, <1>4 DEF ThreadsHeld
<1>6. HeldInv' /\ PlacedInv'
  BY <1>1, <1>2, <1>5 DEF IInv, HeldInv, PlacedInv, Accepted
<1>7. \A i \in 1 .. Len(tasks[w]) : tasks[w][i] \in Task
  BY DEF IInv, TypeOK
<1>8. OnceInv'
  BY <1>1, <1>7, NoTaskAssumption DEF IInv, OnceInv
<1> QED
  BY <1>6, <1>8

\* Every step keeps the inductive invariant.
LEMMA InductiveStep == IInv /\ [Next]_vars => IInv'
<1> SUFFICES ASSUME IInv, [Next]_vars PROVE IInv'
  OBVIOUS
<1>1. TypeOK'
  BY TypeStep DEF IInv
<1> USE <1>1 DEF IInv
<1>2. CASE StartWorker
  <2>1. HeldInv' /\ OnceInv' /\ PlacedInv'
    BY <1>2, FrameStep DEF StartWorker, Accepted
  <2>2. /\ target \in Worker /\ target \in Nat /\ \A v \in Worker : v \in Nat
        /\ \A v \in Worker : v >= target => pc[v] = "none" /\ ~running[v]
    BY <1>2 DEF StartWorker, ControlInv, TypeOK, Worker
  <2>7. /\ pc' = [pc EXCEPT ![target] = "lock"] /\ current' = current /\ tasks' = tasks
        /\ running' = [running EXCEPT ![target] = TRUE] /\ control = "start"
    BY <1>2 DEF StartWorker
  <2>8. /\ DOMAIN pc = Worker /\ DOMAIN running = Worker
    BY DEF TypeOK
  <2>9. /\ pc'[target] = "lock" /\ pc[target] = "none" /\ running'[target]
        /\ \A v \in Worker : v # target => pc'[v] = pc[v] /\ running'[v] = running[v]
    BY <2>2, <2>7, <2>8
  <2>3. BusyInv' /\ ExitInv'
    <3>1. current[target] = NoTask
      BY <2>2, <2>9 DEF BusyInv
    <3>2. BusyInv'
      BY <2>7, <2>9, <3>1 DEF BusyInv
    <3>3. ExitInv'
      BY <2>7, <2>9 DEF ExitInv
    <3> QED
      BY <3>2, <3>3
  <2>4. CASE target + 1 < PoolSize
    <3>1. control' = "start" /\ target' = target + 1
      BY <1>2, <2>4 DEF StartWorker
    <3>2. \A v \in Worker : v >= target + 1 => v >= target /\ v # target
      BY <2>2
    <3>3. \A v \in Worker : v < target + 1 => v < target \/ v = target
      BY <2>2
    <3>4. \A v \in Worker : v < target => running[v]
      BY <2>7 DEF ControlInv
    <3>5. \A v \in Worker : v >= target + 1 => pc'[v] = "none" /\ ~running'[v]
      BY <2>2, <2>9, <3>2
    <3>6. \A v \in Worker : v < target + 1 => running'[v]
      BY <2>9, <3>3, <3>4
    <3> QED
      BY <2>1, <2>3, <3>1, <3>5, <3>6 DEF ControlInv
  <2>5. CASE ~(target + 1 < PoolSize)
    <3>1. control' = "open" /\ target' = 0
      BY <1>2, <2>5 DEF StartWorker
    <3>2. \A v \in Worker : v # target => v < target
      BY <2>5, <2>2, PoolSizeAssumption DEF Worker
    <3>3. \A v \in Worker : running'[v]
      BY <1>2, <3>2, <2>2 DEF StartWorker, ControlInv, TypeOK
    <3> QED
      BY <2>1, <2>3, <3>1, <3>3 DEF ControlInv
  <2> QED
    BY <2>4, <2>5
<1>3. CASE CallStop
  <2>1. HeldInv' /\ OnceInv' /\ PlacedInv' /\ BusyInv' /\ ExitInv'
    BY <1>3, FrameStep DEF CallStop, Accepted, BusyInv, ExitInv
  <2>2. ControlInv'
    BY <1>3 DEF CallStop, ControlInv, Worker
  <2> QED
    BY <2>1, <2>2
<1>4. CASE StopStore
  <2>1. HeldInv' /\ OnceInv' /\ PlacedInv' /\ BusyInv'
    BY <1>4, FrameStep DEF StopStore, Accepted, BusyInv
  <2>2. ExitInv'
    BY <1>4 DEF StopStore, ExitInv, TypeOK
  <2>3. ControlInv'
    BY <1>4 DEF StopStore, ControlInv, TypeOK, Worker
  <2> QED
    BY <2>1, <2>2, <2>3
<1>5. CASE StopNotify
  <2>1. HeldInv' /\ OnceInv' /\ PlacedInv'
    BY <1>5, FrameStep DEF StopNotify, Accepted
  <2>2. BusyInv' /\ ExitInv'
    BY <1>5 DEF StopNotify, Notify, BusyInv, ExitInv, TypeOK
  <2>3. ControlInv'
    BY <1>5 DEF StopNotify, Notify, ControlInv, TypeOK
  <2> QED
    BY <2>1, <2>2, <2>3
<1>6. CASE StopJoin
  <2>1. HeldInv' /\ OnceInv' /\ PlacedInv' /\ BusyInv' /\ ExitInv'
    BY <1>6, FrameStep DEF StopJoin, Accepted, BusyInv, ExitInv
  <2>2. ControlInv'
    BY <1>6, PoolSizeAssumption DEF StopJoin, ControlInv, TypeOK, Worker
  <2> QED
    BY <2>1, <2>2
<1>7. ASSUME NEW t \in Task, SubmitByKey(t) PROVE IInv'
  BY <1>7, PushStep, IndexInWorker DEF SubmitByKey
<1>8. ASSUME NEW t \in Task, Submit(t) PROVE IInv'
  <2>1. nextIndex \in Worker
    BY DEF TypeOK
  <2> QED
    BY <1>8, <2>1, PushStep DEF Submit
<1>9. ASSUME NEW t \in Task, NotifyOne(t) PROVE IInv'
  <2>1. HeldInv' /\ OnceInv' /\ PlacedInv'
    BY <1>9, FrameStep DEF NotifyOne, Accepted, TypeOK
  <2>2. BusyInv' /\ ExitInv'
    BY <1>9 DEF NotifyOne, Notify, BusyInv, ExitInv, TypeOK
  <2>3. ControlInv'
    BY <1>9 DEF NotifyOne, Notify, ControlInv, TypeOK
  <2> QED
    BY <2>1, <2>2, <2>3
<1>10. ASSUME NEW w \in Worker, TakeTask(w) PROVE IInv'
  <2>1. BusyInv'
    <3>1. Head(tasks[w]) \in Task
      BY <1>10 DEF TakeTask, TypeOK
    <3> QED
      BY <1>10, <3>1, NoTaskAssumption DEF TakeTask, BusyInv, TypeOK
  <2>2. ExitInv' /\ ControlInv'
    BY <1>10 DEF TakeTask, ExitInv, ControlInv, TypeOK
  <2> QED
    BY <1>10, <2>1, <2>2, TakeStep
<1>11. ASSUME NEW w \in Worker, Leave(w) PROVE IInv'
  <2>1. HeldInv' /\ OnceInv' /\ PlacedInv'
    BY <1>11, FrameStep DEF Leave, Accepted
  <2>2. BusyInv' /\ ExitInv' /\ ControlInv'
    BY <1>11 DEF Leave, MayLeave, BusyInv, ExitInv, ControlInv, TypeOK
  <2> QED
    BY <2>1, <2>2
<1>12. ASSUME NEW w \in Worker, PredicateFalse(w) \/ Block(w) \/ SpuriousWakeup(w)
       PROVE  IInv'
  <2>1. HeldInv' /\ OnceInv' /\ PlacedInv'
    BY <1>12, FrameStep DEF PredicateFalse, Block, SpuriousWakeup, Accepted
  <2>2. BusyInv' /\ ExitInv'
    BY <1>12 DEF PredicateFalse, Block, SpuriousWakeup, BusyInv, ExitInv, TypeOK
  <2>3. ControlInv'
    BY <1>12 DEF PredicateFalse, Block, SpuriousWakeup, ControlInv, TypeOK
  <2> QED
    BY <2>1, <2>2, <2>3
<1>13. ASSUME NEW w \in Worker, Execute(w) PROVE IInv'
  <2>1. BusyInv' /\ ExitInv' /\ ControlInv'
    BY <1>13 DEF Execute, BusyInv, ExitInv, ControlInv, TypeOK
  <2> QED
    BY <1>13, <2>1, ExecuteStep
<1>14. CASE UNCHANGED vars
  <2>1. HeldInv' /\ OnceInv' /\ PlacedInv' /\ BusyInv' /\ ExitInv' /\ ControlInv'
    BY <1>14, FrameStep DEF vars, Accepted, BusyInv, ExitInv, ControlInv
  <2> QED
    BY <2>1
<1> QED
  BY <1>2, <1>3, <1>4, <1>5, <1>6, <1>7, <1>8, <1>9, <1>10, <1>11, <1>12, <1>13,
     <1>14 DEF Next, Done

LEMMA InductiveInit == Init => IInv
<1> SUFFICES ASSUME Init PROVE IInv
  OBVIOUS
<1>1. TypeOK
  BY TypeInit
<1>2. \A w \in Worker : tasks[w] = <<>> /\ Len(tasks[w]) = 0 /\ current[w] = NoTask
  BY DEF Init
<1>3. \A t \in Task : ~Accepted(t)
  BY DEF Init, Accepted
<1>4. HeldInv /\ OnceInv /\ PlacedInv
  BY <1>2, <1>3, NoTaskAssumption DEF HeldInv, OnceInv, PlacedInv, ThreadsHeld, Init
<1>5. BusyInv /\ ExitInv
  BY DEF Init, BusyInv, ExitInv
<1>6. ControlInv
  BY DEF Init, ControlInv, Worker
<1> QED
  BY <1>1, <1>4, <1>5, <1>6 DEF IInv

LEMMA Inductive == Spec => []IInv
BY InductiveInit, InductiveStep, PTL DEF Spec

\* The types of the pool's state, for every pool size and set of tasks.
THEOREM TypeCorrect == Spec => []TypeOK
<1>1. IInv => TypeOK
  BY DEF IInv
<1> QED
  BY <1>1, Inductive, PTL

\* ThreadPool::Stop returns only when every task it had accepted was executed.
THEOREM StopDrains == Spec => []StoppedPoolFinishedAll
<1>1. IInv => StoppedPoolFinishedAll
  <2> SUFFICES ASSUME IInv, control = "stopped", NEW t \in Task, Accepted(t),
                      t \notin finished
               PROVE  FALSE
    BY DEF StoppedPoolFinishedAll
  <2>1. home[t] \in Worker /\ ThreadsHeld(home[t], t)
    BY DEF IInv, TypeOK, PlacedInv
  <2>2. pc[home[t]] = "exit" /\ tasks[home[t]] = <<>> /\ current[home[t]] = NoTask
    BY <2>1 DEF IInv, TypeOK, ControlInv, ExitInv, BusyInv
  <2> QED
    BY <2>1, <2>2, NoTaskAssumption DEF ThreadsHeld
<1> QED
  BY <1>1, Inductive, PTL
-------------------------------------------------------------------------------
\* A step that moves no task and opens or closes no lane is a stutter of TaskExecutor.
LEMMA StutterStep ==
  ASSUME UNCHANGED <<running, tasks, current, finished>>,
         \A t \in Task : Outcome'[t] = Outcome[t]
  PROVE  UNCHANGED Executor!vars
BY DEF Executor!vars, Outcome

\* PushTask maps to Accept or Reject.
LEMMA PushRefines ==
  ASSUME IInv, NEW t \in Task, NEW w \in Worker, submitter[t] = "new", Push(t, w),
         w \in Executor!LaneOf(t), UNCHANGED <<running, current, finished>>
  PROVE  Executor!Accept(t, w) \/ Executor!Reject(t, w)
<1>1. t \notin finished /\ Outcome[t] = "new"
  BY DEF IInv, PlacedInv, Accepted, Outcome
<1>2. CASE Accepts(w)
  <2>1. Outcome' = [Outcome EXCEPT ![t] = "accepted"]
    BY <1>1, <1>2 DEF Push, Outcome, Accepted, IInv, TypeOK
  <2> QED
    BY <1>1, <1>2, <2>1 DEF Push, Accepts, Executor!Accept
<1>3. CASE ~Accepts(w)
  <2>1. Outcome' = [Outcome EXCEPT ![t] = "rejected"]
    BY <1>1, <1>3 DEF Push, Outcome, Accepted, IInv, TypeOK
  <2> QED
    BY <1>1, <1>3, <2>1 DEF Push, Accepts, Executor!Reject
<1> QED
  BY <1>2, <1>3

\* Every step of the pool is a step of TaskExecutor or a stutter.
LEMMA StepRefines == IInv /\ [Next]_vars => [Executor!Next]_(Executor!vars)
<1> SUFFICES ASSUME IInv, [Next]_vars PROVE [Executor!Next]_(Executor!vars)
  OBVIOUS
<1> USE DEF Executor!Lane
<1>0. Worker = Executor!Lane
  BY DEF Worker
<1>1. CASE StartWorker
  <2>1. target \in Worker /\ ~running[target]
    BY <1>1 DEF StartWorker, IInv, TypeOK, ControlInv, Worker
  <2>2. Executor!Open(target)
    BY <1>1, <2>1 DEF StartWorker, Executor!Open, Outcome, Accepted
  <2> QED
    BY <1>0, <2>1, <2>2 DEF Executor!Next
<1>2. CASE StopStore
  <2>1. target \in Worker /\ running[target]
    BY <1>2 DEF StopStore, IInv, TypeOK, ControlInv, Worker
  <2>2. Executor!Close(target)
    BY <1>2, <2>1 DEF StopStore, Executor!Close, Outcome, Accepted
  <2> QED
    BY <1>0, <2>1, <2>2 DEF Executor!Next
<1>3. CASE CallStop \/ StopNotify \/ StopJoin
  BY <1>3, StutterStep DEF CallStop, StopNotify, StopJoin, Outcome, Accepted
<1>4. ASSUME NEW t \in Task, SubmitByKey(t) PROVE Executor!Next
  <2>1. Index(t) \in Worker /\ Index(t) \in Executor!LaneOf(t)
    BY <1>4, IndexInWorker DEF SubmitByKey, Executor!LaneOf, Index
  <2> QED
    BY <1>0, <1>4, <2>1, PushRefines DEF SubmitByKey, Executor!Next
<1>5. ASSUME NEW t \in Task, Submit(t) PROVE Executor!Next
  <2>1. nextIndex \in Worker /\ nextIndex \in Executor!LaneOf(t)
    BY <1>0, <1>5 DEF Submit, Executor!LaneOf, IInv, TypeOK
  <2> QED
    BY <1>0, <1>5, <2>1, PushRefines DEF Submit, Executor!Next
<1>6. ASSUME NEW t \in Task, NotifyOne(t) PROVE UNCHANGED Executor!vars
  <2>1. \A u \in Task : Outcome'[u] = Outcome[u]
    BY <1>6 DEF NotifyOne, Outcome, Accepted, IInv, TypeOK
  <2> QED
    BY <1>6, <2>1, StutterStep DEF NotifyOne
<1>7. ASSUME NEW w \in Worker, TakeTask(w) PROVE Executor!Next
  <2>1. current[w] = NoTask
    BY <1>7 DEF TakeTask, IInv, BusyInv
  <2>2. Executor!Begin(w)
    BY <1>7, <2>1 DEF TakeTask, Executor!Begin, Outcome, Accepted
  <2> QED
    BY <1>0, <2>2 DEF Executor!Next
<1>8. ASSUME NEW w \in Worker, Execute(w) PROVE Executor!Next
  <2>1. current[w] \in Task /\ current[w] # NoTask
    BY <1>8 DEF Execute, IInv, TypeOK, BusyInv
  <2>2. Accepted(current[w]) /\ current[w] \notin finished
    BY <2>1 DEF IInv, HeldInv, ThreadsHeld
  <2>3. /\ Outcome[current[w]] = "accepted"
        /\ Outcome' = [Outcome EXCEPT ![current[w]] = "finished"]
    BY <1>8, <2>1, <2>2 DEF Execute, Outcome, Accepted
  <2>4. Executor!Finish(w)
    BY <1>8, <2>1, <2>3 DEF Execute, Executor!Finish
  <2> QED
    BY <1>0, <2>4 DEF Executor!Next
<1>9. ASSUME NEW w \in Worker,
             Leave(w) \/ PredicateFalse(w) \/ Block(w) \/ SpuriousWakeup(w)
      PROVE  UNCHANGED Executor!vars
  BY <1>9, StutterStep
     DEF Leave, PredicateFalse, Block, SpuriousWakeup, Outcome, Accepted
<1>10. CASE UNCHANGED vars
  BY <1>10, StutterStep DEF vars, Outcome, Accepted
<1> QED
  BY <1>1, <1>2, <1>3, <1>4, <1>5, <1>6, <1>7, <1>8, <1>9, <1>10 DEF Next, Done

LEMMA InitRefines == Init => Executor!Init
BY DEF Init, Executor!Init, Executor!Lane, Worker, Outcome, Accepted

\* The pool implements TaskExecutor: one run per accepted task, FIFO per worker,
\* one worker per key, whatever Stop, PushTask and Run do in between.
THEOREM PoolImplementsExecutor == Spec => ImplementsExecutor
BY InitRefines, StepRefines, Inductive, PTL
   DEF Spec, ImplementsExecutor, Executor!Spec

-------------------------------------------------------------------------------
(***************************************************************************)
(* ConnectionPools, for any number of threads, slots and Redis clients:     *)
(* types, exclusive use, the count of slots, and that no thread waits       *)
(* beside an idle Redis client.                                             *)
(***************************************************************************)
\* The elements of a queue, and that none is in it twice.
In(q) == {q[i] : i \in DOMAIN q}
NoDup(q) == \A i, j \in DOMAIN q : q[i] = q[j] => i = j

\* ExclusiveUse, for each pool in terms of In and NoDup.
MySqlOnce ==
  /\ NoDup(pool)
  /\ \A s, t \in Thread : conn[s] = conn[t] /\ s # t => conn[s] = NoConnection
  /\ \A t \in Thread : conn[t] \notin In(pool)

RedisOnce ==
  /\ NoDup(available)
  /\ \A s, t \in Thread : client[s] = client[t] /\ s # t => client[s] = NoClient
  /\ \A t \in Thread : client[t] \notin In(available)
  /\ \A c \in Client : c \in In(available) \/ \E t \in Thread : client[t] = c

\* The types of each pool's part of the state.
MySqlType ==
  /\ pool \in Seq(Connection)
  /\ live \in 0 .. TargetPoolSize
  /\ dead \in SUBSET Connection
  /\ step \in [Thread -> {"idle", "ping", "create", "using"}]
  /\ conn \in [Thread -> Connection \cup {NoConnection}]
  /\ abandoned \in Nat

RedisType ==
  /\ available \in Seq(Client)
  /\ redis \in [Thread -> {"none", "waiting", "woken", "check", "holding", "notify"}]
  /\ client \in [Thread -> Client \cup {NoClient}]

\* A thread has a connection or client exactly where the code uses one.
ConnLinked ==
  \A t \in Thread : conn[t] # NoConnection <=> step[t] \in {"ping", "using"}

ClientLinked ==
  \A t \in Thread : client[t] # NoClient <=> redis[t] \in {"check", "holding"}

\* The pools share no variable: the inductive invariant has a part for each.
MySqlInv == MySqlType /\ ConnLinked /\ MySqlOnce /\ SlotsAccounted
RedisInv == RedisType /\ ClientLinked /\ RedisOnce /\ NobodyWaitsBesideIdle

PoolsIInv == MySqlInv /\ RedisInv
-------------------------------------------------------------------------------
\* Popping takes the first element of a queue and nothing else.
LEMMA Popped ==
  ASSUME NEW S, NEW q \in Seq(S), q # <<>>
  PROVE  /\ Head(q) \in S /\ Head(q) \in In(q)
         /\ Tail(q) \in Seq(S)
         /\ Len(Tail(q)) = Len(q) - 1
         /\ NoDup(q) => NoDup(Tail(q)) /\ In(Tail(q)) = In(q) \ {Head(q)}
<1>1. /\ Head(q) \in S /\ Tail(q) \in Seq(S) /\ Len(Tail(q)) = Len(q) - 1
      /\ \A i \in 1 .. Len(Tail(q)) : Tail(q)[i] = q[i + 1]
  BY HeadTailProperties
<1>2. /\ Len(q) \in Nat \ {0} /\ DOMAIN q = 1 .. Len(q)
      /\ DOMAIN Tail(q) = 1 .. Len(Tail(q))
  BY <1>1, LenProperties, EmptySeq
<1>3. Head(q) = q[1]
  BY <1>2
<1>4. Head(q) \in In(q)
  BY <1>2, <1>3 DEF In
<1>5. ASSUME NoDup(q) PROVE NoDup(Tail(q)) /\ In(Tail(q)) = In(q) \ {Head(q)}
  <2>1. NoDup(Tail(q))
    BY <1>1, <1>2, <1>5 DEF NoDup
  <2>2. ASSUME NEW x \in In(Tail(q)) PROVE x \in In(q) \ {Head(q)}
    <3>1. PICK i \in 1 .. Len(Tail(q)) : x = Tail(q)[i]
      BY <1>2, <2>2 DEF In
    <3>2. x = q[i + 1] /\ i + 1 \in DOMAIN q /\ 1 \in DOMAIN q /\ i + 1 # 1
      BY <1>1, <1>2, <3>1
    <3>3. x # q[1]
      BY <1>5, <3>2 DEF NoDup
    <3> QED BY <1>3, <3>2, <3>3 DEF In
  <2>3. ASSUME NEW x \in In(q) \ {Head(q)} PROVE x \in In(Tail(q))
    <3>1. PICK i \in 1 .. Len(q) : x = q[i]
      BY <1>2, <2>3 DEF In
    <3>2. i # 1
      BY <1>3, <2>3, <3>1
    <3>3. i - 1 \in 1 .. Len(Tail(q)) /\ (i - 1) + 1 = i
      BY <1>1, <1>2, <3>2
    <3>4. x = Tail(q)[i - 1]
      BY <1>1, <3>1, <3>3
    <3> QED BY <1>2, <3>3, <3>4 DEF In
  <2> QED BY <2>1, <2>2, <2>3
<1> QED BY <1>1, <1>4, <1>5

\* Pushing adds one element to a queue, once if it was not in it.
LEMMA Pushed ==
  ASSUME NEW S, NEW q \in Seq(S), NEW x \in S
  PROVE  /\ Append(q, x) \in Seq(S)
         /\ Len(Append(q, x)) = Len(q) + 1
         /\ In(Append(q, x)) = In(q) \cup {x}
         /\ NoDup(q) /\ x \notin In(q) => NoDup(Append(q, x))
<1>1. /\ Append(q, x) \in Seq(S) /\ Len(Append(q, x)) = Len(q) + 1
      /\ \A i \in 1 .. Len(q) : Append(q, x)[i] = q[i]
      /\ Append(q, x)[Len(q) + 1] = x
  BY AppendProperties
<1>2. /\ Len(q) \in Nat /\ DOMAIN q = 1 .. Len(q)
      /\ DOMAIN Append(q, x) = 1 .. (Len(q) + 1)
  BY <1>1, LenProperties
<1>3. ASSUME NEW y \in In(Append(q, x)) PROVE y \in In(q) \cup {x}
  <2>1. PICK i \in 1 .. (Len(q) + 1) : y = Append(q, x)[i]
    BY <1>2, <1>3 DEF In
  <2>2. i \in 1 .. Len(q) \/ i = Len(q) + 1
    BY <1>2
  <2> QED BY <1>1, <1>2, <2>1, <2>2 DEF In
<1>4. ASSUME NEW y \in In(q) PROVE y \in In(Append(q, x))
  <2>1. PICK i \in 1 .. Len(q) : y = q[i]
    BY <1>2, <1>4 DEF In
  <2>2. i \in 1 .. (Len(q) + 1) /\ y = Append(q, x)[i]
    BY <1>1, <1>2, <2>1
  <2> QED BY <1>2, <2>2 DEF In
<1>5. x \in In(Append(q, x))
  <2>1. Len(q) + 1 \in 1 .. (Len(q) + 1)
    BY <1>2
  <2> QED BY <1>1, <1>2, <2>1 DEF In
<1>6. ASSUME NoDup(q), x \notin In(q) PROVE NoDup(Append(q, x))
  <2>1. \A i \in 1 .. Len(q) : q[i] # x
    BY <1>2, <1>6 DEF In
  <2> QED BY <1>1, <1>2, <1>6, <2>1 DEF NoDup
<1> QED BY <1>1, <1>3, <1>4, <1>5, <1>6

\* The two parts together say what the runs check.
LEMMA Together ==
  PoolsIInv => PoolsTypeOK /\ ExclusiveUse /\ SlotsAccounted /\ NobodyWaitsBesideIdle
BY DEF PoolsIInv, MySqlInv, RedisInv, MySqlType, RedisType, PoolsTypeOK, ExclusiveUse,
       MySqlOnce, RedisOnce, In, NoDup

\* The pool never holds the missing connection.
LEMMA NoConnectionNotIn == MySqlType => NoConnection \notin In(pool)
<1> SUFFICES ASSUME MySqlType PROVE NoConnection \notin In(pool)
  OBVIOUS
<1>1. \A i \in DOMAIN pool : pool[i] \in Connection
  BY ElementOfSeq, LenProperties DEF MySqlType
<1> QED BY <1>1, PoolAssumption DEF In, Connection, NoConnection

\* A thread that starts to occupy a slot, stops, or goes on.
LEMMA BusyCount ==
  ASSUME NEW t \in Thread, \A u \in Thread : u # t => step'[u] = step[u]
  PROVE  /\ Cardinality(Busy) \in Nat /\ Cardinality(Busy') \in Nat
         /\ step[t] = "idle" /\ step'[t] # "idle" =>
              Cardinality(Busy') = Cardinality(Busy) + 1
         /\ step[t] # "idle" /\ step'[t] = "idle" =>
              Cardinality(Busy') = Cardinality(Busy) - 1 /\ Cardinality(Busy) > 0
         /\ step[t] # "idle" /\ step'[t] # "idle" =>
              Cardinality(Busy') = Cardinality(Busy)
<1>1. IsFiniteSet(Busy)
  BY PoolAssumption, FS_Subset DEF Busy
<1>2. Busy' = IF step'[t] = "idle" THEN Busy \ {t} ELSE Busy \cup {t}
  BY DEF Busy
<1>3. t \in Busy <=> step[t] # "idle"
  BY DEF Busy
<1>4. /\ Cardinality(Busy \cup {t}) = IF t \in Busy THEN Cardinality(Busy)
                                      ELSE Cardinality(Busy) + 1
      /\ Cardinality(Busy \ {t}) = IF t \in Busy THEN Cardinality(Busy) - 1
                                   ELSE Cardinality(Busy)
      /\ IsFiniteSet(Busy \cup {t}) /\ IsFiniteSet(Busy \ {t})
  BY <1>1, FS_AddElement, FS_RemoveElement
<1>5. /\ Cardinality(Busy) \in Nat
      /\ Cardinality(Busy \cup {t}) \in Nat /\ Cardinality(Busy \ {t}) \in Nat
  BY <1>1, <1>4, FS_CardinalityType
<1> QED BY <1>2, <1>3, <1>4, <1>5
-------------------------------------------------------------------------------
\* The actions on the MySQL pool keep its part of the invariant.
LEMMA GetConnectionStep ==
  ASSUME MySqlInv, NEW t \in Thread, GetConnection(t)
  PROVE  MySqlInv'
<1> USE DEF MySqlInv
<1>1. CASE /\ pool # <<>>
           /\ conn' = [conn EXCEPT ![t] = Head(pool)]
           /\ pool' = Pop
           /\ step' = [step EXCEPT ![t] = "ping"]
           /\ UNCHANGED <<live, dead, abandoned>>
  <2>1. /\ Head(pool) \in Connection /\ Head(pool) \in In(pool)
        /\ pool' \in Seq(Connection)
        /\ Len(pool') = Len(pool) - 1
        /\ NoDup(pool') /\ In(pool') = In(pool) \ {Head(pool)}
    BY <1>1, Popped DEF Pop, MySqlType, MySqlOnce
  <2>2. Head(pool) # NoConnection
    BY <2>1, PoolAssumption DEF Connection, NoConnection
  <2>3. MySqlType'
    BY <1>1, <2>1 DEF MySqlType
  <2>4. ConnLinked'
    BY <1>1, <2>2 DEF MySqlType, ConnLinked
  <2>5. MySqlOnce'
    BY <1>1, <2>1 DEF MySqlType, MySqlOnce
  <2>6. SlotsAccounted'
    <3>1. step[t] = "idle" /\ Len(pool) \in Nat
      BY LenProperties DEF GetConnection, MySqlType
    <3>2. Cardinality(Busy') = Cardinality(Busy) + 1 /\ Cardinality(Busy) \in Nat
      <4>1. step'[t] = "ping" /\ \A u \in Thread : u # t => step'[u] = step[u]
        BY <1>1 DEF MySqlType
      <4> QED BY <4>1, <3>1, BusyCount
    <3> QED BY <1>1, <2>1, <3>1, <3>2 DEF SlotsAccounted, MySqlType
  <2> QED BY <2>3, <2>4, <2>5, <2>6
<1>2. CASE /\ SlotLost
           /\ live' = live + 1
           /\ step' = [step EXCEPT ![t] = "create"]
           /\ UNCHANGED <<pool, conn, dead, abandoned>>
  <2>1. step[t] = "idle" /\ Len(pool) \in Nat
    BY LenProperties DEF GetConnection, MySqlType
  <2>2. MySqlType'
    BY <1>2, PoolAssumption DEF MySqlType, SlotLost
  <2>3. ConnLinked' /\ MySqlOnce'
    BY <1>2, <2>1 DEF MySqlType, ConnLinked, MySqlOnce
  <2>4. SlotsAccounted'
    <3>1. Cardinality(Busy') = Cardinality(Busy) + 1 /\ Cardinality(Busy) \in Nat
      <4>1. step'[t] = "create" /\ \A u \in Thread : u # t => step'[u] = step[u]
        BY <1>2 DEF MySqlType
      <4> QED BY <4>1, <2>1, BusyCount
    <3> QED BY <1>2, <2>1, <3>1 DEF SlotsAccounted, MySqlType
  <2> QED BY <2>2, <2>3, <2>4
<1> QED BY <1>1, <1>2 DEF GetConnection

LEMMA PingStep ==
  ASSUME MySqlInv, NEW t \in Thread, Ping(t)
  PROVE  MySqlInv'
<1> USE DEF MySqlInv
<1>1. PICK s \in {"using", "create"} :
        /\ step[t] = "ping" /\ step' = [step EXCEPT ![t] = s]
        /\ conn' = IF s = "using" THEN conn ELSE [conn EXCEPT ![t] = NoConnection]
        /\ dead' \in SUBSET dead
        /\ UNCHANGED <<pool, live, abandoned>>
  BY DEF Ping
<1>2. MySqlType'
  BY <1>1 DEF MySqlType
<1>3. ConnLinked'
  BY <1>1 DEF MySqlType, ConnLinked
<1>4. NoConnection \notin In(pool)
  BY NoConnectionNotIn
<1>5. MySqlOnce'
  BY <1>1, <1>4 DEF MySqlType, MySqlOnce
<1>6. SlotsAccounted'
  <2>1. Cardinality(Busy') = Cardinality(Busy)
    <3>1. /\ step'[t] # "idle" /\ step[t] # "idle"
          /\ \A u \in Thread : u # t => step'[u] = step[u]
      BY <1>1 DEF MySqlType
    <3> QED BY <3>1, BusyCount
  <2> QED BY <1>1, <2>1 DEF SlotsAccounted
<1> QED BY <1>2, <1>3, <1>5, <1>6

LEMMA CreateConnectionStep ==
  ASSUME MySqlInv, NEW t \in Thread, CreateConnection(t)
  PROVE  MySqlInv'
<1> USE DEF MySqlInv
<1>1. PICK c \in Closed :
        /\ step[t] = "create" /\ step' = [step EXCEPT ![t] = "using"]
        /\ conn' = [conn EXCEPT ![t] = c]
        /\ UNCHANGED <<pool, live, dead, abandoned>>
  BY DEF CreateConnection
<1>2. c \in Connection /\ c # NoConnection
  BY PoolAssumption DEF Closed, Connection, NoConnection
<1>3. c \notin In(pool) /\ \A u \in Thread : conn[u] # c
  BY <1>2 DEF Closed, InPool, Held, In
<1>4. MySqlType'
  BY <1>1, <1>2 DEF MySqlType
<1>5. ConnLinked'
  BY <1>1, <1>2 DEF MySqlType, ConnLinked
<1>6. MySqlOnce'
  BY <1>1, <1>3 DEF MySqlType, MySqlOnce
<1>7. SlotsAccounted'
  <2>1. /\ step[t] # "idle" /\ step'[t] # "idle"
        /\ \A u \in Thread : u # t => step'[u] = step[u]
    BY <1>1 DEF MySqlType
  <2>2. Cardinality(Busy') = Cardinality(Busy)
    BY <2>1, BusyCount
  <2> QED BY <1>1, <2>2 DEF SlotsAccounted
<1> QED BY <1>4, <1>5, <1>6, <1>7

LEMMA CreateFailsStep ==
  ASSUME MySqlInv, NEW t \in Thread, CreateFails(t)
  PROVE  MySqlInv'
<1> USE DEF MySqlInv
<1>1. /\ step[t] = "create" /\ step' = [step EXCEPT ![t] = "idle"]
      /\ live' = SlotFreed
      /\ UNCHANGED <<pool, conn, dead, abandoned>>
  BY DEF CreateFails
<1>2. MySqlType'
  BY <1>1, PoolAssumption DEF MySqlType, SlotFreed
<1>3. ConnLinked' /\ MySqlOnce'
  BY <1>1 DEF MySqlType, ConnLinked, MySqlOnce
<1>4. SlotsAccounted'
  <2>1. /\ step[t] # "idle" /\ step'[t] = "idle"
        /\ \A u \in Thread : u # t => step'[u] = step[u]
    BY <1>1 DEF MySqlType
  <2>2. /\ Cardinality(Busy') = Cardinality(Busy) - 1 /\ Cardinality(Busy) > 0
        /\ Cardinality(Busy) \in Nat
    BY <2>1, BusyCount
  <2>3. Len(pool) \in Nat /\ live \in Nat /\ abandoned \in Nat
    BY LenProperties DEF MySqlType
  <2>4. live > 0
    BY <2>2, <2>3 DEF SlotsAccounted
  <2> QED BY <1>1, <2>2, <2>3, <2>4 DEF SlotsAccounted, SlotFreed
<1> QED BY <1>2, <1>3, <1>4

LEMMA ReleaseConnectionStep ==
  ASSUME MySqlInv, NEW t \in Thread, ReleaseConnection(t)
  PROVE  MySqlInv'
<1> USE DEF MySqlInv
<1>1. /\ step[t] = "using" /\ step' = [step EXCEPT ![t] = "idle"]
      /\ pool' = Append(pool, conn[t])
      /\ conn' = [conn EXCEPT ![t] = NoConnection]
      /\ UNCHANGED <<live, dead, abandoned>>
  BY DEF ReleaseConnection
<1>2. conn[t] \in Connection /\ conn[t] # NoConnection /\ conn[t] \notin In(pool)
  BY <1>1 DEF MySqlType, ConnLinked, MySqlOnce
<1>3. /\ pool' \in Seq(Connection) /\ Len(pool') = Len(pool) + 1
      /\ NoDup(pool') /\ In(pool') = In(pool) \cup {conn[t]}
  BY <1>1, <1>2, Pushed DEF MySqlType, MySqlOnce
<1>4. MySqlType'
  BY <1>1, <1>3 DEF MySqlType
<1>5. ConnLinked'
  BY <1>1 DEF MySqlType, ConnLinked
<1>6. NoConnection \notin In(pool)
  BY NoConnectionNotIn
<1>7. MySqlOnce'
  <2>1. \A u \in Thread : conn'[u] = IF u = t THEN NoConnection ELSE conn[u]
    BY <1>1 DEF MySqlType
  <2>2. \A u \in Thread : u # t => conn[u] # conn[t]
    BY <1>2 DEF MySqlOnce
  <2> QED BY <1>2, <1>3, <1>6, <2>1, <2>2 DEF MySqlOnce
<1>8. SlotsAccounted'
  <2>1. /\ step[t] # "idle" /\ step'[t] = "idle"
        /\ \A u \in Thread : u # t => step'[u] = step[u]
    BY <1>1 DEF MySqlType
  <2>2. Cardinality(Busy') = Cardinality(Busy) - 1 /\ Cardinality(Busy) \in Nat
    BY <2>1, BusyCount
  <2>3. Len(pool) \in Nat /\ live \in Nat /\ abandoned \in Nat
    BY LenProperties DEF MySqlType
  <2> QED BY <1>1, <1>3, <2>2, <2>3 DEF SlotsAccounted
<1> QED BY <1>4, <1>5, <1>7, <1>8

LEMMA CloseConnectionStep ==
  ASSUME MySqlInv, NEW t \in Thread, CloseConnection(t)
  PROVE  MySqlInv'
<1> USE DEF MySqlInv
<1>1. /\ step[t] = "using" /\ step' = [step EXCEPT ![t] = "idle"]
      /\ conn' = [conn EXCEPT ![t] = NoConnection]
      /\ dead' \in SUBSET dead /\ abandoned' = abandoned + 1
      /\ UNCHANGED <<pool, live>>
  BY DEF CloseConnection
<1>2. MySqlType'
  BY <1>1 DEF MySqlType
<1>3. ConnLinked'
  BY <1>1 DEF MySqlType, ConnLinked
<1>4. NoConnection \notin In(pool)
  BY NoConnectionNotIn
<1>5. MySqlOnce'
  BY <1>1, <1>4 DEF MySqlType, MySqlOnce
<1>6. SlotsAccounted'
  <2>1. /\ step[t] # "idle" /\ step'[t] = "idle"
        /\ \A u \in Thread : u # t => step'[u] = step[u]
    BY <1>1 DEF MySqlType
  <2>2. Cardinality(Busy') = Cardinality(Busy) - 1 /\ Cardinality(Busy) \in Nat
    BY <2>1, BusyCount
  <2>3. Len(pool) \in Nat /\ live \in Nat /\ abandoned \in Nat
    BY LenProperties DEF MySqlType
  <2> QED BY <1>1, <2>2, <2>3 DEF SlotsAccounted
<1> QED BY <1>2, <1>3, <1>5, <1>6

\* ConnectionDies, and every step of the Redis pool, leave the rest as it is.
LEMMA MySqlFrame ==
  ASSUME MySqlInv, UNCHANGED <<pool, live, step, conn, abandoned>>,
         dead' \in SUBSET Connection
  PROVE  MySqlInv'
<1>1. Busy' = Busy
  BY DEF Busy
<1> QED BY <1>1 DEF MySqlInv, MySqlType, ConnLinked, MySqlOnce, SlotsAccounted
-------------------------------------------------------------------------------
\* A thread that becomes awake, stops to be, or stays what it is.
LEMMA AwakeCount ==
  ASSUME NEW t \in Thread, \A u \in Thread : u # t => redis'[u] = redis[u]
  PROVE  /\ Cardinality(Awake) \in Nat /\ Cardinality(Awake') \in Nat
         /\ t \notin Awake /\ t \in Awake' =>
              Cardinality(Awake') = Cardinality(Awake) + 1
         /\ t \in Awake /\ t \notin Awake' =>
              Cardinality(Awake') = Cardinality(Awake) - 1
         /\ (t \in Awake <=> t \in Awake') => Cardinality(Awake') = Cardinality(Awake)
<1>1. IsFiniteSet(Awake) /\ IsFiniteSet(Awake')
  BY PoolAssumption, FS_Subset DEF Awake
<1>2. Awake' = IF t \in Awake' THEN Awake \cup {t} ELSE Awake \ {t}
  BY DEF Awake
<1>3. /\ Cardinality(Awake \cup {t}) = IF t \in Awake THEN Cardinality(Awake)
                                       ELSE Cardinality(Awake) + 1
      /\ Cardinality(Awake \ {t}) = IF t \in Awake THEN Cardinality(Awake) - 1
                                    ELSE Cardinality(Awake)
  BY <1>1, FS_AddElement, FS_RemoveElement
<1>4. Cardinality(Awake) \in Nat /\ Cardinality(Awake') \in Nat
  BY <1>1, FS_CardinalityType
<1> QED BY <1>2, <1>3, <1>4

\* The actions on the Redis pool keep its part of the invariant.
LEMMA AcquireStep ==
  ASSUME RedisInv, NEW t \in Thread, Acquire(t)
  PROVE  RedisInv'
<1> USE DEF RedisInv
<1>1. redis[t] \in {"none", "woken"}
  BY DEF Acquire
<1>2. CASE available # <<>> /\ TakeClient(t)
  <2>1. /\ client' = [client EXCEPT ![t] = Head(available)]
        /\ available' = Tail(available)
        /\ redis' = [redis EXCEPT ![t] = "check"]
    BY <1>2 DEF TakeClient
  <2>2. /\ Head(available) \in Client /\ Head(available) \in In(available)
        /\ available' \in Seq(Client)
        /\ Len(available') = Len(available) - 1
        /\ NoDup(available')
        /\ In(available') = In(available) \ {Head(available)}
    BY <1>2, <2>1, Popped DEF RedisType, RedisOnce
  <2>3. Head(available) # NoClient
    BY <2>2, PoolAssumption
  <2>4. RedisType'
    BY <2>1, <2>2 DEF RedisType
  <2>5. ClientLinked'
    BY <2>1, <2>3 DEF RedisType, ClientLinked
  <2>6. RedisOnce'
    <3>1. \A u \in Thread : client'[u] = IF u = t THEN Head(available) ELSE client[u]
      BY <2>1 DEF RedisType
    <3>2. client[t] = NoClient
      BY <1>1 DEF ClientLinked
    <3>3. \A c \in Client : c \in In(available') \/ \E u \in Thread : client'[u] = c
      <4> SUFFICES ASSUME NEW c \in Client, c \notin In(available'), c # Head(available)
                   PROVE  \E u \in Thread : client'[u] = c
        BY <3>1
      <4>1. PICK u \in Thread : client[u] = c
        BY <2>2 DEF RedisOnce
      <4> QED BY <3>1, <3>2, <4>1, PoolAssumption
    <3>4. \A u \in Thread : u # t => client[u] # Head(available)
      BY <2>2 DEF RedisOnce
    <3> QED BY <2>2, <3>1, <3>3, <3>4 DEF RedisOnce
  <2>7. NobodyWaitsBesideIdle'
    <3>1. /\ \A u \in Thread : u # t => redis'[u] = redis[u]
          /\ redis'[t] = "check"
      BY <2>1 DEF RedisType
    <3>2. Waiting' = Waiting /\ t \notin Awake'
      BY <1>1, <3>1 DEF Waiting, Awake
    <3>3. t \in Awake <=> redis[t] = "woken"
      BY <1>1 DEF Awake
    <3>4. /\ Cardinality(Awake) \in Nat /\ Cardinality(Awake') \in Nat
          /\ Cardinality(Awake') >= Cardinality(Awake) - 1
      BY <3>1, <3>2, AwakeCount
    <3>5. Len(available) \in Nat
      BY LenProperties DEF RedisType
    <3> QED BY <2>2, <3>2, <3>4, <3>5 DEF NobodyWaitsBesideIdle
  <2> QED BY <2>4, <2>5, <2>6, <2>7
<1>3. CASE /\ available = <<>>
           /\ redis' = [redis EXCEPT ![t] = "waiting"]
           /\ UNCHANGED <<available, client>>
  <2>1. RedisType' /\ ClientLinked' /\ RedisOnce'
    BY <1>1, <1>3 DEF RedisType, ClientLinked, RedisOnce
  <2>2. NobodyWaitsBesideIdle'
    <3>1. IsFiniteSet(Awake')
      BY PoolAssumption, FS_Subset DEF Awake
    <3>2. Cardinality(Awake') \in Nat /\ Len(available') = 0
      BY <1>3, <3>1, FS_CardinalityType, EmptySeq
    <3> QED BY <3>2 DEF NobodyWaitsBesideIdle
  <2> QED BY <2>1, <2>2
<1> QED BY <1>2, <1>3 DEF Acquire

LEMMA SpuriousWakeupStep ==
  ASSUME RedisInv, NEW t \in Thread, SpuriousAcquire(t)
  PROVE  RedisInv'
<1> USE DEF RedisInv
<1>1. /\ redis[t] = "waiting" /\ redis' = [redis EXCEPT ![t] = "woken"]
      /\ UNCHANGED <<available, client>>
  BY DEF SpuriousAcquire
<1>2. RedisType' /\ ClientLinked' /\ RedisOnce'
  BY <1>1 DEF RedisType, ClientLinked, RedisOnce
<1>3. NobodyWaitsBesideIdle'
  <2>1. /\ \A u \in Thread : u # t => redis'[u] = redis[u]
        /\ redis'[t] = "woken"
    BY <1>1 DEF RedisType
  <2>2. t \in Waiting /\ t \notin Awake /\ t \in Awake'
    BY <1>1, <2>1 DEF Waiting, Awake
  <2>3. Cardinality(Awake') = Cardinality(Awake) + 1 /\ Cardinality(Awake) \in Nat
    BY <2>1, <2>2, AwakeCount
  <2>4. Len(available) \in Nat /\ Len(available) <= Cardinality(Awake)
    BY <2>2, LenProperties DEF RedisType, NobodyWaitsBesideIdle
  <2> QED BY <1>1, <2>3, <2>4 DEF NobodyWaitsBesideIdle
<1> QED BY <1>2, <1>3

LEMMA EnsureConnectedStep ==
  ASSUME RedisInv, NEW t \in Thread, EnsureConnected(t)
  PROVE  RedisInv'
<1> USE DEF RedisInv
<1>1. /\ redis[t] = "check" /\ redis' = [redis EXCEPT ![t] = "holding"]
      /\ UNCHANGED <<available, client>>
  BY DEF EnsureConnected
<1>2. RedisType' /\ ClientLinked' /\ RedisOnce'
  BY <1>1 DEF RedisType, ClientLinked, RedisOnce
<1>3. Waiting' = Waiting /\ Awake' = Awake
  BY <1>1 DEF RedisType, Waiting, Awake
<1> QED BY <1>1, <1>2, <1>3 DEF NobodyWaitsBesideIdle

LEMMA ReleaseStep ==
  ASSUME RedisInv, NEW t \in Thread, Release(t)
  PROVE  RedisInv'
<1> USE DEF RedisInv
<1>1. /\ redis[t] \in {"check", "holding"}
      /\ available' = Append(available, client[t])
      /\ client' = [client EXCEPT ![t] = NoClient]
      /\ redis' = [redis EXCEPT ![t] = "notify"]
  BY DEF Release
<1>2. client[t] \in Client /\ client[t] \notin In(available)
  BY <1>1 DEF RedisType, ClientLinked, RedisOnce
<1>3. /\ available' \in Seq(Client) /\ Len(available') = Len(available) + 1
      /\ NoDup(available') /\ In(available') = In(available) \cup {client[t]}
  BY <1>1, <1>2, Pushed DEF RedisType, RedisOnce
<1>4. RedisType'
  BY <1>1, <1>3 DEF RedisType
<1>5. ClientLinked'
  BY <1>1 DEF RedisType, ClientLinked
<1>6. NoClient \notin In(available)
  <2>1. \A i \in DOMAIN available : available[i] \in Client
    BY ElementOfSeq, LenProperties DEF RedisType
  <2> QED BY <2>1, PoolAssumption DEF In
<1>7. RedisOnce'
  <2>1. \A u \in Thread : client'[u] = IF u = t THEN NoClient ELSE client[u]
    BY <1>1 DEF RedisType
  <2>2. \A u \in Thread : u # t => client[u] # client[t]
    BY <1>2, PoolAssumption DEF RedisOnce
  <2>3. NoClient \notin In(available')
    BY <1>2, <1>3, <1>6, PoolAssumption
  <2>4. \A u, v \in Thread : client'[u] = client'[v] /\ u # v => client'[u] = NoClient
    BY <2>1 DEF RedisOnce
  <2>5. \A u \in Thread : client'[u] \notin In(available')
    BY <1>3, <2>1, <2>2, <2>3 DEF RedisOnce
  <2>6. \A c \in Client : c \in In(available') \/ \E u \in Thread : client'[u] = c
    BY <1>3, <2>1 DEF RedisOnce
  <2> QED BY <1>3, <2>4, <2>5, <2>6 DEF RedisOnce
<1>8. NobodyWaitsBesideIdle'
  <2>1. /\ \A u \in Thread : u # t => redis'[u] = redis[u]
        /\ redis'[t] = "notify"
    BY <1>1 DEF RedisType
  <2>2. Waiting' = Waiting /\ t \notin Awake /\ t \in Awake'
    BY <1>1, <2>1 DEF Waiting, Awake
  <2>3. Cardinality(Awake') = Cardinality(Awake) + 1 /\ Cardinality(Awake) \in Nat
    BY <2>1, <2>2, AwakeCount
  <2>4. Len(available) \in Nat
    BY LenProperties DEF RedisType
  <2> QED BY <1>3, <2>2, <2>3, <2>4 DEF NobodyWaitsBesideIdle
<1> QED BY <1>4, <1>5, <1>7, <1>8

LEMMA NotifyOneStep ==
  ASSUME RedisInv, NEW t \in Thread, NotifyWaiter(t)
  PROVE  RedisInv'
<1> USE DEF RedisInv
<1>1. redis[t] = "notify" /\ Wake(t) /\ UNCHANGED <<available, client>>
  BY DEF NotifyWaiter
<1>2. CASE Waiting = {} /\ redis' = [redis EXCEPT ![t] = "none"]
  <2>1. RedisType' /\ ClientLinked' /\ RedisOnce'
    BY <1>1, <1>2 DEF RedisType, ClientLinked, RedisOnce
  <2>2. Waiting' = {}
    BY <1>2 DEF RedisType, Waiting
  <2> QED BY <2>1, <2>2 DEF NobodyWaitsBesideIdle
<1>3. ASSUME NEW w \in Waiting, redis' = [redis EXCEPT ![t] = "none", ![w] = "woken"]
      PROVE  RedisInv'
  <2>1. w \in Thread /\ redis[w] = "waiting" /\ w # t
    BY <1>1 DEF Waiting
  <2>2. \A u \in Thread : redis'[u] = IF u = w THEN "woken"
                                      ELSE IF u = t THEN "none" ELSE redis[u]
    BY <1>3, <2>1 DEF RedisType
  <2>3. RedisType'
    BY <1>1, <1>3, <2>1 DEF RedisType
  <2>4. ClientLinked' /\ RedisOnce'
    BY <1>1, <2>1, <2>2 DEF ClientLinked, RedisOnce
  <2>5. Cardinality(Awake') = Cardinality(Awake)
    <3>1. Awake' = (Awake \ {t}) \cup {w} /\ t \in Awake /\ w \notin Awake
      BY <1>1, <2>1, <2>2 DEF Awake
    <3>2. IsFiniteSet(Awake)
      BY PoolAssumption, FS_Subset DEF Awake
    <3>3. /\ IsFiniteSet(Awake \ {t}) /\ Cardinality(Awake) \in Nat
          /\ Cardinality(Awake \ {t}) = Cardinality(Awake) - 1
      BY <3>1, <3>2, FS_RemoveElement, FS_CardinalityType
    <3>4. Cardinality((Awake \ {t}) \cup {w}) = Cardinality(Awake \ {t}) + 1
      BY <3>1, <3>3, FS_AddElement
    <3> QED BY <3>1, <3>3, <3>4
  <2>6. Waiting # {}
    BY <1>3
  <2>7. NobodyWaitsBesideIdle'
    BY <1>1, <2>5, <2>6 DEF NobodyWaitsBesideIdle
  <2> QED BY <2>3, <2>4, <2>7
<1> QED BY <1>1, <1>2, <1>3 DEF Wake

\* No step of the MySQL pool touches the Redis pool.
LEMMA RedisFrame ==
  ASSUME RedisInv, UNCHANGED redisVars
  PROVE  RedisInv'
<1>1. Waiting' = Waiting /\ Awake' = Awake
  BY DEF redisVars, Waiting, Awake
<1> QED BY <1>1 DEF redisVars, RedisInv, RedisType, ClientLinked, RedisOnce, NobodyWaitsBesideIdle
-------------------------------------------------------------------------------
\* The first state of each pool: everything is idle.
LEMMA MySqlInit == PoolsInit => MySqlInv
<1> SUFFICES ASSUME PoolsInit PROVE MySqlInv
  OBVIOUS
<1>1. live \in Nat /\ live <= TargetPoolSize /\ pool = [i \in 1 .. live |-> i]
  BY PoolAssumption DEF PoolsInit
<1>2. /\ pool \in Seq(Connection) /\ Len(pool) = live
      /\ \A i \in DOMAIN pool : pool[i] = i /\ i # NoConnection
  BY <1>1, PoolAssumption DEF Connection, NoConnection
<1>3. MySqlType
  BY <1>1, <1>2, PoolAssumption DEF PoolsInit, MySqlType
<1>4. ConnLinked
  BY DEF PoolsInit, ConnLinked
<1>5. MySqlOnce
  BY <1>2 DEF PoolsInit, MySqlOnce, NoDup, In
<1>6. SlotsAccounted
  <2>1. Busy = {}
    BY DEF PoolsInit, Busy
  <2>2. Cardinality(Busy) = 0
    BY <2>1, FS_EmptySet
  <2> QED BY <1>1, <1>2, <2>2 DEF PoolsInit, SlotsAccounted
<1> QED BY <1>3, <1>4, <1>5, <1>6 DEF MySqlInv

LEMMA RedisInit == PoolsInit => RedisInv
<1> SUFFICES ASSUME PoolsInit PROVE RedisInv
  OBVIOUS
<1>1. Cardinality(Client) \in Nat
  BY PoolAssumption, FS_CardinalityType
<1>2. /\ available \in [1 .. Cardinality(Client) -> Client]
      /\ \A i, j \in DOMAIN available : available[i] = available[j] => i = j
      /\ \A c \in Client : \E i \in DOMAIN available : available[i] = c
  BY DEF PoolsInit
<1>3. available \in Seq(Client)
  BY <1>1, <1>2
<1>4. RedisType
  BY <1>3, PoolAssumption DEF PoolsInit, RedisType
<1>5. ClientLinked
  BY DEF PoolsInit, ClientLinked
<1>6. NoClient \notin In(available)
  BY <1>2, PoolAssumption DEF In
<1>7. RedisOnce
  BY <1>2, <1>6 DEF PoolsInit, RedisOnce, NoDup, In
<1>8. NobodyWaitsBesideIdle
  BY DEF PoolsInit, NobodyWaitsBesideIdle, Waiting
<1> QED BY <1>4, <1>5, <1>7, <1>8 DEF RedisInv

LEMMA InvariantInit == PoolsInit => PoolsIInv
BY MySqlInit, RedisInit DEF PoolsIInv

LEMMA InvariantNext == PoolsIInv /\ [PoolsNext]_poolsVars => PoolsIInv'
<1> SUFFICES ASSUME PoolsIInv, [PoolsNext]_poolsVars PROVE PoolsIInv'
  OBVIOUS
<1>1. MySqlInv /\ RedisInv /\ dead \in SUBSET Connection
  BY DEF PoolsIInv, MySqlInv, MySqlType
<1>2. ASSUME NEW t \in Thread, GetConnection(t) PROVE PoolsIInv'
  BY <1>1, <1>2, GetConnectionStep, RedisFrame DEF GetConnection, PoolsIInv
<1>3. ASSUME NEW t \in Thread, Ping(t) PROVE PoolsIInv'
  BY <1>1, <1>3, PingStep, RedisFrame DEF Ping, PoolsIInv
<1>4. ASSUME NEW t \in Thread, CreateConnection(t) PROVE PoolsIInv'
  BY <1>1, <1>4, CreateConnectionStep, RedisFrame DEF CreateConnection, PoolsIInv
<1>5. ASSUME NEW t \in Thread, CreateFails(t) PROVE PoolsIInv'
  BY <1>1, <1>5, CreateFailsStep, RedisFrame DEF CreateFails, PoolsIInv
<1>6. ASSUME NEW t \in Thread, ReleaseConnection(t) PROVE PoolsIInv'
  BY <1>1, <1>6, ReleaseConnectionStep, RedisFrame DEF ReleaseConnection, PoolsIInv
<1>7. ASSUME NEW t \in Thread, CloseConnection(t) PROVE PoolsIInv'
  BY <1>1, <1>7, CloseConnectionStep, RedisFrame DEF CloseConnection, PoolsIInv
<1>8. ASSUME NEW c \in Connection, ConnectionDies(c) PROVE PoolsIInv'
  BY <1>1, <1>8, MySqlFrame, RedisFrame DEF ConnectionDies, PoolsIInv
<1>9. ASSUME NEW t \in Thread, Acquire(t) PROVE PoolsIInv'
  BY <1>1, <1>9, AcquireStep, MySqlFrame DEF Acquire, mysqlVars, PoolsIInv
<1>10. ASSUME NEW t \in Thread, SpuriousAcquire(t) PROVE PoolsIInv'
  BY <1>1, <1>10, SpuriousWakeupStep, MySqlFrame DEF SpuriousAcquire, mysqlVars, PoolsIInv
<1>11. ASSUME NEW t \in Thread, EnsureConnected(t) PROVE PoolsIInv'
  BY <1>1, <1>11, EnsureConnectedStep, MySqlFrame DEF EnsureConnected, mysqlVars, PoolsIInv
<1>12. ASSUME NEW t \in Thread, Release(t) PROVE PoolsIInv'
  BY <1>1, <1>12, ReleaseStep, MySqlFrame DEF Release, mysqlVars, PoolsIInv
<1>13. ASSUME NEW t \in Thread, NotifyWaiter(t) PROVE PoolsIInv'
  BY <1>1, <1>13, NotifyOneStep, MySqlFrame DEF NotifyWaiter, mysqlVars, PoolsIInv
<1>14. CASE UNCHANGED poolsVars
  BY <1>1, <1>14, MySqlFrame, RedisFrame DEF poolsVars, redisVars, PoolsIInv
<1> QED
  BY <1>2, <1>3, <1>4, <1>5, <1>6, <1>7, <1>8, <1>9, <1>10, <1>11, <1>12, <1>13, <1>14
     DEF PoolsNext
-------------------------------------------------------------------------------
(***************************************************************************)
(* The inductive invariant holds in every reachable state.                   *)
(***************************************************************************)
THEOREM PoolsInvariant == PoolsSpec => []PoolsIInv
BY InvariantInit, InvariantNext, PTL DEF PoolsSpec

(***************************************************************************)
(* Types, among them the limit: m_liveConnectionCount never exceeds          *)
(* m_targetPoolSize.                                                         *)
(***************************************************************************)
THEOREM PoolsTypeCorrect == PoolsSpec => []PoolsTypeOK
BY PoolsInvariant, Together, PTL

(***************************************************************************)
(* No two threads ever share a MySQL connection or a Redis client, and no    *)
(* Redis client is lost.                                                     *)
(***************************************************************************)
THEOREM UseIsExclusive == PoolsSpec => []ExclusiveUse
BY PoolsInvariant, Together, PTL

(***************************************************************************)
(* m_liveConnectionCount is the number of connections that exist or are      *)
(* being made, and of those TradeService closed.                             *)
(***************************************************************************)
THEOREM CountIsExact == PoolsSpec => []SlotsAccounted
BY PoolsInvariant, Together, PTL

(***************************************************************************)
(* No wake-up of the Redis pool is lost.                                     *)
(***************************************************************************)
THEOREM WaitersAreWoken == PoolsSpec => []NobodyWaitsBesideIdle
BY PoolsInvariant, Together, PTL

-------------------------------------------------------------------------------
(***************************************************************************)
(* SendQueue, for any packets, sizes and socket buffer: types, that nothing *)
(* is queued without EPOLLOUT being watched or about to be, and that the    *)
(* bytes are written in the order of PacketStream.                          *)
(***************************************************************************)
\* The queue is empty, or its first packet is written up to sendOffset.
OffsetType ==
  /\ sendQueue # <<>> => sendOffset < Length[Head(sendQueue)]
  /\ sendQueue = <<>> => sendOffset = 0

\* Packets written completely: what was accepted before what is queued.
Written == Len(accepted) - Len(sendQueue)

\* sendQueue is the part of accepted that is not written.
QueueIsRest ==
  /\ Len(sendQueue) <= Len(accepted)
  /\ \A i \in 1 .. Len(sendQueue) : sendQueue[i] = accepted[Written + i]

\* The last byte on the wire is the one before sendOffset of the first packet
\* in the queue, or the last one of the packet before it.
LastByte ==
  IF sendOffset > 0 THEN <<accepted[Written + 1], sendOffset>>
  ELSE <<accepted[Written], Length[accepted[Written]]>>

WireEnd ==
  /\ wire = <<>> => Written = 0 /\ sendOffset = 0
  /\ wire # <<>> => /\ Written > 0 \/ sendOffset > 0
                    /\ wire[Len(wire)] = LastByte

\* The thread that sent an accepted packet does not send it again.
AcceptedBySender ==
  \A k \in 1 .. Len(accepted) : sender[accepted[k]] \in {"enable", "done"}

\* The main thread is in OnSend of an open session only.
OpenInOnSend == main # "loop" => ~closing

StreamInv ==
  /\ QueueIsRest /\ WireEnd /\ AcceptedBySender /\ OpenInOnSend
  /\ Stream!InOrder(wire, accepted)
-------------------------------------------------------------------------------
\* Appending to a queue leaves its head, unless it was empty.
LEMMA PushKeepsHead ==
  ASSUME NEW S, NEW q \in Seq(S), NEW x \in S
  PROVE  /\ Append(q, x) \in Seq(S) /\ Append(q, x) # <<>>
         /\ q = <<>> => Head(Append(q, x)) = x
         /\ q # <<>> => Head(Append(q, x)) = Head(q)
<1>1. /\ Append(q, x) \in Seq(S) /\ Len(Append(q, x)) = Len(q) + 1
      /\ \A i \in 1 .. Len(q) : Append(q, x)[i] = q[i]
      /\ Append(q, x)[Len(q) + 1] = x
  BY AppendProperties
<1>2. Len(q) \in Nat /\ (q = <<>> <=> Len(q) = 0)
  BY LenProperties, EmptySeq
<1>3. Append(q, x) # <<>>
  BY <1>1, <1>2, EmptySeq
<1>4. Head(Append(q, x)) = Append(q, x)[1]
  BY <1>1, <1>3
<1>5. q # <<>> => Head(q) = q[1]
  OBVIOUS
<1> QED BY <1>1, <1>2, <1>3, <1>4, <1>5

\* Type correctness.
LEMMA SendTypeInit == SendInit => SendTypeOK
<1> SUFFICES ASSUME SendInit PROVE SendTypeOK
  OBVIOUS
<1> USE DEF SendInit
<1>1. sendQueue \in Seq(Packet) /\ accepted \in Seq(Packet) /\ wire \in Seq(Packet \X Nat)
  BY EmptySeq
<1>2. sender \in [Packet -> {"start", "push", "enable", "done"}]
  OBVIOUS
<1>3. buffered \in 0 .. Capacity /\ sendOffset \in Nat
  BY SendAssumption
<1>4. /\ sendQueue # <<>> => sendOffset < Length[Head(sendQueue)]
      /\ sendQueue = <<>> => sendOffset = 0
  OBVIOUS
<1>5. /\ sendMutex \in BOOLEAN /\ closing \in BOOLEAN /\ writeEvent \in BOOLEAN
      /\ main \in {"loop", "flush", "check", "disable", "recheck", "enable"}
  OBVIOUS
<1> HIDE DEF SendInit
<1> QED BY <1>1, <1>2, <1>3, <1>4, <1>5 DEF SendTypeOK

LEMMA TypeNext == SendTypeOK /\ [SendNext]_sendVars => SendTypeOK'
<1> SUFFICES ASSUME SendTypeOK, [SendNext]_sendVars PROVE SendTypeOK'
  OBVIOUS
<1> USE DEF SendTypeOK
<1>1. ASSUME NEW p \in Packet, CheckClosing(p) PROVE SendTypeOK'
  BY <1>1 DEF CheckClosing
<1>2. ASSUME NEW p \in Packet, PushPacket(p) PROVE SendTypeOK'
  <2>1. /\ sendQueue' = Append(sendQueue, p) /\ accepted' = Append(accepted, p)
        /\ UNCHANGED <<sendOffset, sendMutex, closing, writeEvent, main, buffered, wire>>
        /\ sender' \in [Packet -> {"start", "push", "enable", "done"}]
    BY <1>2 DEF PushPacket
  <2>2. /\ sendQueue' \in Seq(Packet) /\ accepted' \in Seq(Packet)
        /\ sendQueue' # <<>>
        /\ sendQueue = <<>> => Head(sendQueue') = p
        /\ sendQueue # <<>> => Head(sendQueue') = Head(sendQueue)
    BY <2>1, PushKeepsHead
  <2>3. Length[p] \in Nat \ {0}
    BY SendAssumption
  <2> QED BY <2>1, <2>2, <2>3
<1>3. ASSUME NEW p \in Packet, EnableWriteEvent(p) PROVE SendTypeOK'
  BY <1>3 DEF EnableWriteEvent
<1>4. ASSUME OnSend PROVE SendTypeOK'
  BY <1>4 DEF OnSend
<1>5. ASSUME SendBytes PROVE SendTypeOK'
  <2> DEFINE p == Head(sendQueue)
  <2>1. sendQueue # <<>> /\ p \in Packet /\ sendOffset < Length[p]
    BY <1>5 DEF SendBytes
  <2>2. Length[p] \in Nat \ {0} /\ Capacity \in Nat
    BY <2>1, SendAssumption
  <2>3. PICK n \in 1 .. (Length[p] - sendOffset) :
          /\ buffered + n <= Capacity /\ buffered' = buffered + n
          /\ wire' = wire \o [i \in 1 .. n |-> <<p, sendOffset + i>>]
          /\ sendQueue' = IF sendOffset + n = Length[p] THEN Tail(sendQueue) ELSE sendQueue
          /\ sendOffset' = IF sendOffset + n = Length[p] THEN 0 ELSE sendOffset + n
    BY <1>5 DEF SendBytes, AdvanceOffset
  <2>4. UNCHANGED <<sendMutex, closing, writeEvent, sender, main, accepted>>
    BY <1>5 DEF SendBytes
  <2>5. wire' \in Seq(Packet \X Nat)
    <3>1. [i \in 1 .. n |-> <<p, sendOffset + i>>] \in Seq(Packet \X Nat)
      BY <2>1, <2>2
    <3> QED BY <2>3, <3>1, ConcatProperties
  <2>6. buffered' \in 0 .. Capacity
    BY <2>2, <2>3
  <2>7. /\ sendQueue' \in Seq(Packet) /\ sendOffset' \in Nat
        /\ sendQueue' # <<>> => sendOffset' < Length[Head(sendQueue')]
        /\ sendQueue' = <<>> => sendOffset' = 0
    <3>1. CASE sendOffset + n = Length[p]
      <4>1. Tail(sendQueue) \in Seq(Packet)
        BY <2>1
      <4>2. Tail(sendQueue) # <<>> => Head(Tail(sendQueue)) \in Packet
        BY <4>1
      <4> QED BY <2>3, <3>1, <4>1, <4>2, SendAssumption
    <3>2. CASE sendOffset + n # Length[p]
      <4>1. sendQueue' = sendQueue /\ sendOffset' = sendOffset + n
        BY <2>3, <3>2
      <4>2. sendOffset \in Nat /\ Length[p] \in Nat
        BY <2>2
      <4>3. n \in Nat /\ n <= Length[p] - sendOffset
        BY <2>1, <4>2
      <4>4. sendOffset' \in Nat /\ sendOffset' < Length[p]
        BY ONLY <3>2, <4>1, <4>2, <4>3
      <4> QED BY <2>1, <4>1, <4>4
    <3> QED BY <3>1, <3>2
  <2> QED BY <2>4, <2>5, <2>6, <2>7
<1>6. ASSUME FlushDone \/ FlushFails \/ CheckPending \/ RecheckPending PROVE SendTypeOK'
  BY <1>6 DEF FlushDone, FlushFails, CheckPending, RecheckPending
<1>7. ASSUME DisableWriteEvent \/ EnableAgain \/ MarkClosing PROVE SendTypeOK'
  BY <1>7 DEF DisableWriteEvent, EnableAgain, MarkClosing
<1>8. ASSUME ClientReads PROVE SendTypeOK'
  BY <1>8, SendAssumption DEF ClientReads
<1>9. CASE UNCHANGED sendVars
  BY <1>9 DEF sendVars
<1> QED BY <1>1, <1>2, <1>3, <1>4, <1>5, <1>6, <1>7, <1>8, <1>9 DEF SendNext
-------------------------------------------------------------------------------
\* The race of EPOLLOUT being turned off with threads that enqueue.
LEMMA StrandedInit == SendInit => NeverStranded
BY DEF SendInit, NeverStranded

LEMMA StrandedNext == SendTypeOK /\ NeverStranded /\ [SendNext]_sendVars => NeverStranded'
<1> SUFFICES ASSUME SendTypeOK, NeverStranded, [SendNext]_sendVars, ~closing', sendQueue' # <<>>
             PROVE  \/ writeEvent'
                    \/ main' \in {"recheck", "enable"}
                    \/ \E p \in Packet : sender'[p] = "enable"
  BY DEF NeverStranded
<1> USE DEF NeverStranded
<1>1. sender \in [Packet -> {"start", "push", "enable", "done"}]
  BY DEF SendTypeOK
<1>2. ASSUME NEW p \in Packet, CheckClosing(p) PROVE NeverStranded'
  <2>1. UNCHANGED <<sendQueue, closing, writeEvent, main>> /\ sender[p] # "enable"
        /\ \A r \in Packet : r # p => sender'[r] = sender[r]
    BY <1>1, <1>2 DEF CheckClosing
  <2> QED BY <2>1
<1>3. ASSUME NEW p \in Packet, PushPacket(p) PROVE NeverStranded'
  <2>1. /\ UNCHANGED <<closing, writeEvent, main>> /\ sender[p] # "enable"
        /\ \A r \in Packet : r # p => sender'[r] = sender[r]
        /\ sendQueue = <<>> => sender'[p] = "enable"
    BY <1>1, <1>3 DEF PushPacket, NeedsEnable
  <2> QED BY <2>1
<1>4. ASSUME NEW p \in Packet, EnableWriteEvent(p) PROVE NeverStranded'
  BY <1>4 DEF EnableWriteEvent
<1>5. ASSUME OnSend \/ FlushDone \/ FlushFails \/ MarkClosing \/ ClientReads
      PROVE  NeverStranded'
  BY <1>5 DEF OnSend, FlushDone, FlushFails, MarkClosing, ClientReads
<1>6. ASSUME SendBytes PROVE NeverStranded'
  BY <1>6 DEF SendBytes
<1>7. ASSUME CheckPending \/ DisableWriteEvent \/ RecheckPending \/ EnableAgain
      PROVE  NeverStranded'
  BY <1>7 DEF CheckPending, DisableWriteEvent, RecheckPending, EnableAgain, NothingPending
<1>8. CASE UNCHANGED sendVars
  BY <1>8 DEF sendVars
<1> QED BY <1>2, <1>3, <1>4, <1>5, <1>6, <1>7, <1>8 DEF SendNext
-------------------------------------------------------------------------------
\* The order of the bytes does not change when more packets are accepted.
LEMMA InOrderAppend ==
  ASSUME NEW a \in Seq(Packet), NEW p \in Packet, NEW w, Stream!InOrder(w, a)
  PROVE  Stream!InOrder(w, Append(a, p))
<1>1. /\ Len(Append(a, p)) = Len(a) + 1 /\ Len(a) \in Nat
      /\ \A i \in 1 .. Len(a) : Append(a, p)[i] = a[i]
      /\ Append(a, p) # <<>>
  BY AppendProperties, LenProperties, PushKeepsHead
<1>2. w # <<>> => w[1] = <<Append(a, p)[1], 1>>
  <2>1. a # <<>> => 1 \in 1 .. Len(a)
    BY <1>1, EmptySeq
  <2> QED BY <1>1, <2>1 DEF Stream!InOrder
<1>3. ASSUME NEW b, NEW c, Stream!Follows(a, b, c)
      PROVE  Stream!Follows(Append(a, p), b, c)
  <2>1. PICK k \in 1 .. Len(a) :
          /\ b[1] = a[k]
          /\ b[2] < Length[a[k]] \/ k < Len(a)
          /\ c = Stream!NextByte(a, k, b[2])
    BY <1>3 DEF Stream!Follows
  <2>2. k \in 1 .. Len(Append(a, p)) /\ Append(a, p)[k] = a[k]
    BY <1>1
  <2>3. k < Len(a) => k + 1 \in 1 .. Len(a)
    BY <1>1
  <2>4. c = Stream!NextByte(Append(a, p), k, b[2])
    BY <1>1, <2>1, <2>2, <2>3 DEF Stream!NextByte
  <2>5. k < Len(a) => k < Len(Append(a, p))
    BY <1>1
  <2> QED BY <2>1, <2>2, <2>4, <2>5 DEF Stream!Follows
<1> QED BY <1>1, <1>2, <1>3 DEF Stream!InOrder

\* Writing a piece of one packet continues the order.
LEMMA InOrderPiece ==
  ASSUME NEW a \in Seq(Packet), NEW w \in Seq(Packet \X Nat), Stream!InOrder(w, a),
         NEW k \in 1 .. Len(a), NEW off \in Nat, NEW n \in Nat \ {0},
         off + n <= Length[a[k]],
         w = <<>> => k = 1 /\ off = 0,
         w # <<>> => Stream!Follows(a, w[Len(w)], <<a[k], off + 1>>)
  PROVE  Stream!InOrder(w \o [i \in 1 .. n |-> <<a[k], off + i>>], a)
<1> DEFINE piece == [i \in 1 .. n |-> <<a[k], off + i>>]
           all == w \o piece
<1>1. a[k] \in Packet /\ Length[a[k]] \in Nat
  BY ElementOfSeq, SendAssumption
<1>2. piece \in Seq(Packet \X Nat) /\ Len(piece) = n /\ Len(w) \in Nat
  BY <1>1, LenProperties
<1>3. /\ Len(all) = Len(w) + n
      /\ \A i \in 1 .. (Len(w) + n) : all[i] = IF i <= Len(w) THEN w[i] ELSE piece[i - Len(w)]
      /\ all \in Seq(Packet \X Nat)
  BY <1>2, ConcatProperties
<1>4. w = <<>> <=> Len(w) = 0
  BY <1>2, EmptySeq
<1>5. \A i \in 1 .. n : piece[i] = <<a[k], off + i>>
  OBVIOUS
<1> HIDE DEF piece, all
<1>6. a # <<>> /\ all[1] = <<a[1], 1>>
  <2>1. a # <<>>
    BY EmptySeq
  <2>2. CASE w = <<>>
    <3>1. 1 \in 1 .. (Len(w) + n) /\ Len(w) = 0 /\ 1 - Len(w) = 1 /\ 1 \in 1 .. n
      BY <1>2, <1>4, <2>2
    <3>2. all[1] = piece[1] /\ piece[1] = <<a[k], off + 1>>
      BY <1>3, <1>5, <3>1
    <3> QED BY <2>1, <2>2, <3>2
  <2>3. CASE w # <<>>
    <3>1. 1 <= Len(w) /\ 1 \in 1 .. (Len(w) + n)
      BY <1>2, <1>4, <2>3
    <3>2. all[1] = w[1]
      BY <1>3, <3>1
    <3> QED BY <2>1, <2>3, <3>2 DEF Stream!InOrder
  <2> QED BY <2>2, <2>3
<1>7. ASSUME NEW j \in 1 .. (Len(all) - 1) PROVE Stream!Follows(a, all[j], all[j + 1])
  <2>1. /\ j \in Nat /\ 1 <= j /\ j + 1 <= Len(w) + n
        /\ Len(w) \in Nat /\ n \in Nat /\ 1 <= n
    <3>1. Len(all) = Len(w) + n /\ Len(w) \in Nat
      BY <1>2, <1>3
    <3> QED BY <3>1
  <2>2. /\ all[j] = IF j <= Len(w) THEN w[j] ELSE piece[j - Len(w)]
        /\ all[j + 1] = IF j + 1 <= Len(w) THEN w[j + 1] ELSE piece[(j + 1) - Len(w)]
    <3>1. j \in 1 .. (Len(w) + n) /\ j + 1 \in 1 .. (Len(w) + n)
      BY ONLY <2>1
    <3> QED BY <1>3, <3>1
  <2>3. CASE j < Len(w)
    <3>1. j <= Len(w) /\ j + 1 <= Len(w) /\ j \in 1 .. (Len(w) - 1)
      BY ONLY <2>1, <2>3
    <3> QED BY <2>2, <3>1 DEF Stream!InOrder
  <2>4. CASE j = Len(w)
    <3>1. j <= Len(w) /\ ~(j + 1 <= Len(w)) /\ (j + 1) - Len(w) = 1 /\ 1 \in 1 .. n
      BY ONLY <2>1, <2>4
    <3>2. all[j] = w[Len(w)] /\ all[j + 1] = <<a[k], off + 1>> /\ w # <<>>
      BY <1>4, <1>5, <2>1, <2>2, <2>4, <3>1
    <3> QED BY <3>2
  <2>5. CASE j > Len(w)
    <3>1. PICK i \in 1 .. n : i = j - Len(w) /\ i + 1 \in 1 .. n /\ (j + 1) - Len(w) = i + 1
      <4>1. j - Len(w) \in 1 .. n /\ (j - Len(w)) + 1 \in 1 .. n
        BY ONLY <2>1, <2>5
      <4>2. (j + 1) - Len(w) = (j - Len(w)) + 1
        BY ONLY <2>1
      <4> QED BY <4>1, <4>2
    <3>2. all[j] = piece[i] /\ all[j + 1] = piece[i + 1]
      <4>1. ~(j <= Len(w)) /\ ~(j + 1 <= Len(w))
        BY ONLY <2>1, <2>5
      <4> QED BY <2>2, <3>1, <4>1
    <3>3. all[j] = <<a[k], off + i>> /\ all[j + 1] = <<a[k], off + (i + 1)>>
      BY <1>5, <3>1, <3>2
    <3>4. off + i < Length[a[k]] /\ off + (i + 1) = (off + i) + 1
      <4>1. i \in Nat /\ i + 1 <= n
        BY <3>1, <2>1
      <4>2. Length[a[k]] \in Nat /\ off \in Nat /\ n \in Nat /\ off + n <= Length[a[k]]
        BY <1>1
      <4> QED BY ONLY <4>1, <4>2
    <3>5. all[j + 1] = Stream!NextByte(a, k, off + i)
      BY <3>3, <3>4 DEF Stream!NextByte
    <3>6. all[j][1] = a[k] /\ all[j][2] = off + i
      BY <3>3
    <3>7. k \in 1 .. Len(a) /\ all[j][2] < Length[a[k]]
      BY <3>4, <3>6
    <3> QED BY <3>5, <3>6, <3>7 DEF Stream!Follows
  <2> QED BY <2>1, <2>3, <2>4, <2>5
<1> QED BY <1>6, <1>7 DEF Stream!InOrder, all, piece
-------------------------------------------------------------------------------
\* The steps of the code keep the order.
LEMMA StreamInit == SendInit => StreamInv
<1> SUFFICES ASSUME SendInit PROVE StreamInv
  OBVIOUS
<1>1. sendQueue = <<>> /\ accepted = <<>> /\ wire = <<>> /\ sendOffset = 0 /\ main = "loop"
  BY DEF SendInit
<1>2. Len(sendQueue) = 0 /\ Len(accepted) = 0 /\ Len(wire) = 0
  BY <1>1, EmptySeq
<1> QED BY <1>1, <1>2 DEF StreamInv, QueueIsRest, WireEnd, AcceptedBySender, OpenInOnSend,
                          Written, Stream!InOrder

LEMMA StreamFrame ==
  ASSUME SendTypeOK, StreamInv, UNCHANGED <<sendQueue, sendOffset, accepted, wire>>,
         \A p \in Packet : sender[p] \in {"enable", "done"} => sender'[p] \in {"enable", "done"},
         OpenInOnSend'
  PROVE  StreamInv'
<1>1. QueueIsRest' /\ WireEnd' /\ Stream!InOrder(wire, accepted)'
  BY DEF StreamInv, QueueIsRest, WireEnd, LastByte, Written
<1>2. AcceptedBySender'
  BY ElementOfSeq DEF SendTypeOK, StreamInv, AcceptedBySender
<1> QED BY <1>1, <1>2 DEF StreamInv

LEMMA StreamPush ==
  ASSUME SendTypeOK, StreamInv, NEW p \in Packet, PushPacket(p)
  PROVE  StreamInv' /\ \A k \in 1 .. Len(accepted) : accepted[k] # p
<1>1. /\ sender[p] = "push" /\ sender'[p] \in {"enable", "done"}
      /\ \A r \in Packet : r # p => sender'[r] = sender[r]
      /\ sendQueue' = Append(sendQueue, p) /\ accepted' = Append(accepted, p)
      /\ UNCHANGED <<sendOffset, closing, main, wire>>
  BY DEF PushPacket, SendTypeOK
<1>2. \A k \in 1 .. Len(accepted) : accepted[k] \in Packet /\ accepted[k] # p
  BY <1>1, ElementOfSeq DEF SendTypeOK, StreamInv, AcceptedBySender
<1>3. /\ Len(accepted) \in Nat /\ Len(accepted') = Len(accepted) + 1
      /\ \A k \in 1 .. Len(accepted) : accepted'[k] = accepted[k]
      /\ accepted'[Len(accepted) + 1] = p
  BY <1>1, AppendProperties, LenProperties DEF SendTypeOK
<1>4. /\ Len(sendQueue) \in Nat /\ Len(sendQueue') = Len(sendQueue) + 1
      /\ \A i \in 1 .. Len(sendQueue) : sendQueue'[i] = sendQueue[i]
      /\ sendQueue'[Len(sendQueue) + 1] = p
  BY <1>1, AppendProperties, LenProperties DEF SendTypeOK
<1>5. /\ Written' = Written /\ Written \in Nat
      /\ Written + Len(sendQueue) = Len(accepted)
      /\ Len(sendQueue') <= Len(accepted')
  BY <1>3, <1>4 DEF Written, StreamInv, QueueIsRest
<1>6. QueueIsRest'
  <2>1. ASSUME NEW i \in 1 .. Len(sendQueue') PROVE sendQueue'[i] = accepted'[Written + i]
    <3>1. CASE i \in 1 .. Len(sendQueue)
      <4>1. Written + i \in 1 .. Len(accepted)
        BY <1>4, <1>5, <3>1
      <4>2. sendQueue[i] = accepted[Written + i]
        BY <3>1 DEF StreamInv, QueueIsRest
      <4> QED BY <1>3, <1>4, <3>1, <4>1, <4>2
    <3>2. CASE i = Len(sendQueue) + 1
      <4>1. Written + i = Len(accepted) + 1
        BY <1>4, <1>5, <3>2
      <4> QED BY <1>3, <1>4, <3>2, <4>1
    <3> QED BY <1>4, <3>1, <3>2
  <2> QED BY <1>5, <2>1 DEF QueueIsRest
<1>7. WireEnd'
  <2>1. sendOffset \in Nat /\ (sendOffset > 0 => Len(sendQueue) > 0)
    BY <1>4, EmptySeq DEF SendTypeOK
  <2>2. sendOffset > 0 => Written + 1 \in 1 .. Len(accepted)
    BY <1>3, <1>4, <1>5, <2>1
  <2>3. Written > 0 => Written \in 1 .. Len(accepted)
    BY <1>3, <1>4, <1>5
  <2>4. Written > 0 \/ sendOffset > 0 => LastByte' = LastByte
    BY <1>1, <1>3, <1>5, <2>1, <2>2, <2>3 DEF LastByte
  <2> QED BY <1>1, <1>5, <2>4 DEF StreamInv, WireEnd
<1>8. AcceptedBySender'
  <2>1. ASSUME NEW k \in 1 .. Len(accepted')
        PROVE  sender'[accepted'[k]] \in {"enable", "done"}
    <3>1. k \in 1 .. Len(accepted) \/ k = Len(accepted) + 1
      BY <1>3
    <3> QED BY <1>1, <1>2, <1>3, <3>1 DEF StreamInv, AcceptedBySender
  <2> QED BY <2>1 DEF AcceptedBySender
<1>9. OpenInOnSend'
  BY <1>1 DEF StreamInv, OpenInOnSend
<1>10. Stream!InOrder(wire', accepted')
  BY <1>1, InOrderAppend DEF StreamInv, SendTypeOK
<1> QED BY <1>2, <1>6, <1>7, <1>8, <1>9, <1>10 DEF StreamInv

\* The first byte of a piece follows the last byte written before it.
LEMMA PieceFollows ==
  ASSUME SendTypeOK, StreamInv, Len(sendQueue) > 0, wire # <<>>
  PROVE  Stream!Follows(accepted, wire[Len(wire)],
                        <<accepted[Written + 1], sendOffset + 1>>)
<1>1. /\ Len(sendQueue) \in Nat /\ Len(accepted) \in Nat /\ sendOffset \in Nat
      /\ Written \in Nat /\ Written + Len(sendQueue) = Len(accepted)
  BY LenProperties DEF SendTypeOK, StreamInv, QueueIsRest, Written
<1>2. Written + 1 \in 1 .. Len(accepted)
  BY <1>1
<1>3. sendQueue[1] = accepted[Written + 1] /\ Head(sendQueue) = sendQueue[1]
  BY <1>1, EmptySeq DEF SendTypeOK, StreamInv, QueueIsRest
<1>4. sendOffset < Length[accepted[Written + 1]]
  BY <1>1, <1>3, EmptySeq DEF SendTypeOK
<1>5. CASE sendOffset > 0
  <2>1. wire[Len(wire)] = <<accepted[Written + 1], sendOffset>>
    BY <1>5 DEF StreamInv, WireEnd, LastByte
  <2>2. <<accepted[Written + 1], sendOffset + 1>> =
          Stream!NextByte(accepted, Written + 1, sendOffset)
    BY <1>4 DEF Stream!NextByte
  <2> QED BY <1>2, <1>4, <2>1, <2>2 DEF Stream!Follows
<1>6. CASE sendOffset = 0
  <2>1. Written \in 1 .. Len(accepted) /\ Written < Len(accepted)
    BY <1>1, <1>6 DEF StreamInv, WireEnd
  <2>2. wire[Len(wire)] = <<accepted[Written], Length[accepted[Written]]>>
    BY <1>6 DEF StreamInv, WireEnd, LastByte
  <2>3. Length[accepted[Written]] \in Nat
    BY <2>1, ElementOfSeq, SendAssumption DEF SendTypeOK
  <2>4. ~(Length[accepted[Written]] < Length[accepted[Written]])
    BY <2>3
  <2>5. <<accepted[Written + 1], sendOffset + 1>> =
          Stream!NextByte(accepted, Written, Length[accepted[Written]])
    BY <1>6, <2>4 DEF Stream!NextByte
  <2> QED BY <2>1, <2>2, <2>5 DEF Stream!Follows
<1> QED BY <1>1, <1>5, <1>6

LEMMA StreamSend ==
  ASSUME SendTypeOK, StreamInv, SendBytes
  PROVE  StreamInv' /\ Stream!Deliver
<1> DEFINE p == Head(sendQueue)
<1>1. /\ main = "flush" /\ sendQueue # <<>>
      /\ UNCHANGED <<sendMutex, closing, writeEvent, sender, main, accepted>>
  BY DEF SendBytes
<1>2. /\ Len(sendQueue) \in Nat /\ Len(sendQueue) > 0
      /\ Len(accepted) \in Nat /\ sendOffset \in Nat
      /\ Written \in Nat /\ Written + Len(sendQueue) = Len(accepted)
  BY <1>1, LenProperties, EmptySeq DEF SendTypeOK, StreamInv, QueueIsRest, Written
<1>3. Written + 1 \in 1 .. Len(accepted)
  BY <1>2
<1>4. p = accepted[Written + 1] /\ p \in Packet
  <2>1. 1 \in 1 .. Len(sendQueue) /\ p = sendQueue[1]
    BY <1>1, <1>2 DEF SendTypeOK
  <2>2. sendQueue[1] = accepted[Written + 1]
    BY <2>1 DEF StreamInv, QueueIsRest
  <2> QED BY <2>1, <2>2, ElementOfSeq DEF SendTypeOK
<1>5. Length[p] \in Nat /\ sendOffset < Length[p]
  BY <1>1, <1>4, SendAssumption DEF SendTypeOK
<1>6. PICK n \in 1 .. (Length[p] - sendOffset) :
        /\ wire' = wire \o [i \in 1 .. n |-> <<p, sendOffset + i>>]
        /\ sendQueue' = IF sendOffset + n = Length[p] THEN Tail(sendQueue) ELSE sendQueue
        /\ sendOffset' = IF sendOffset + n = Length[p] THEN 0 ELSE sendOffset + n
  BY DEF SendBytes, AdvanceOffset
<1>7. n \in Nat \ {0} /\ sendOffset + n <= Length[p]
  <2>1. n \in Nat /\ 1 <= n /\ n <= Length[p] - sendOffset
    BY <1>2, <1>5
  <2> QED BY <1>2, <1>5, <2>1
<1> HIDE DEF p
<1>8. wire = <<>> => Written + 1 = 1 /\ sendOffset = 0
  BY DEF StreamInv, WireEnd
<1>9. Stream!InOrder(wire', accepted')
  <2>1. /\ accepted \in Seq(Packet) /\ wire \in Seq(Packet \X Nat)
        /\ Stream!InOrder(wire, accepted)
    BY DEF SendTypeOK, StreamInv
  <2>2. sendOffset + n <= Length[accepted[Written + 1]]
    BY <1>4, <1>7
  <2>3. Stream!InOrder(wire \o [i \in 1 .. n |-> <<accepted[Written + 1], sendOffset + i>>],
                       accepted)
    BY <1>2, <1>3, <1>7, <1>8, <2>1, <2>2, PieceFollows, InOrderPiece
  <2> QED BY <1>1, <1>4, <1>6, <2>3
<1>10. /\ Len(wire) \in Nat /\ Len(wire') = Len(wire) + n
       /\ wire' \in Seq(Packet \X Nat)
       /\ \A i \in 1 .. Len(wire) : wire'[i] = wire[i]
       /\ wire'[Len(wire) + n] = <<p, sendOffset + n>>
  <2> DEFINE piece == [i \in 1 .. n |-> <<p, sendOffset + i>>]
  <2>1. piece \in Seq(Packet \X Nat) /\ Len(piece) = n /\ piece[n] = <<p, sendOffset + n>>
    <3>1. n \in Nat /\ sendOffset \in Nat /\ p \in Packet /\ n \in 1 .. n
      BY <1>2, <1>4, <1>7
    <3>2. \A i \in 1 .. n : <<p, sendOffset + i>> \in Packet \X Nat
      BY <3>1
    <3>3. piece \in [1 .. n -> Packet \X Nat]
      BY <3>2
    <3>4. piece[n] = <<p, sendOffset + n>>
      BY <3>1
    <3>5. piece \in Seq(Packet \X Nat) /\ Len(piece) = n
      <4> HIDE DEF piece
      <4> QED
        BY <3>1, <3>3
    <3> QED
      BY <3>4, <3>5
  <2>2. wire \in Seq(Packet \X Nat) /\ Len(wire) \in Nat
    BY LenProperties DEF SendTypeOK
  <2> HIDE DEF piece
  <2>3. /\ wire \o piece \in Seq(Packet \X Nat)
        /\ Len(wire \o piece) = Len(wire) + n
        /\ \A i \in 1 .. Len(wire) + n :
             (wire \o piece)[i] = IF i <= Len(wire) THEN wire[i] ELSE piece[i - Len(wire)]
    BY <2>1, <2>2, ConcatProperties
  <2>4. \A i \in 1 .. Len(wire) : i \in 1 .. Len(wire) + n /\ i <= Len(wire)
    BY <1>7, <2>2
  <2>5. /\ Len(wire) + n \in 1 .. Len(wire) + n /\ ~(Len(wire) + n <= Len(wire))
        /\ (Len(wire) + n) - Len(wire) = n
    BY <1>7, <2>2
  <2>6. wire' = wire \o piece
    BY <1>6 DEF piece
  <2> QED BY <2>1, <2>2, <2>3, <2>4, <2>5, <2>6
<1>11. wire' # <<>>
  BY <1>7, <1>10, EmptySeq
<1>12. QueueIsRest' /\ WireEnd'
  <2>1. CASE sendOffset + n = Length[p]
    <3>1. sendQueue' = Tail(sendQueue) /\ sendOffset' = 0
      BY <1>6, <2>1
    <3>2. /\ Len(sendQueue') = Len(sendQueue) - 1
          /\ \A i \in 1 .. Len(sendQueue') : sendQueue'[i] = sendQueue[i + 1]
      BY <1>1, <3>1, HeadTailProperties DEF SendTypeOK
    <3>3. Written' = Written + 1 /\ Len(sendQueue') <= Len(accepted')
      BY <1>1, <1>2, <3>2 DEF Written
    <3>4. ASSUME NEW i \in 1 .. Len(sendQueue')
          PROVE  sendQueue'[i] = accepted'[(Written + 1) + i]
      <4>1. i + 1 \in 1 .. Len(sendQueue) /\ (Written + 1) + i = Written + (i + 1)
        BY <1>2, <3>2
      <4>2. sendQueue[i + 1] = accepted[Written + (i + 1)]
        BY <4>1 DEF StreamInv, QueueIsRest
      <4> QED BY <1>1, <3>2, <4>1, <4>2
    <3>5. QueueIsRest'
      BY <3>3, <3>4 DEF QueueIsRest
    <3>6. wire'[Len(wire')] = <<accepted'[Written'], Length[accepted'[Written']]>>
      BY <1>1, <1>4, <1>10, <2>1, <3>3
    <3>7. LastByte' = <<accepted'[Written'], Length[accepted'[Written']]>>
      BY <3>1 DEF LastByte
    <3>8. WireEnd'
      BY <1>2, <1>11, <3>3, <3>6, <3>7 DEF WireEnd
    <3> QED BY <3>5, <3>8
  <2>2. CASE sendOffset + n # Length[p]
    <3>1. sendQueue' = sendQueue /\ sendOffset' = sendOffset + n
      BY <1>6, <2>2
    <3>2. Written' = Written /\ sendOffset' > 0
      BY <1>1, <1>2, <1>7, <3>1 DEF Written
    <3>3. QueueIsRest'
      BY <1>1, <3>1, <3>2 DEF StreamInv, QueueIsRest
    <3>4. LastByte' = <<accepted'[Written' + 1], sendOffset'>>
      BY <3>2 DEF LastByte
    <3>5. wire'[Len(wire')] = LastByte'
      BY <1>1, <1>4, <1>10, <3>1, <3>2, <3>4
    <3>6. WireEnd'
      BY <1>11, <3>2, <3>5 DEF WireEnd
    <3> QED BY <3>3, <3>6
  <2> QED BY <2>1, <2>2
<1>13. AcceptedBySender' /\ OpenInOnSend'
  BY <1>1 DEF StreamInv, AcceptedBySender, OpenInOnSend
<1>14. Stream!Deliver
  <2>1. ~closing
    BY <1>1 DEF StreamInv, OpenInOnSend
  <2>2. Len(wire) < Len(wire')
    BY <1>7, <1>10
  <2>3. SubSeq(wire', 1, Len(wire)) = wire
    <3>1. \A i \in 1 .. Len(wire) : wire'[i] \in Packet \X Nat
      BY <1>10, ElementOfSeq DEF SendTypeOK
    <3>2. /\ SubSeq(wire', 1, Len(wire)) \in Seq(Packet \X Nat)
          /\ Len(SubSeq(wire', 1, Len(wire))) =
               IF 1 <= Len(wire) THEN Len(wire) - 1 + 1 ELSE 0
          /\ \A i \in 1 .. Len(wire) - 1 + 1 :
               SubSeq(wire', 1, Len(wire))[i] = wire'[1 + i - 1]
      BY <1>10, <3>1, SubSeqProperties
    <3>3. Len(SubSeq(wire', 1, Len(wire))) = Len(wire)
      BY <1>10, <3>2
    <3>4. \A i \in 1 .. Len(wire) : SubSeq(wire', 1, Len(wire))[i] = wire[i]
      <4>1. Len(wire) - 1 + 1 = Len(wire) /\ \A i \in 1 .. Len(wire) : 1 + i - 1 = i
        BY <1>10
      <4> QED BY <1>10, <3>2, <4>1
    <3> QED BY <3>2, <3>3, <3>4, SeqEqual DEF SendTypeOK
  <2> QED BY <1>1, <1>9, <2>1, <2>2, <2>3 DEF Stream!Deliver
<1> QED BY <1>9, <1>12, <1>13, <1>14 DEF StreamInv

LEMMA StreamNext ==
  SendTypeOK /\ StreamInv /\ [SendNext]_sendVars => StreamInv' /\ [Stream!Next]_(Stream!vars)
<1> SUFFICES ASSUME SendTypeOK, StreamInv, [SendNext]_sendVars
             PROVE  StreamInv' /\ [Stream!Next]_(Stream!vars)
  OBVIOUS
<1> DEFINE Kept == UNCHANGED <<sendQueue, sendOffset, accepted, wire>>
           Sent == \A p \in Packet :
                     sender[p] \in {"enable", "done"} => sender'[p] \in {"enable", "done"}
<1>1. ASSUME Kept, Sent, OpenInOnSend', closing' = closing
      PROVE  StreamInv' /\ [Stream!Next]_(Stream!vars)
  BY <1>1, StreamFrame DEF Stream!vars
<1>2. ASSUME Kept, Sent, OpenInOnSend', ~closing, closing'
      PROVE  StreamInv' /\ [Stream!Next]_(Stream!vars)
  <2>1. Stream!Close
    BY <1>2 DEF Stream!Close
  <2> QED BY <1>2, <2>1, StreamFrame DEF Stream!Next
<1>3. sender \in [Packet -> {"start", "push", "enable", "done"}] /\ OpenInOnSend
  BY DEF SendTypeOK, StreamInv
<1> HIDE DEF Kept, Sent
<1>4. ASSUME NEW p \in Packet, CheckClosing(p) \/ EnableWriteEvent(p)
      PROVE  StreamInv' /\ [Stream!Next]_(Stream!vars)
  <2>1. Kept /\ Sent /\ OpenInOnSend' /\ closing' = closing
    BY <1>3, <1>4 DEF CheckClosing, EnableWriteEvent, Kept, Sent, OpenInOnSend
  <2> QED BY <1>1, <2>1
<1>5. ASSUME NEW p \in Packet, PushPacket(p)
      PROVE  StreamInv' /\ [Stream!Next]_(Stream!vars)
  <2>1. StreamInv' /\ \A k \in 1 .. Len(accepted) : accepted[k] # p
    BY <1>5, StreamPush
  <2>2. Stream!Accept
    BY <1>5, <2>1 DEF PushPacket, Stream!Accept
  <2> QED BY <2>1, <2>2 DEF Stream!Next
<1>6. ASSUME SendBytes PROVE StreamInv' /\ [Stream!Next]_(Stream!vars)
  BY <1>6, StreamSend DEF Stream!Next
<1>7. ASSUME OnSend \/ FlushDone \/ CheckPending \/ DisableWriteEvent \/ RecheckPending
             \/ EnableAgain \/ ClientReads
      PROVE  StreamInv' /\ [Stream!Next]_(Stream!vars)
  <2>1. Kept /\ Sent /\ closing' = closing
    BY <1>7 DEF OnSend, FlushDone, CheckPending, DisableWriteEvent, RecheckPending,
                EnableAgain, ClientReads, Kept, Sent
  <2>2. OpenInOnSend'
    BY <1>3, <1>7 DEF OnSend, FlushDone, CheckPending, DisableWriteEvent, RecheckPending,
                      EnableAgain, ClientReads, OpenInOnSend
  <2> QED BY <1>1, <2>1, <2>2
<1>8. ASSUME FlushFails \/ MarkClosing
      PROVE  StreamInv' /\ [Stream!Next]_(Stream!vars)
  <2>1. Kept /\ Sent /\ OpenInOnSend' /\ ~closing /\ closing'
    BY <1>3, <1>8 DEF FlushFails, MarkClosing, Kept, Sent, OpenInOnSend
  <2> QED BY <1>2, <2>1
<1>9. CASE UNCHANGED sendVars
  <2>1. Kept /\ Sent /\ OpenInOnSend' /\ closing' = closing
    BY <1>3, <1>9 DEF sendVars, Kept, Sent, OpenInOnSend
  <2> QED BY <1>1, <2>1
<1> QED BY <1>4, <1>5, <1>6, <1>7, <1>8, <1>9 DEF SendNext

LEMMA StreamInitMaps == SendInit => Stream!Init
BY DEF SendInit, Stream!Init
-------------------------------------------------------------------------------
(***************************************************************************)
(* Types, and that sendOffset lies within the first packet of the queue:     *)
(* FlushSend never reads beyond the end of a packet.                         *)
(***************************************************************************)
THEOREM SendTypeCorrect == SendSpec => []SendTypeOK
BY SendTypeInit, TypeNext, PTL DEF SendSpec

(***************************************************************************)
(* The race between DisableWriteEvent and EnqueueSend strands no packet.     *)
(***************************************************************************)
THEOREM NothingStranded == SendSpec => []NeverStranded
BY SendTypeCorrect, StrandedInit, StrandedNext, PTL DEF SendSpec

(***************************************************************************)
(* EnqueueSend and FlushSend deliver the packets whole and in the order in   *)
(* which they were accepted.                                                 *)
(***************************************************************************)
THEOREM QueueImplementsStream == SendSpec => ImplementsStream
<1>1. SendSpec => []StreamInv
  BY SendTypeCorrect, StreamInit, StreamNext, PTL DEF SendSpec
<1> QED
  BY <1>1, SendTypeCorrect, StreamInitMaps, StreamNext, PTL
     DEF SendSpec, ImplementsStream, Stream!Spec
===============================================================================
