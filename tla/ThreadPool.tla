------------------------------ MODULE ThreadPool ------------------------------
(***************************************************************************)
(* COMMON/thread: ThreadPool and its WorkerThreads.  One worker has a       *)
(* mutex (m_mutex), a condition variable (m_cv), a FIFO (m_tasks) and an    *)
(* atomic flag (m_running).  PushTask checks the flag and pushes in one     *)
(* critical section, then notifies with the mutex released.  Run evaluates  *)
(* the wait predicate with the mutex held and only then joins the           *)
(* condition variable's waiters.  Stop stores the flag and notifies         *)
(* WITHOUT taking the mutex, then joins the thread.                         *)
(*                                                                          *)
(* A critical section that no other thread can observe half-way is one      *)
(* step.  The step from a false predicate to the wait is kept apart,        *)
(* because Stop is not excluded from it.                                    *)
(***************************************************************************)
EXTENDS Naturals, Sequences

CONSTANTS
  Task,      \* the tasks submitted during the run
  NoTask,    \* the worker runs nothing
  PoolSize,  \* m_poolSize
  Keyed,     \* the tasks given to SubmitByKey; the others go to Submit
  Key        \* the key SubmitByKey gets for each of them

ASSUME PoolSizeAssumption == PoolSize \in Nat \ {0}
ASSUME NoTaskAssumption == NoTask \notin Task
ASSUME KeyAssumption == Keyed \subseteq Task /\ Key \in [Keyed -> Nat]

VARIABLES
  running,    \* running[w]: m_running of worker w
  tasks,      \* tasks[w]: m_tasks of worker w
  current,    \* current[w]: the task popped by Run and not yet returned
  pc,         \* pc[w]: where Run of worker w is
  submitter,  \* submitter[t]: how far the call that submits t has come
  home,       \* home[t]: the worker whose PushTask got t
  nextIndex,  \* m_nextIndex
  submitLock, \* the task whose Submit holds m_submitMutex, or NoTask
  finished,   \* history: the tasks whose Execute has returned
  control,    \* the thread that calls ThreadPool::Start and ThreadPool::Stop
  target      \* the worker its loop is at

vars == <<running, tasks, current, pc, submitter, home, nextIndex, submitLock,
          finished, control, target>>

Worker == 0 .. (PoolSize - 1)

(***************************************************************************)
(* "none"  : no thread yet                                                 *)
(* "lock"  : about to take m_mutex and evaluate the predicate              *)
(* "block" : predicate false, m_mutex still held, not yet a waiter of m_cv *)
(* "wait"  : a waiter of m_cv, m_mutex released                            *)
(* "exec"  : running current[w]                                            *)
(* "exit"  : Run has returned                                              *)
(***************************************************************************)
RunPc == {"none", "lock", "block", "wait", "exec", "exit"}

Init ==
  /\ running = [w \in Worker |-> FALSE]
  /\ tasks = [w \in Worker |-> <<>>]
  /\ current = [w \in Worker |-> NoTask]
  /\ pc = [w \in Worker |-> "none"]
  /\ submitter = [t \in Task |-> "new"]
  /\ home = [t \in Task |-> 0]
  /\ nextIndex = 0
  /\ submitLock = NoTask
  /\ finished = {}
  /\ control = "start"
  /\ target = 0

\* notify_one and notify_all: at most one thread ever waits on a worker's m_cv.
\* A notification that finds no waiter is lost.
Notify(w) ==
  pc' = [pc EXCEPT ![w] = IF @ = "wait" THEN "lock" ELSE @]

-------------------------------------------------------------------------------
(* The thread that owns the pool.                                           *)

\* ThreadPool::Start, one worker per turn of its loop.
StartWorker ==
  /\ control = "start"
  /\ running' = [running EXCEPT ![target] = TRUE]
  /\ pc' = [pc EXCEPT ![target] = "lock"]
  /\ IF target + 1 < PoolSize
       THEN target' = target + 1 /\ control' = control
       ELSE target' = 0 /\ control' = "open"
  /\ UNCHANGED <<tasks, current, submitter, home, nextIndex, submitLock, finished>>

\* ThreadPool::Stop is called.
CallStop ==
  /\ control = "open"
  /\ control' = "store"
  /\ UNCHANGED <<running, tasks, current, pc, submitter, home, nextIndex,
                 submitLock, finished, target>>

\* WorkerThread::Stop: m_running = false, without m_mutex.
StopStore ==
  /\ control = "store"
  /\ running' = [running EXCEPT ![target] = FALSE]
  /\ control' = "notify"
  /\ UNCHANGED <<tasks, current, pc, submitter, home, nextIndex, submitLock,
                 finished, target>>

\* WorkerThread::Stop: m_cv.notify_all(), without m_mutex.
StopNotify ==
  /\ control = "notify"
  /\ Notify(target)
  /\ control' = "join"
  /\ UNCHANGED <<running, tasks, current, submitter, home, nextIndex,
                 submitLock, finished, target>>

\* WorkerThread::Stop: m_worker.join() returns; the loop goes to the next worker.
StopJoin ==
  /\ control = "join"
  /\ pc[target] = "exit"
  /\ IF target + 1 < PoolSize
       THEN target' = target + 1 /\ control' = "store"
       ELSE target' = 0 /\ control' = "stopped"
  /\ UNCHANGED <<running, tasks, current, pc, submitter, home, nextIndex,
                 submitLock, finished>>

Controller == StartWorker \/ StopStore \/ StopNotify \/ StopJoin

-------------------------------------------------------------------------------
(* A thread that submits task t.                                            *)

\* Mutant: PushTask that does not look at m_running.
AcceptsAlways(w) == TRUE

\* PushTask: if(!m_running) return;
Accepts(w) == running[w]

\* m_mutex of worker w is free.  Only a worker that is about to wait keeps it
\* over more than one step.
MutexFree(w) == pc[w] # "block"

\* PushTask's critical section, on worker w.
Push(t, w) ==
  /\ MutexFree(w)
  /\ home' = [home EXCEPT ![t] = w]
  /\ IF Accepts(w)
       THEN /\ tasks' = [tasks EXCEPT ![w] = Append(@, t)]
            /\ submitter' = [submitter EXCEPT ![t] = "notify"]
       ELSE /\ submitter' = [submitter EXCEPT ![t] = "rejected"]
            /\ UNCHANGED tasks

\* Mutant: SubmitByKey that spreads the tasks of one key over the workers.
IndexRoundRobin(t) == nextIndex

\* SubmitByKey: key % m_workers.size()
Index(t) == Key[t] % PoolSize

\* Submit: m_nextIndex = (m_nextIndex + 1) % m_workers.size()
Following(i) == (i + 1) % PoolSize

SubmitByKey(t) ==
  /\ t \in Keyed
  /\ submitter[t] = "new"
  /\ Push(t, Index(t))
  /\ UNCHANGED <<running, current, pc, nextIndex, submitLock, finished, control, target>>

\* Submit holds m_submitMutex until PushTask has returned.
Submit(t) ==
  /\ t \notin Keyed
  /\ submitter[t] = "new"
  /\ submitLock = NoTask
  /\ Push(t, nextIndex)
  /\ IF Accepts(nextIndex)
       THEN submitLock' = t /\ nextIndex' = nextIndex
       ELSE submitLock' = NoTask /\ nextIndex' = Following(nextIndex)
  /\ UNCHANGED <<running, current, pc, finished, control, target>>

\* PushTask after its critical section: m_cv.notify_one(), then Submit advances
\* m_nextIndex and releases m_submitMutex.
NotifyOne(t) ==
  /\ submitter[t] = "notify"
  /\ Notify(home[t])
  /\ submitter' = [submitter EXCEPT ![t] = "returned"]
  /\ IF submitLock = t
       THEN submitLock' = NoTask /\ nextIndex' = Following(nextIndex)
       ELSE UNCHANGED <<submitLock, nextIndex>>
  /\ UNCHANGED <<running, tasks, current, home, finished, control, target>>

-------------------------------------------------------------------------------
(* WorkerThread::Run.                                                       *)

\* The wait predicate is true and there is a task: pop it, release the mutex.
TakeTask(w) ==
  /\ pc[w] = "lock"
  /\ tasks[w] # <<>>
  /\ current' = [current EXCEPT ![w] = Head(tasks[w])]
  /\ tasks' = [tasks EXCEPT ![w] = Tail(@)]
  /\ pc' = [pc EXCEPT ![w] = "exec"]
  /\ UNCHANGED <<running, submitter, home, nextIndex, submitLock, finished,
                 control, target>>

\* Mutant: if (!m_running) break;
MayLeaveEarly(w) == ~running[w]

\* if (!m_running && m_tasks.empty()) break;
MayLeave(w) == ~running[w] /\ tasks[w] = <<>>

Leave(w) ==
  /\ pc[w] = "lock"
  /\ MayLeave(w)
  /\ pc' = [pc EXCEPT ![w] = "exit"]
  /\ UNCHANGED <<running, tasks, current, submitter, home, nextIndex, submitLock,
                 finished, control, target>>

\* The predicate is false.  The worker holds the mutex and is not a waiter yet.
PredicateFalse(w) ==
  /\ pc[w] = "lock"
  /\ running[w] /\ tasks[w] = <<>>
  /\ pc' = [pc EXCEPT ![w] = "block"]
  /\ UNCHANGED <<running, tasks, current, submitter, home, nextIndex, submitLock,
                 finished, control, target>>

\* m_cv.wait releases the mutex and becomes a waiter in one atomic step.
Block(w) ==
  /\ pc[w] = "block"
  /\ pc' = [pc EXCEPT ![w] = "wait"]
  /\ UNCHANGED <<running, tasks, current, submitter, home, nextIndex, submitLock,
                 finished, control, target>>

\* A condition variable may wake a waiter that nobody notified.
SpuriousWakeup(w) ==
  /\ pc[w] = "wait"
  /\ pc' = [pc EXCEPT ![w] = "lock"]
  /\ UNCHANGED <<running, tasks, current, submitter, home, nextIndex, submitLock,
                 finished, control, target>>

\* task->Execute() returns or throws; an exception is swallowed.
Execute(w) ==
  /\ pc[w] = "exec"
  /\ finished' = finished \cup {current[w]}
  /\ current' = [current EXCEPT ![w] = NoTask]
  /\ pc' = [pc EXCEPT ![w] = "lock"]
  /\ UNCHANGED <<running, tasks, submitter, home, nextIndex, submitLock, control, target>>

Run(w) == TakeTask(w) \/ Leave(w) \/ PredicateFalse(w) \/ Block(w) \/ Execute(w)

-------------------------------------------------------------------------------
\* Stop has returned and every submitting call has: the program goes on elsewhere.
Done ==
  /\ control = "stopped"
  /\ \A t \in Task : submitter[t] \in {"returned", "rejected"}
  /\ UNCHANGED vars

Next ==
  \/ StartWorker
  \/ CallStop
  \/ StopStore
  \/ StopNotify
  \/ StopJoin
  \/ \E t \in Task : SubmitByKey(t) \/ Submit(t) \/ NotifyOne(t)
  \/ \E w \in Worker : \/ TakeTask(w) \/ Leave(w) \/ PredicateFalse(w)
                       \/ Block(w) \/ SpuriousWakeup(w) \/ Execute(w)
  \/ Done

Spec == Init /\ [][Next]_vars

(***************************************************************************)
(* Every thread that can go on does go on.  Nobody has to submit a task or  *)
(* call Stop, and no wait is promised a spurious wakeup.                    *)
(***************************************************************************)
Fairness ==
  /\ WF_vars(Controller)
  /\ \A t \in Task : WF_vars(NotifyOne(t))
  /\ \A w \in Worker : WF_vars(Run(w))

FairSpec == Spec /\ Fairness

-------------------------------------------------------------------------------
TypeOK ==
  /\ running \in [Worker -> BOOLEAN]
  /\ tasks \in [Worker -> Seq(Task)]
  /\ current \in [Worker -> Task \cup {NoTask}]
  /\ pc \in [Worker -> RunPc]
  /\ submitter \in [Task -> {"new", "notify", "returned", "rejected"}]
  /\ home \in [Task -> Worker]
  /\ nextIndex \in Worker
  /\ submitLock \in Task \cup {NoTask}
  /\ finished \in SUBSET Task
  /\ control \in {"start", "open", "store", "notify", "join", "stopped"}
  /\ target \in Worker

Accepted(t) == submitter[t] \in {"notify", "returned"}

(***************************************************************************)
(* When ThreadPool::Stop has returned, every task a PushTask accepted has   *)
(* been executed: Run leaves only with an empty queue, and no PushTask can  *)
(* slip a task in behind it.  ChannelServer::StopWorkers frees the sessions *)
(* those tasks point to right after.                                        *)
(***************************************************************************)
StoppedPoolFinishedAll ==
  control = "stopped" => \A t \in Task : Accepted(t) => t \in finished

(***************************************************************************)
(* The pool implements TaskExecutor: exactly one run per accepted task, FIFO *)
(* per worker, and one worker per key.                                      *)
(***************************************************************************)
Outcome == [t \in Task |->
  IF t \in finished THEN "finished"
  ELSE IF Accepted(t) THEN "accepted" ELSE submitter[t]]

Executor == INSTANCE TaskExecutor
  WITH open <- running, pending <- tasks, active <- current, outcome <- Outcome

ImplementsExecutor == Executor!Spec

(***************************************************************************)
(* Every accepted task is executed, also when Stop races with PushTask and  *)
(* the worker: a wakeup Stop loses costs the join, never a task.            *)
(***************************************************************************)
AcceptedIsExecuted == \A t \in Task : Accepted(t) ~> t \in finished

(***************************************************************************)
(* What the README says of a shutdown (lines 51 and 86: waiting threads     *)
(* are notified and join() ends them): a Stop that was called returns.      *)
(***************************************************************************)
StopReturns == (control = "store") ~> (control = "stopped")
===============================================================================
