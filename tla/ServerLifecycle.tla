---------------------------- MODULE ServerLifecycle ----------------------------
(***************************************************************************)
(* CHANNEL/app: starting and stopping a ChannelServer.                       *)
(*                                                                          *)
(* main() calls Run on the main thread while a signal thread may call        *)
(* RequestStop at any moment, also before Run began.  Run starts three       *)
(* thread pools, the map thread and the state update thread, loops, and      *)
(* stops them again in StopWorkers.  A pool is a TaskExecutor whose Stop     *)
(* returns when all that was accepted has been executed, unless a worker     *)
(* missed its notification: then Stop never returns (ThreadPool).            *)
(***************************************************************************)
EXTENDS Naturals, FiniteSets, SequencesExt

CONSTANTS
  Session,   \* clients that connect during the run, with a player to save
  MaxTask    \* bound: tasks queued in one pool

ASSUME LifecycleAssumption == MaxTask \in Nat

VARIABLES
  stopRequested,  \* m_stopRequested
  running,        \* m_running
  workersStarted, \* m_workersStarted
  stateMutex,     \* who holds m_stateUpdateWaitMutex
  mapRunning,     \* MapManager::m_running
  endSignal,      \* stopSignalThread
  main,           \* the step of the main thread
  request,        \* the step of each caller of RequestStop
  map,            \* MapManager::m_thread
  state,          \* m_stateUpdateThread
  pool,           \* the life of each ThreadPool
  tasks,          \* the tasks queued in each pool
  online,         \* authenticated sessions
  arrived,        \* history: sessions that came online
  saved,          \* sessions whose final save was executed
  rejected        \* history: a task was submitted to a pool that did not accept it

lifecycleVars == <<stopRequested, running, workersStarted, stateMutex, mapRunning, endSignal,
          main, request, map, state, pool, tasks, online, arrived, saved, rejected>>

Pool == {"task", "auth", "save"}
Caller == {"main", "signal"}
Nobody == "nobody"
StateThread == "state"

\* StartWorkers, call by call.
Starting == <<"start task", "start auth", "start save", "start map", "start state">>
\* Mutant: the save pool is stopped with the others.
StoppingSaveFirst == <<"workers", "map", "state", "auth", "task", "save",
                       "disconnect", "end signal", "join signal", "shutdown">>

\* StopWorkers, and what main() does after Run.
Stopping == <<"workers", "map", "state", "auth", "task", "disconnect", "save",
              "end signal", "join signal", "shutdown">>

After(steps, step) ==
  steps[(CHOOSE i \in DOMAIN steps : steps[i] = step) + 1]

\* The step of StopWorkers after this one, and after StopWorkers those of main().
NextStop(step) == After(Stopping, step)

\* The pool a step starts or stops.
PoolOf(step) == CASE step \in {"start task", "task"} -> "task"
                  [] step \in {"start auth", "auth"} -> "auth"
                  [] step \in {"start save", "save"} -> "save"

LifecycleInit ==
  /\ stopRequested = FALSE
  /\ running = FALSE
  /\ workersStarted = FALSE
  /\ stateMutex = Nobody
  /\ mapRunning = FALSE
  /\ endSignal = FALSE
  /\ main = "run"
  /\ request = [t \in Caller |-> "none"]
  /\ map = "none"
  /\ state = "none"
  /\ pool = [p \in Pool |-> "new"]
  /\ tasks = [p \in Pool |-> 0]
  /\ online = {}
  /\ arrived = {}
  /\ saved = {}
  /\ rejected = FALSE
-------------------------------------------------------------------------------
(* RequestStop, called by the signal thread and by Run.                      *)

SignalArrives ==
  /\ request["signal"] = "none"
  /\ ~endSignal
  /\ request' = [request EXCEPT !["signal"] = "lock"]
  /\ UNCHANGED <<stopRequested, running, workersStarted, stateMutex, mapRunning,
                 endSignal, main, map, state, pool, tasks, online, arrived, saved,
                 rejected>>

RequestLock(t) ==
  /\ request[t] = "lock"
  /\ stateMutex = Nobody
  /\ stateMutex' = t
  /\ request' = [request EXCEPT ![t] = "first"]
  /\ UNCHANGED <<stopRequested, running, workersStarted, mapRunning, endSignal, main,
                 map, state, pool, tasks, online, arrived, saved, rejected>>

\* Mutant: the two stores of RequestStop in the other order.
StoreSwapped(first) ==
  IF first THEN running' = FALSE /\ UNCHANGED stopRequested
           ELSE stopRequested' = TRUE /\ UNCHANGED running

\* The stores of RequestStop: stop is requested first, then not running.
Store(first) ==
  IF first THEN stopRequested' = TRUE /\ UNCHANGED running
           ELSE running' = FALSE /\ UNCHANGED stopRequested

RequestStore(t) ==
  /\ request[t] \in {"first", "second"}
  /\ Store(request[t] = "first")
  /\ request' = [request EXCEPT ![t] = IF @ = "first" THEN "second" ELSE "unlock"]
  /\ UNCHANGED <<workersStarted, stateMutex, mapRunning, endSignal, main, map, state,
                 pool, tasks, online, arrived, saved, rejected>>

\* Unlock, and notify_all of m_stateUpdateCv: the state thread looks again.
RequestNotify(t) ==
  /\ request[t] = "unlock"
  /\ stateMutex' = Nobody
  /\ state' = IF state = "wait" THEN "look" ELSE state
  /\ request' = [request EXCEPT ![t] = "done"]
  /\ UNCHANGED <<stopRequested, running, workersStarted, mapRunning, endSignal, main,
                 map, pool, tasks, online, arrived, saved, rejected>>
-------------------------------------------------------------------------------
(* Run, up to the end of GameLoop.                                           *)

\* TryBeginRun: m_running.exchange(true).
BeginRun ==
  /\ main = "run"
  /\ running' = TRUE
  /\ main' = IF running THEN "end signal" ELSE "check"
  /\ UNCHANGED <<stopRequested, workersStarted, stateMutex, mapRunning, endSignal,
                 request, map, state, pool, tasks, online, arrived, saved, rejected>>

StopWasRequested == stopRequested

\* TryBeginRun: a stop that was requested meanwhile; else StartWorkers begins.
CheckStop ==
  /\ main = "check"
  /\ \/ /\ StopWasRequested
        /\ running' = FALSE
        /\ main' = "end signal"
        /\ UNCHANGED workersStarted
     \/ /\ ~StopWasRequested
        /\ workersStarted' = TRUE
        /\ main' = Head(Starting)
        /\ UNCHANGED running
  /\ UNCHANGED <<stopRequested, stateMutex, mapRunning, endSignal, request, map,
                 state, pool, tasks, online, arrived, saved, rejected>>

StartNext == IF main = Last(Starting) THEN "loop" ELSE After(Starting, main)

\* StartWorkers, one call: a pool, MapManager::Start, the state update thread.
StartWorker ==
  /\ main \in Range(Starting)
  /\ main' = StartNext
  /\ \/ /\ main \in {"start task", "start auth", "start save"}
        /\ pool' = [pool EXCEPT ![PoolOf(main)] = "open"]
        /\ UNCHANGED <<mapRunning, map, state>>
     \/ /\ main = "start map"
        /\ mapRunning' = TRUE
        /\ map' = "look"
        /\ UNCHANGED <<pool, state>>
     \/ /\ main = "start state"
        /\ state' = "look"
        /\ UNCHANGED <<pool, mapRunning, map>>
  /\ UNCHANGED <<stopRequested, running, workersStarted, stateMutex, endSignal,
                 request, tasks, online, arrived, saved, rejected>>

\* The system refuses a thread, of a pool maybe not its first: Run catches, stops
\* what was started and rethrows.
StartFails ==
  /\ main \in Range(Starting)
  /\ \/ UNCHANGED pool
     \/ /\ main \in {"start task", "start auth", "start save"}
        /\ pool' = [pool EXCEPT ![PoolOf(main)] = "open"]
  /\ main' = "request"
  /\ request' = [request EXCEPT !["main"] = "lock"]
  /\ UNCHANGED <<stopRequested, running, workersStarted, stateMutex, mapRunning,
                 endSignal, map, state, tasks, online, arrived, saved, rejected>>

\* ThreadPool::Submit and SubmitByKey: a worker that is not running drops the task.
Submit(p) ==
  \/ pool[p] = "open" /\ tasks' = [tasks EXCEPT ![p] = @ + 1] /\ UNCHANGED rejected
  \/ pool[p] # "open" /\ rejected' = TRUE /\ UNCHANGED tasks

\* GameLoop: a packet or a periodic save for the task pool, an authentication.
GameLoopSubmit(p) ==
  /\ main = "loop" /\ running
  /\ p \in {"task", "auth"}
  /\ tasks[p] < MaxTask
  /\ Submit(p)
  /\ UNCHANGED <<stopRequested, running, workersStarted, stateMutex, mapRunning,
                 endSignal, main, request, map, state, pool, online, arrived, saved>>

\* GameLoop: an authentication result puts a player online.
GameLoopAuth(s) ==
  /\ main = "loop" /\ running
  /\ s \notin arrived
  /\ online' = online \cup {s}
  /\ arrived' = arrived \cup {s}
  /\ UNCHANGED <<stopRequested, running, workersStarted, stateMutex, mapRunning,
                 endSignal, main, request, map, state, pool, tasks, saved, rejected>>

\* OnDisconnect: FinalizePlayer submits the final save.
OnDisconnect(s) ==
  /\ (main = "loop" /\ running) \/ main = "disconnect"
  /\ s \in online
  /\ tasks["save"] < MaxTask
  /\ online' = online \ {s}
  /\ Submit("save")
  /\ UNCHANGED <<stopRequested, running, workersStarted, stateMutex, mapRunning,
                 endSignal, main, request, map, state, pool, arrived, saved>>

\* GameLoop finds m_running false; or epoll_wait fails.
LeaveGameLoop ==
  /\ main = "loop"
  /\ main' = "request"
  /\ request' = [request EXCEPT !["main"] = "lock"]
  /\ UNCHANGED <<stopRequested, running, workersStarted, stateMutex, mapRunning,
                 endSignal, map, state, pool, tasks, online, arrived, saved, rejected>>

EndGameLoop == ~running /\ LeaveGameLoop

EpollFails == running /\ LeaveGameLoop
-------------------------------------------------------------------------------
(* StopWorkers, and main() after Run.                                        *)

\* After RequestStop: m_workersStarted.exchange(false).
ExchangeWorkersStarted ==
  /\ main = "request"
  /\ request["main"] = "done"
  /\ workersStarted' = FALSE
  /\ main' = IF workersStarted THEN NextStop("workers") ELSE "end signal"
  /\ UNCHANGED <<stopRequested, running, stateMutex, mapRunning, endSignal, request,
                 map, state, pool, tasks, online, arrived, saved, rejected>>

\* MapManager::Stop: store, notify_all, join.
StopMap ==
  /\ main = "map"
  /\ \/ /\ mapRunning
        /\ mapRunning' = FALSE
        /\ UNCHANGED main
     \/ /\ ~mapRunning
        /\ map \in {"none", "exited"}
        /\ main' = NextStop(main)
        /\ UNCHANGED mapRunning
  /\ UNCHANGED <<stopRequested, running, workersStarted, stateMutex, endSignal,
                 request, map, state, pool, tasks, online, arrived, saved, rejected>>

JoinState ==
  /\ main = "state"
  /\ state \in {"none", "exited"}
  /\ main' = NextStop(main)
  /\ UNCHANGED <<stopRequested, running, workersStarted, stateMutex, mapRunning,
                 endSignal, request, map, state, pool, tasks, online, arrived, saved,
                 rejected>>

\* ThreadPool::Stop: nothing is accepted any more; returns when all was executed.
\* A worker of a started pool that was between its look at the queue and its wait
\* misses the notification, and Stop joins it for ever ("stuck").
StopPool ==
  /\ main \in Pool
  /\ LET p == PoolOf(main) IN
       \/ /\ \/ /\ pool[p] \in {"new", "open"}
                /\ pool' = [pool EXCEPT ![p] = "closed"]
             \/ /\ pool[p] = "open"
                /\ pool' = [pool EXCEPT ![p] = "stuck"]
          /\ UNCHANGED main
       \/ /\ pool[p] = "closed"
          /\ tasks[p] = 0
          /\ pool' = [pool EXCEPT ![p] = "stopped"]
          /\ main' = NextStop(main)
  /\ UNCHANGED <<stopRequested, running, workersStarted, stateMutex, mapRunning,
                 endSignal, request, map, state, tasks, online, arrived, saved,
                 rejected>>

\* DisconnectAllSessions calls OnDisconnect of every session.
AllDisconnected ==
  /\ main = "disconnect"
  /\ online = {}
  /\ main' = NextStop(main)
  /\ UNCHANGED <<stopRequested, running, workersStarted, stateMutex, mapRunning,
                 endSignal, request, map, state, pool, tasks, online, arrived, saved,
                 rejected>>

EndSignalThread ==
  /\ main = "end signal"
  /\ endSignal' = TRUE
  /\ main' = NextStop(main)
  /\ UNCHANGED <<stopRequested, running, workersStarted, stateMutex, mapRunning,
                 request, map, state, pool, tasks, online, arrived, saved, rejected>>

\* main() joins the signal thread, which is not inside RequestStop any more, and
\* shuts MySqlConnectionPool down.
JoinSignalThread ==
  /\ main = "join signal"
  /\ request["signal"] \in {"none", "done"}
  /\ main' = NextStop(main)
  /\ UNCHANGED <<stopRequested, running, workersStarted, stateMutex, mapRunning,
                 endSignal, request, map, state, pool, tasks, online, arrived, saved,
                 rejected>>
-------------------------------------------------------------------------------
(* The other threads.                                                        *)

\* MapManager::Update finds m_running false; its waits have a timeout.
MapExits ==
  /\ map = "look"
  /\ ~mapRunning
  /\ map' = "exited"
  /\ UNCHANGED <<stopRequested, running, workersStarted, stateMutex, mapRunning,
                 endSignal, main, request, state, pool, tasks, online, arrived, saved,
                 rejected>>

\* UpdateChannelState: the loop condition.
StateLooks ==
  /\ state = "look"
  /\ state' = IF running THEN "submit" ELSE "exited"
  /\ UNCHANGED <<stopRequested, running, workersStarted, stateMutex, mapRunning,
                 endSignal, main, request, map, pool, tasks, online, arrived, saved,
                 rejected>>

\* UpdateChannelState: Submit of a ChannelStateUpdateTask.
StateSubmits ==
  /\ state = "submit"
  /\ tasks["task"] < MaxTask
  /\ Submit("task")
  /\ state' = "lock"
  /\ UNCHANGED <<stopRequested, running, workersStarted, stateMutex, mapRunning,
                 endSignal, main, request, map, pool, online, arrived, saved>>

\* UpdateChannelState: lock, look at the predicate of wait_for, unlock.
StateWaits ==
  /\ state = "lock"
  /\ stateMutex = Nobody
  /\ state' = IF running THEN "wait" ELSE "look"
  /\ UNCHANGED <<stopRequested, running, workersStarted, stateMutex, mapRunning,
                 endSignal, main, request, map, pool, tasks, online, arrived, saved,
                 rejected>>

\* wait_for times out.
StateTimesOut ==
  /\ state = "wait"
  /\ state' = "look"
  /\ UNCHANGED <<stopRequested, running, workersStarted, stateMutex, mapRunning,
                 endSignal, main, request, map, pool, tasks, online, arrived, saved,
                 rejected>>

\* A worker of a pool executes a task; one of the save pool stores a player that
\* was disconnected.
Execute(p) ==
  /\ pool[p] # "new"
  /\ tasks[p] > 0
  /\ tasks' = [tasks EXCEPT ![p] = @ - 1]
  /\ IF p = "save"
     THEN \E s \in arrived \ (online \cup saved) : saved' = saved \cup {s}
     ELSE UNCHANGED saved
  /\ UNCHANGED <<stopRequested, running, workersStarted, stateMutex, mapRunning,
                 endSignal, main, request, map, state, pool, online, arrived, rejected>>
-------------------------------------------------------------------------------
MainStep ==
  \/ BeginRun \/ CheckStop \/ StartWorker \/ EndGameLoop
  \/ ExchangeWorkersStarted \/ StopMap \/ JoinState \/ StopPool
  \/ AllDisconnected \/ EndSignalThread \/ JoinSignalThread

RequestStep(t) == RequestLock(t) \/ RequestStore(t) \/ RequestNotify(t)

LifecycleNext ==
  \/ BeginRun \/ CheckStop \/ StartWorker \/ StartFails
  \/ EndGameLoop \/ EpollFails
  \/ ExchangeWorkersStarted \/ StopMap \/ JoinState \/ StopPool
  \/ AllDisconnected \/ EndSignalThread \/ JoinSignalThread
  \/ SignalArrives
  \/ \E t \in Caller : RequestLock(t) \/ RequestStore(t) \/ RequestNotify(t)
  \/ \E p \in Pool : GameLoopSubmit(p) \/ Execute(p)
  \/ \E s \in Session : GameLoopAuth(s) \/ OnDisconnect(s)
  \/ MapExits
  \/ StateLooks \/ StateSubmits \/ StateWaits \/ StateTimesOut

LifecycleSpec == LifecycleInit /\ [][LifecycleNext]_lifecycleVars

(***************************************************************************)
(* Every thread that can run goes on running.  Signals, failures and clients *)
(* need not come; DisconnectAllSessions goes on while there are sessions.    *)
(***************************************************************************)
LifecycleFairness ==
  /\ WF_lifecycleVars(MainStep)
  /\ WF_lifecycleVars(main = "disconnect" /\ \E s \in Session : OnDisconnect(s))
  /\ \A t \in Caller : WF_lifecycleVars(RequestStore(t) \/ RequestNotify(t))
  /\ \A t \in Caller : SF_lifecycleVars(RequestLock(t))
  /\ WF_lifecycleVars(MapExits)
  /\ WF_lifecycleVars(StateLooks \/ StateSubmits \/ StateTimesOut)
  /\ SF_lifecycleVars(StateWaits)
  /\ \A p \in Pool : WF_lifecycleVars(Execute(p))

LifecycleFairSpec == LifecycleSpec /\ LifecycleFairness
-------------------------------------------------------------------------------
Thread == {"none", "look", "exited"}

LifecycleTypeOK ==
  /\ stopRequested \in BOOLEAN
  /\ running \in BOOLEAN
  /\ workersStarted \in BOOLEAN
  /\ stateMutex \in Caller \cup {Nobody}
  /\ mapRunning \in BOOLEAN
  /\ endSignal \in BOOLEAN
  /\ main \in {"run", "check", "loop", "request"} \cup Range(Starting)
                                                \cup Range(Stopping)
  /\ request \in [Caller -> {"none", "lock", "first", "second", "unlock", "done"}]
  /\ map \in Thread
  /\ state \in Thread \cup {"submit", "lock", "wait"}
  /\ pool \in [Pool -> {"new", "open", "closed", "stuck", "stopped"}]
  /\ tasks \in [Pool -> 0 .. MaxTask]
  /\ online \in SUBSET Session
  /\ arrived \in SUBSET Session
  /\ saved \in SUBSET Session
  /\ rejected \in BOOLEAN

(***************************************************************************)
(* When MySqlConnectionPool is shut down no other thread of the server runs, *)
(* nothing is queued, every client is disconnected and every player saved.   *)
(* StopWorkers stops every producer of tasks before the pool it submits to:  *)
(* no task is dropped by a stopped pool, the final saves that                *)
(* DisconnectAllSessions submits least of all.  (The types come with it.)    *)
(***************************************************************************)
ShutdownIsComplete ==
  /\ LifecycleTypeOK
  /\ ~rejected
  /\ main = "shutdown" =>
       /\ ~running
       /\ map # "look" /\ state \in {"none", "exited"}
       /\ \A p \in Pool : tasks[p] = 0
       /\ online = {}
       /\ saved = arrived

(***************************************************************************)
(* A requested stop ends the process, whenever it is requested, before Run   *)
(* began too, unless ThreadPool::Stop hangs: a worker that looked at its     *)
(* queue before WorkerThread::Stop cleared m_running, and waits after it     *)
(* notified, is joined for ever (ThreadPool, StopReturns does not hold).     *)
(***************************************************************************)
StopEnds ==
  stopRequested ~> (main = "shutdown" \/ (main \in Pool /\ pool[main] = "stuck"))
===============================================================================
