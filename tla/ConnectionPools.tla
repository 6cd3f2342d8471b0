---------------------------- MODULE ConnectionPools ----------------------------
(***************************************************************************)
(* COMMON/db: MySqlConnectionPool and RedisConnectionPool, used by the       *)
(* threads of a server.                                                      *)
(*                                                                          *)
(* The MySQL pool never waits.  It counts the connections it believes to     *)
(* exist (m_liveConnectionCount), replaces a dead one when it is fetched,    *)
(* and creates one for a slot that was lost.  The Redis pool has a fixed set *)
(* of clients and makes a thread wait for one.  A thread that holds a Redis  *)
(* client may fetch a MySQL connection (ChannelAuthTask, the WORLD           *)
(* handlers); none waits for Redis while it holds MySQL.                     *)
(***************************************************************************)
EXTENDS Naturals, Sequences, FiniteSets

CONSTANTS
  Thread,    \* the threads that use the pools
  TargetPoolSize,  \* m_targetPoolSize
  Client,    \* the RedisClients of the Redis pool
  NoClient

ASSUME PoolAssumption ==
  /\ TargetPoolSize \in Nat \ {0}
  /\ IsFiniteSet(Thread) /\ IsFiniteSet(Client)
  /\ NoClient \notin Client

VARIABLES
  pool,       \* m_pool: the idle MySQL connections
  live,       \* m_liveConnectionCount
  dead,       \* connections that MySQL or the network has closed
  step,       \* where each thread is in GetConnection
  conn,       \* the MySQL connection of each thread, or NoConnection
  abandoned,  \* history: connections closed by a user of the pool
  available,  \* m_available: the idle Redis clients
  redis,      \* where each thread is in Acquire and Release
  client      \* the Redis client of each thread, or NoClient

mysqlVars == <<pool, live, dead, step, conn, abandoned>>
redisVars == <<available, redis, client>>
poolsVars == <<pool, live, dead, step, conn, abandoned, available, redis, client>>

\* A connection has a number, which is used again when it was closed.
Connection == 1 .. TargetPoolSize + 1
NoConnection == 0

InPool == {pool[i] : i \in DOMAIN pool}
Held == {conn[t] : t \in Thread} \ {NoConnection}
Closed == Connection \ (InPool \cup Held)

\* Threads that occupy a slot.
Busy == {t \in Thread : step[t] # "idle"}

\* Redis starts with every client connected; MySQL with one connection at least.
PoolsInit ==
  /\ live \in 1 .. TargetPoolSize
  /\ pool = [i \in 1 .. live |-> i]
  /\ dead = {}
  /\ step = [t \in Thread |-> "idle"]
  /\ conn = [t \in Thread |-> NoConnection]
  /\ abandoned = 0
  /\ available \in {q \in [1 .. Cardinality(Client) -> Client] :
                      /\ \A i, j \in DOMAIN q : q[i] = q[j] => i = j
                      /\ \A c \in Client : \E i \in DOMAIN q : q[i] = c}
  /\ redis = [t \in Thread |-> "none"]
  /\ client = [t \in Thread |-> NoClient]
-------------------------------------------------------------------------------
(* MySqlConnectionPool.                                                      *)

\* Mutant: the connection is used but stays in m_pool.
PopForgotten == pool

Pop == Tail(pool)

\* A connection was lost and its slot can be used for a new one.
SlotLost == live < TargetPoolSize

\* GetConnection under m_sqlMutex: an idle connection, a lost slot, or nothing.
GetConnection(t) ==
  /\ step[t] = "idle"
  /\ redis[t] \in {"none", "holding"}
  /\ \/ /\ pool # <<>>
        /\ conn' = [conn EXCEPT ![t] = Head(pool)]
        /\ pool' = Pop
        /\ step' = [step EXCEPT ![t] = "ping"]
        /\ UNCHANGED live
     \/ /\ pool = <<>>
        /\ SlotLost
        /\ live' = live + 1
        /\ step' = [step EXCEPT ![t] = "create"]
        /\ UNCHANGED <<pool, conn>>
  /\ UNCHANGED <<dead, abandoned, redisVars>>

\* mysql_ping: a dead connection is closed, and replaced next.
Ping(t) ==
  /\ step[t] = "ping"
  /\ \/ /\ conn[t] \notin dead
        /\ step' = [step EXCEPT ![t] = "using"]
        /\ UNCHANGED <<dead, conn>>
     \/ /\ conn[t] \in dead
        /\ step' = [step EXCEPT ![t] = "create"]
        /\ dead' = dead \ {conn[t]}
        /\ conn' = [conn EXCEPT ![t] = NoConnection]
  /\ UNCHANGED <<pool, live, abandoned, redisVars>>

CreateConnection(t) ==
  /\ step[t] = "create"
  /\ \E c \in Closed : conn' = [conn EXCEPT ![t] = c]
  /\ step' = [step EXCEPT ![t] = "using"]
  /\ UNCHANGED <<pool, live, dead, abandoned, redisVars>>

\* Mutant: the reservation of the slot is kept when no connection was made.
SlotKept == live

SlotFreed == IF live > 0 THEN live - 1 ELSE live

\* CreateConnection returned nullptr: the slot is lost, until another request.
CreateFails(t) ==
  /\ step[t] = "create"
  /\ live' = SlotFreed
  /\ step' = [step EXCEPT ![t] = "idle"]
  /\ UNCHANGED <<pool, dead, conn, abandoned, redisVars>>

ReleaseConnection(t) ==
  /\ step[t] = "using"
  /\ pool' = Append(pool, conn[t])
  /\ conn' = [conn EXCEPT ![t] = NoConnection]
  /\ step' = [step EXCEPT ![t] = "idle"]
  /\ UNCHANGED <<live, dead, abandoned, redisVars>>

\* TradeService::Execute: a connection on which START TRANSACTION or ROLLBACK
\* failed is closed and not given back.
CloseConnection(t) ==
  /\ step[t] = "using"
  /\ conn[t] \in dead
  /\ dead' = dead \ {conn[t]}
  /\ conn' = [conn EXCEPT ![t] = NoConnection]
  /\ step' = [step EXCEPT ![t] = "idle"]
  /\ abandoned' = abandoned + 1
  /\ UNCHANGED <<pool, live, redisVars>>

\* MySQL closes a connection (wait_timeout, restart), or the network does.
ConnectionDies(c) ==
  /\ c \in (InPool \cup Held) \ dead
  /\ dead' = dead \cup {c}
  /\ UNCHANGED <<pool, live, step, conn, abandoned, redisVars>>
-------------------------------------------------------------------------------
(* RedisConnectionPool.                                                      *)

Waiting == {t \in Thread : redis[t] = "waiting"}

\* Threads on the way to look at m_available, or to wake one that does.
Awake == {t \in Thread : redis[t] \in {"woken", "notify"}}

TakeClient(t) ==
  /\ client' = [client EXCEPT ![t] = Head(available)]
  /\ available' = Tail(available)
  /\ redis' = [redis EXCEPT ![t] = "check"]

\* Acquire: under m_mutex, and again after a wake-up.
Acquire(t) ==
  /\ redis[t] \in {"none", "woken"}
  /\ step[t] = "idle"
  /\ \/ available # <<>> /\ TakeClient(t)
     \/ /\ available = <<>>
        /\ redis' = [redis EXCEPT ![t] = "waiting"]
        /\ UNCHANGED <<available, client>>
  /\ UNCHANGED mysqlVars

SpuriousAcquire(t) ==
  /\ redis[t] = "waiting"
  /\ redis' = [redis EXCEPT ![t] = "woken"]
  /\ UNCHANGED <<mysqlVars, available, client>>

\* EnsureConnected, outside m_mutex.
EnsureConnected(t) ==
  /\ redis[t] = "check"
  /\ redis' = [redis EXCEPT ![t] = "holding"]
  /\ UNCHANGED <<mysqlVars, available, client>>

\* Release under m_mutex: by RedisConnectionGuard, or by Acquire after
\* EnsureConnected failed.
Release(t) ==
  /\ redis[t] \in {"check", "holding"}
  /\ step[t] = "idle"
  /\ available' = Append(available, client[t])
  /\ client' = [client EXCEPT ![t] = NoClient]
  /\ redis' = [redis EXCEPT ![t] = "notify"]
  /\ UNCHANGED mysqlVars

\* Mutant: notify_one is not called.
NobodyWoken(t) == redis' = [redis EXCEPT ![t] = "none"]

Wake(t) ==
  \/ Waiting = {} /\ redis' = [redis EXCEPT ![t] = "none"]
  \/ \E w \in Waiting : redis' = [redis EXCEPT ![t] = "none", ![w] = "woken"]

\* Release: notify_one, after the mutex was released.
NotifyWaiter(t) ==
  /\ redis[t] = "notify"
  /\ Wake(t)
  /\ UNCHANGED <<mysqlVars, available, client>>
-------------------------------------------------------------------------------
PoolsNext ==
  \/ \E t \in Thread :
       \/ GetConnection(t) \/ Ping(t) \/ CreateConnection(t) \/ CreateFails(t)
       \/ ReleaseConnection(t) \/ CloseConnection(t)
       \/ Acquire(t) \/ SpuriousAcquire(t) \/ EnsureConnected(t)
       \/ Release(t) \/ NotifyWaiter(t)
  \/ \E c \in Connection : ConnectionDies(c)

PoolsSpec == PoolsInit /\ [][PoolsNext]_poolsVars
-------------------------------------------------------------------------------
PoolsTypeOK ==
  /\ pool \in Seq(Connection)
  /\ live \in 0 .. TargetPoolSize
  /\ dead \in SUBSET Connection
  /\ step \in [Thread -> {"idle", "ping", "create", "using"}]
  /\ conn \in [Thread -> Connection \cup {NoConnection}]
  /\ abandoned \in Nat
  /\ available \in Seq(Client)
  /\ redis \in [Thread -> {"none", "waiting", "woken", "check", "holding", "notify"}]
  /\ client \in [Thread -> Client \cup {NoClient}]

(***************************************************************************)
(* A MySQL connection or Redis client is idle in its pool, once, or used by  *)
(* one thread: two threads never send commands on the same connection, also  *)
(* when connections die, are replaced or are closed by their user.  No Redis *)
(* client is lost on the way.                                                *)
(***************************************************************************)
ExclusiveUse ==
  /\ \A i, j \in DOMAIN pool : pool[i] = pool[j] => i = j
  /\ \A s, t \in Thread : conn[s] = conn[t] /\ s # t => conn[s] = NoConnection
  /\ \A t \in Thread, i \in DOMAIN pool : conn[t] # pool[i]
  /\ \A i, j \in DOMAIN available : available[i] = available[j] => i = j
  /\ \A s, t \in Thread : client[s] = client[t] /\ s # t => client[s] = NoClient
  /\ \A t \in Thread, i \in DOMAIN available : client[t] # available[i]
  /\ \A c \in Client : \/ \E i \in DOMAIN available : available[i] = c
                       \/ \E t \in Thread : client[t] = c

(***************************************************************************)
(* m_liveConnectionCount counts the idle connections, those in use, those    *)
(* being made and those that a user of the pool closed itself: concurrent    *)
(* replacement and refilling neither lose a slot nor invent one.             *)
(***************************************************************************)
SlotsAccounted == live = Len(pool) + Cardinality(Busy) + abandoned

(***************************************************************************)
(* A thread does not wait while a Redis client is idle and nobody is on the  *)
(* way to wake it: there are as many woken or notifying threads as idle      *)
(* clients.  A thread that comes in between and takes the client is safe.    *)
(***************************************************************************)
NobodyWaitsBesideIdle == Waiting # {} => Len(available) <= Cardinality(Awake)
===============================================================================
